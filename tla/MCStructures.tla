---------------------------- MODULE MCStructures ----------------------------
(***************************************************************************)
(* The containers that threads share, and the ways of a page to and from   *)
(* the SSD, on small instances.  A behaviour is one of a part: the others  *)
(* keep their initial state.                                               *)
(***************************************************************************)
EXTENDS Integers, Sequences, FiniteSets, FiniteSetTheorems, TLC, TLAPS

CONSTANTS
  Parts,
  Producer, Consumer, QueueBits, MaxTickets, Nobody,                       \* MPMCQueue
  ListThread, Element, Partitions, BatchSize, Batches, MaxExits,     \* FreeList
  MemoryThreads, bufferSize, Sizes, Alignments,                      \* BufferResource
  Writers, Readers, MaxEntries, MaxBatch, MaxBatches,                \* LinkedList
  IoFrames, BatchMaxSize, PageValues,                                \* AsyncIO
  Pages, SsdPages, PoolFrames, PoolThreads, MaxVersion               \* BufferPool

\* a thread pushes or pops; the capacity is a power of two, of which the provers only need that it is a number
ASSUME QueueAssumption == Producer \cap Consumer = {} /\ 2 ^ QueueBits \in Nat \ {0}

VARIABLES
  part,       \* the one that runs
  \* MPMCQueue
  head, tail, turn, storage, queuePc, ticket, pushed, popped,
  \* FreeList
  content, full, empty, elements, handle, out, op, exits,
  \* BufferResource
  bufferPosition, sizeLeft, mutex, request, blocks,
  \* LinkedList
  pages, xlatch, slatch, writer, reader, batches,
  \* AsyncIO
  Reads, ring, commands, ready, outstanding, kernel, done, events, upgrade, ssdFrame, ssdSsd, ssdLast,
  \* BufferPool
  phase, cursor, pageList, pidList, poolFrame, poolSsd, retry, poolPc, version, poolLast, stillLatched

queueVars == <<head, tail, turn, storage, queuePc, ticket, pushed, popped>>
listVars == <<content, full, empty, elements, handle, out, op, exits>>
memoryVars == <<bufferPosition, sizeLeft, mutex, request, blocks>>
linkedVars == <<pages, xlatch, slatch, writer, reader, batches>>
ssdVars == <<Reads, ring, commands, ready, outstanding, kernel, done, events, upgrade, ssdFrame, ssdSsd,
             ssdLast>>
poolVars == <<phase, cursor, pageList, pidList, poolFrame, poolSsd, retry, poolPc, version, poolLast,
              stillLatched>>
vars == <<part, queueVars, listVars, memoryVars, linkedVars, ssdVars, poolVars>>

Q == INSTANCE MPMCQueue WITH Bits <- QueueBits, None <- Nobody, pc <- queuePc
F == INSTANCE FreeList WITH Thread <- ListThread, None <- Nobody
M == INSTANCE BufferResource WITH Threads <- MemoryThreads
L == INSTANCE LinkedList
S == INSTANCE AsyncIO WITH Frames <- IoFrames, N <- BatchMaxSize, Values <- PageValues, frame <- ssdFrame, ssd
                           <- ssdSsd, last <- ssdLast
P == INSTANCE BufferPool WITH Frames <- PoolFrames, Threads <- PoolThreads, frame <- poolFrame, ssd <-
                              poolSsd, pc <- poolPc, last <- poolLast

\* there are slots, the ring has room for them, and the bound of a read buffer does not wrap around
ASSUME SlotAssumption ==
  /\ BatchMaxSize \in Nat \ {0}
  /\ S!Size \in Nat /\ S!Size >= BatchMaxSize
  /\ (BatchMaxSize - 2) % 2 ^ 16 <= BatchMaxSize - 2
  /\ S!NoFrame \notin IoFrames /\ PageValues \in Nat \ {0}

\* the pool has pages, frames and threads
ASSUME PoolAssumption ==
  Pages \in Nat /\ SsdPages \in Nat \ {0} /\ PoolFrames \in Nat /\ PoolThreads \in Nat \ {0}

\* batches have room, and Nobody is neither an element nor a batch
ASSUME ListAssumption ==
  /\ Partitions \in Nat /\ Batches \in Nat /\ BatchSize \in Nat \ {0}
  /\ IsFiniteSet(Element) /\ IsFiniteSet(ListThread) /\ Nobody \notin Element /\ Nobody \notin F!Batch

\* the lists are sized with a tenth on top, which is one batch for each thread when there are many elements
ASSUME RoomAssumption ==
  Cardinality(Element) + Cardinality(ListThread) * BatchSize <= (Partitions * Batches) * BatchSize

\* an element fits in a page
ASSUME PagesAssumption == MaxEntries \in Nat \ {0} /\ MaxBatch \in Nat /\ MaxBatches \in Nat

\* sizes in bytes and alignments are numbers
ASSUME MemoryAssumption == bufferSize \in Nat /\ Sizes \subseteq Nat /\ Alignments \subseteq Nat \ {0}

\* only the part p runs
Rest(p) == /\ IF p = "queue" THEN TRUE ELSE UNCHANGED queueVars
           /\ IF p = "freeLists" THEN TRUE ELSE UNCHANGED listVars
           /\ IF p = "memory" THEN TRUE ELSE UNCHANGED memoryVars
           /\ IF p = "linkedList" THEN TRUE ELSE UNCHANGED linkedVars
           /\ IF p = "ssd" THEN TRUE ELSE UNCHANGED ssdVars
           /\ IF p = "bufferPool" THEN TRUE ELSE UNCHANGED poolVars
           /\ UNCHANGED part

Init == /\ part \in Parts
        /\ Q!Init /\ F!Init /\ M!Init /\ L!Init /\ S!Init /\ P!Init
        /\ part # "ssd" => Reads

Queue == part = "queue" /\ Q!Next /\ Rest("queue")
FreeLists == part = "freeLists" /\ F!Next /\ Rest("freeLists")
Memory == part = "memory" /\ M!Next /\ Rest("memory")
LinkedList == part = "linkedList" /\ L!Next /\ Rest("linkedList")
Ssd == part = "ssd" /\ S!Next /\ Rest("ssd")
BufferPool == part = "bufferPool" /\ P!Next /\ Rest("bufferPool")

Next == Queue \/ FreeLists \/ Memory \/ LinkedList \/ Ssd \/ BufferPool

Spec == Init /\ [][Next]_vars

\* producers are alike, and so are consumers
Symmetry == Permutations(Producer) \cup Permutations(Consumer)

-----------------------------------------------------------------------------
(* Properties *)

(***************************************************************************)
(* Pops return the values in the order in which the pushes drew their      *)
(* tickets, each value once, although slots are reused round after round   *)
(* and threads overtake each other between their ticket and their slot;    *)
(* a slot is used by one thread at a time (rigtorp::MPMCQueue).            *)
(***************************************************************************)
FirstInFirstOut == part = "queue" => Q!FirstInFirstOut /\ Q!SlotIsExclusive

(***************************************************************************)
(* A frame, page or pid is in exactly one place, whichever thread pops     *)
(* what another one has pushed, and so are the batches it travels in; the  *)
(* count of a partition is exact and a push finds an empty batch           *)
(* (PartitionedQueue).  Pieces of the memory that the network cards know   *)
(* do not overlap and keep to its end (SynchronizedMonotonicBuffer...).    *)
(***************************************************************************)
ElementsConserved ==
  /\ part = "freeLists" => F!ElementsConserved /\ F!BatchesConserved /\ F!CounterIsExact /\ F!RoomForPush
  /\ part = "memory" => M!BlocksAreDisjoint /\ M!BlocksAreInside

(***************************************************************************)
(* The pages of a LinkedList are one list that only grows at its end: no   *)
(* step moves what is there, the elements of one fill stay together, and a *)
(* range is read as it stands, across pages and while others append.       *)
(***************************************************************************)
RangesAreExact ==
  /\ [](part = "linkedList" => L!OneList /\ L!BatchesAreContiguous /\ L!RangeIsExact)
  /\ L!OnlyGrows

(***************************************************************************)
(* What a worker can read is the last write, and a page that is not in     *)
(* memory is complete on the SSD: a page that was written again while it   *)
(* went to the SSD is not evicted, slots of the asynchronous buffers       *)
(* belong to one request of a latched frame, and writeAllPages leaves no   *)
(* page out that the page provider has latched when its turn comes.        *)
(***************************************************************************)
NoLostWrite ==
  /\ part = "ssd" => S!NoLostWrite /\ S!SlotIsExclusive /\ S!CommandIsLatched
  /\ part = "bufferPool" => P!NoUpdateIsLost /\ P!PoolIsConserved /\ P!FlushWritesAll /\ P!SlotsAreOwn

-----------------------------------------------------------------------------
(* The queue *)

(* where a pushing and where a popping thread can be *)
ProducerPc == {"rest", "wait", "construct", "publish", "tryTurn", "tryDraw", "tryAgain"}
ConsumerPc == {"rest", "waitFull", "move", "free", "tryFull", "tryTake", "tryTail"}

(* the type of the queue's state *)
QueueTypes ==
  /\ head \in Nat /\ tail \in Nat
  /\ turn \in [0..(Q!Capacity - 1) -> Nat]
  /\ storage \in [0..(Q!Capacity - 1) -> (Producer \X Nat) \cup {Nobody}]
  /\ queuePc \in [Q!Thread -> ProducerPc \cup ConsumerPc]
  /\ \A t \in Producer : queuePc[t] \in ProducerPc
  /\ \A t \in Consumer : queuePc[t] \in ConsumerPc
  /\ ticket \in [Q!Thread -> Nat]
  /\ pushed \in Seq(Producer \X Nat) /\ Len(pushed) = head
  /\ popped \subseteq Nat \X ((Producer \X Nat) \cup {Nobody})

(* threads with a ticket of their own; the others have only read a counter *)
Pushes(t) == queuePc[t] \in {"wait", "construct", "publish"}
Pops(t) == queuePc[t] \in {"waitFull", "move", "free"}

(* Nobody else has a ticket that was drawn. *)
TicketsAreOwn ==
  /\ \A t \in Producer : Pushes(t) => ticket[t] < head /\ pushed[ticket[t] + 1] = <<t, ticket[t]>>
  /\ \A t \in Consumer : Pops(t) => ticket[t] < tail
  /\ \A t, u \in Producer : Pushes(t) /\ Pushes(u) /\ t # u => ticket[t] # ticket[u]
  /\ \A t, u \in Consumer : Pops(t) /\ Pops(u) /\ t # u => ticket[t] # ticket[u]

Empties(i) == turn[Q!Idx(i)] = Q!Turn(i) * 2          \* the slot waits for the push with ticket i
Fulls(i) == turn[Q!Idx(i)] = Q!Turn(i) * 2 + 1        \* and here for the pop

(* Who is in a slot has its turn, and so has who can still draw the ticket *)
(* with which the slot was found ready.                                    *)
TurnsAreKept ==
  /\ \A t \in Producer : queuePc[t] \in {"construct", "publish"} => Empties(ticket[t])
  /\ \A t \in Consumer : queuePc[t] \in {"move", "free"} => Fulls(ticket[t])
  /\ \A t \in Producer : queuePc[t] \in {"tryTurn", "tryDraw"} => ticket[t] <= head
  /\ \A t \in Consumer : queuePc[t] \in {"tryFull", "tryTake"} => ticket[t] <= tail
  /\ \A t \in Producer : queuePc[t] = "tryDraw" /\ ticket[t] = head => Empties(head)
  /\ \A t \in Consumer : queuePc[t] = "tryTake" /\ ticket[t] = tail => Fulls(tail)

(* What a slot holds in its turn, unless the thread that has the turn has  *)
(* already made or taken the value.                                        *)
Publishing(i) == \E t \in Producer : queuePc[t] = "publish" /\ ticket[t] = i
Freeing(i) == \E t \in Consumer : queuePc[t] = "free" /\ ticket[t] = i
EmptiesHold == \A i \in Nat : Empties(i) => storage[Q!Idx(i)] = Nobody \/ Publishing(i)
FullsHold == \A i \in Nat : Fulls(i) => i < head /\ (storage[Q!Idx(i)] = pushed[i + 1] \/ Freeing(i))
UsersHold ==
  /\ \A t \in Producer : queuePc[t] = "publish" => storage[Q!Idx(ticket[t])] = <<t, ticket[t]>>
  /\ \A t \in Consumer : queuePc[t] = "free" => storage[Q!Idx(ticket[t])] = Nobody
SlotsHold == EmptiesHold /\ FullsHold /\ UsersHold

QueueInv == QueueTypes /\ TicketsAreOwn /\ TurnsAreKept /\ SlotsHold /\ Q!FirstInFirstOut

(* Division and remainder know the number. *)
LEMMA Division ==
  ASSUME NEW c \in Nat \ {0}, NEW i \in Nat
  PROVE  i % c \in 0..(c - 1) /\ i \div c \in Nat
<1>1. i \div c \in Int
  BY SMT
<1>2. i \div c >= 0
  BY <1>1, SMT
<1>3. i % c \in 0..(c - 1)
  BY SMT
<1> QED
  BY <1>1, <1>2, <1>3

(* A number is known by its quotient and its remainder. *)
LEMMA SameDivision ==
  ASSUME NEW c \in Nat \ {0}, NEW i \in Nat, NEW j \in Nat, i % c = j % c, i \div c = j \div c
  PROVE  i = j
BY SMT

(* A ticket is known by its slot and its turn. *)
LEMMA TicketsBySlot ==
  /\ \A i \in Nat : Q!Idx(i) \in 0..(Q!Capacity - 1) /\ Q!Turn(i) \in Nat
  /\ \A i, j \in Nat : Q!Idx(i) = Q!Idx(j) /\ Q!Turn(i) = Q!Turn(j) => i = j
<1>1. Q!Capacity \in Nat \ {0}
  BY QueueAssumption DEF Q!Capacity
<1>2. ASSUME NEW i \in Nat
      PROVE  Q!Idx(i) \in 0..(Q!Capacity - 1) /\ Q!Turn(i) \in Nat
  BY <1>1, Division DEF Q!Idx, Q!Turn
<1>3. ASSUME NEW i \in Nat, NEW j \in Nat, Q!Idx(i) = Q!Idx(j), Q!Turn(i) = Q!Turn(j)
      PROVE  i = j
  BY <1>1, <1>3, SameDivision DEF Q!Idx, Q!Turn
<1> QED
  BY <1>2, <1>3

(* The constructor leaves every slot to the first push. *)
LEMMA QueueInit == Q!Init => QueueInv
<1> SUFFICES ASSUME Q!Init PROVE QueueInv
  OBVIOUS
<1>1. QueueTypes
  BY DEF Q!Init, QueueTypes, Q!Thread, ProducerPc, ConsumerPc
<1>2. TicketsAreOwn /\ TurnsAreKept
  BY DEF Q!Init, TicketsAreOwn, TurnsAreKept, Pushes, Pops, Q!Thread
<1>3. SlotsHold
  <2>1. \A i \in Nat : storage[Q!Idx(i)] = Nobody
    BY TicketsBySlot DEF Q!Init
  <2>2. \A i \in Nat : ~Fulls(i)
    <3> SUFFICES ASSUME NEW i \in Nat, 0 = Q!Turn(i) * 2 + 1 PROVE FALSE
      BY TicketsBySlot DEF Q!Init, Fulls
    <3> QED
      BY TicketsBySlot
  <2> QED
    BY <2>1, <2>2 DEF SlotsHold, EmptiesHold, FullsHold, UsersHold, Q!Init, Q!Thread
<1> QED
  BY <1>1, <1>2, <1>3 DEF QueueInv, Q!Init, Q!FirstInFirstOut

(* The step is one of thread t, which goes on with l and the number i. *)
QueueMove(t, l, i) ==
  /\ queuePc' = [queuePc EXCEPT ![t] = l] /\ ticket' = [ticket EXCEPT ![t] = i] /\ i \in Nat
  /\ l \in IF t \in Producer THEN ProducerPc ELSE ConsumerPc

(* Only thread t has moved. *)
LEMMA OthersWait ==
  ASSUME QueueInv, NEW t \in Q!Thread, NEW l, NEW i, QueueMove(t, l, i)
  PROVE  /\ queuePc'[t] = l /\ ticket'[t] = i
         /\ \A u \in Q!Thread : u # t => queuePc'[u] = queuePc[u] /\ ticket'[u] = ticket[u]
         /\ queuePc' \in [Q!Thread -> ProducerPc \cup ConsumerPc] /\ ticket' \in [Q!Thread -> Nat]
         /\ \A u \in Producer : queuePc'[u] \in ProducerPc
         /\ \A u \in Consumer : queuePc'[u] \in ConsumerPc
<1>1. /\ queuePc \in [Q!Thread -> ProducerPc \cup ConsumerPc] /\ ticket \in [Q!Thread -> Nat]
      /\ \A u \in Producer : queuePc[u] \in ProducerPc
      /\ \A u \in Consumer : queuePc[u] \in ConsumerPc
  BY DEF QueueInv, QueueTypes
<1>2. l \in ProducerPc \cup ConsumerPc /\ i \in Nat
  BY DEF QueueMove
<1>3. /\ queuePc'[t] = l /\ ticket'[t] = i
      /\ \A u \in Q!Thread : u # t => queuePc'[u] = queuePc[u] /\ ticket'[u] = ticket[u]
      /\ queuePc' \in [Q!Thread -> ProducerPc \cup ConsumerPc] /\ ticket' \in [Q!Thread -> Nat]
  BY <1>1, <1>2 DEF QueueMove
<1>4. t \in Producer => l \in ProducerPc
  BY DEF QueueMove
<1>5. t \in Consumer => l \in ConsumerPc
  BY QueueAssumption DEF QueueMove
<1> QED
  BY <1>1, <1>3, <1>4, <1>5 DEF Q!Thread

(* Steps that change no slot and draw no ticket: a thread reads a counter, *)
(* finds its slot ready or not, or begins to use it.                       *)
LEMMA Looks ==
  ASSUME QueueInv, NEW t \in Q!Thread, NEW l, NEW i, QueueMove(t, l, i),
         UNCHANGED <<head, tail, turn, storage, pushed, popped>>,
         queuePc[t] \notin {"publish", "free"},
         \/ l \in {"rest", "tryAgain", "tryTail"}
         \/ l \in {"tryTurn", "tryDraw"} /\ i <= head /\ (l = "tryDraw" /\ i = head => Empties(head))
         \/ l \in {"tryFull", "tryTake"} /\ i <= tail /\ (l = "tryTake" /\ i = tail => Fulls(tail))
         \/ queuePc[t] = "wait" /\ l = "construct" /\ i = ticket[t] /\ Empties(i)
         \/ queuePc[t] = "waitFull" /\ l = "move" /\ i = ticket[t] /\ Fulls(i)
  PROVE  QueueInv'
<1> USE DEF QueueInv
<1>1. /\ queuePc'[t] = l /\ ticket'[t] = i
      /\ \A u \in Q!Thread : u # t => queuePc'[u] = queuePc[u] /\ ticket'[u] = ticket[u]
  BY OthersWait
<1>2. QueueTypes'
  BY OthersWait DEF QueueTypes
<1>3. \A j : (Empties(j)' <=> Empties(j)) /\ (Fulls(j)' <=> Fulls(j))
  BY DEF Empties, Fulls
<1>4. \A u \in Producer : u \in Q!Thread
  BY DEF Q!Thread
<1>5. \A u \in Consumer : u \in Q!Thread
  BY DEF Q!Thread
<1>6. TicketsAreOwn'
  BY <1>1, <1>4, <1>5 DEF TicketsAreOwn, Pushes, Pops
<1>7. TurnsAreKept'
  BY <1>1, <1>3, <1>4, <1>5 DEF TurnsAreKept
<1>8. SlotsHold'
  BY <1>1, <1>3, <1>4, <1>5 DEF SlotsHold, EmptiesHold, FullsHold, UsersHold, Publishing, Freeing
<1> QED
  BY <1>2, <1>6, <1>7, <1>8 DEF Q!FirstInFirstOut

(* A producer draws the next ticket: emplace, or try_emplace whose slot is *)
(* still ready.                                                            *)
LEMMA DrawsPush ==
  ASSUME QueueInv, NEW t \in Producer, NEW l, QueueMove(t, l, head),
         head' = head + 1, pushed' = Append(pushed, <<t, head>>), UNCHANGED <<tail, turn, storage, popped>>,
         queuePc[t] \in {"rest", "tryDraw"},
         l = "wait" \/ (l = "construct" /\ Empties(head))
  PROVE  QueueInv'
<1> USE DEF QueueInv
<1>1. /\ queuePc'[t] = l /\ ticket'[t] = head
      /\ \A u \in Q!Thread : u # t => queuePc'[u] = queuePc[u] /\ ticket'[u] = ticket[u]
  BY OthersWait DEF Q!Thread
<1>2. /\ pushed' \in Seq(Producer \X Nat) /\ Len(pushed') = head' /\ head \in Nat /\ ticket \in [Q!Thread -> Nat]
      /\ pushed'[head + 1] = <<t, head>> /\ \A j \in Nat : j < head => pushed'[j + 1] = pushed[j + 1]
  BY DEF QueueTypes
<1>3. QueueTypes'
  <2>1. t \in Q!Thread
    BY DEF Q!Thread
  <2> QED
    BY <1>2, <2>1, OthersWait DEF QueueTypes
<1>4. \A j : (Empties(j)' <=> Empties(j)) /\ (Fulls(j)' <=> Fulls(j))
  BY DEF Empties, Fulls
<1>5. /\ \A u \in Producer : u \in Q!Thread /\ ticket[u] \in Nat
      /\ \A u \in Consumer : u \in Q!Thread /\ ticket[u] \in Nat /\ u # t
  BY <1>2, QueueAssumption DEF Q!Thread
<1>6. TicketsAreOwn'
  <2>1. \A u \in Producer : Pushes(u)' => ticket'[u] < head' /\ pushed'[ticket'[u] + 1] = <<u, ticket'[u]>>
    <3> SUFFICES ASSUME NEW u \in Producer, Pushes(u)'
                 PROVE  ticket'[u] < head' /\ pushed'[ticket'[u] + 1] = <<u, ticket'[u]>>
      OBVIOUS
    <3>1. CASE u = t
      BY ONLY <1>1, <1>2, <3>1, head' = head + 1
    <3>2. CASE u # t
      <4>1. Pushes(u) /\ ticket'[u] = ticket[u] /\ ticket[u] \in Nat
        BY <1>1, <1>5, <3>2 DEF Pushes
      <4>2. ticket[u] < head /\ pushed[ticket[u] + 1] = <<u, ticket[u]>>
        BY <4>1 DEF TicketsAreOwn
      <4> QED
        BY ONLY <4>1, <4>2, <1>2, head' = head + 1
    <3> QED
      BY <3>1, <3>2
  <2>2. \A u, v \in Producer : Pushes(u)' /\ Pushes(v)' /\ u # v => ticket'[u] # ticket'[v]
    <3>1. \A u \in Producer : u # t /\ Pushes(u)' => Pushes(u) /\ ticket'[u] = ticket[u] /\ ticket[u] # head
      <4>1. \A u \in Producer : u # t /\ Pushes(u)' => Pushes(u) /\ ticket'[u] = ticket[u]
        BY <1>1, <1>5 DEF Pushes
      <4>2. \A u \in Producer : Pushes(u) => ticket[u] < head
        BY DEF TicketsAreOwn
      <4> QED
        BY <1>2, <1>5, <4>1, <4>2
    <3>2. \A u, v \in Producer : Pushes(u) /\ Pushes(v) /\ u # v => ticket[u] # ticket[v]
      BY DEF TicketsAreOwn
    <3> QED
      BY ONLY <1>1, <3>1, <3>2
  <2>3. /\ \A u \in Consumer : Pops(u)' => ticket'[u] < tail'
        /\ \A u, v \in Consumer : Pops(u)' /\ Pops(v)' /\ u # v => ticket'[u] # ticket'[v]
    BY <1>1, <1>5 DEF TicketsAreOwn, Pops
  <2> QED
    BY <2>1, <2>2, <2>3 DEF TicketsAreOwn
<1>7. TurnsAreKept'
  <2>1. \A u \in Producer : queuePc'[u] \in {"tryTurn", "tryDraw"} => ticket'[u] <= head' /\ ticket'[u] # head'
    <3>1. \A u \in Producer : queuePc'[u] \in {"tryTurn", "tryDraw"} => ticket'[u] = ticket[u] /\ ticket[u] <= head
      BY <1>1, <1>5 DEF TurnsAreKept
    <3> QED
      BY <1>2, <1>5, <3>1
  <2>2. \A u \in Producer : queuePc'[u] \in {"construct", "publish"} => Empties(ticket'[u])
    <3>1. \A u \in Producer : queuePc[u] \in {"construct", "publish"} => Empties(ticket[u])
      BY DEF TurnsAreKept
    <3>2. l \in {"construct", "publish"} => Empties(head)
      OBVIOUS
    <3> QED
      BY ONLY <1>1, <1>5, <3>1, <3>2
  <2> QED
    BY <1>1, <1>4, <1>5, <2>1, <2>2 DEF TurnsAreKept
<1>8. SlotsHold'
  <2>1. \A u \in Producer : (queuePc'[u] = "publish" <=> queuePc[u] = "publish")
                            /\ (queuePc[u] = "publish" => ticket'[u] = ticket[u])
    BY <1>1, <1>5
  <2>2. \A u \in Consumer : (queuePc'[u] = "free" <=> queuePc[u] = "free")
                            /\ (queuePc[u] = "free" => ticket'[u] = ticket[u])
    BY <1>1, <1>5
  <2>3. \A j : (Publishing(j)' <=> Publishing(j)) /\ (Freeing(j)' <=> Freeing(j))
    BY <2>1, <2>2 DEF Publishing, Freeing
  <2>4. EmptiesHold'
    BY <1>4, <2>3 DEF SlotsHold, EmptiesHold
  <2>5. FullsHold'
    BY <1>2, <1>4, <2>3 DEF SlotsHold, FullsHold
  <2>6. UsersHold'
    BY <2>1, <2>2 DEF SlotsHold, UsersHold
  <2> QED
    BY <2>4, <2>5, <2>6 DEF SlotsHold
<1>9. Q!FirstInFirstOut'
  <2> SUFFICES ASSUME NEW x \in popped PROVE x[1] < Len(pushed') /\ x[2] = pushed'[x[1] + 1]
    BY DEF Q!FirstInFirstOut
  <2>1. x[1] \in Nat /\ x[1] < head /\ x[2] = pushed[x[1] + 1]
    BY DEF Q!FirstInFirstOut, QueueTypes
  <2> QED
    BY ONLY <1>2, <2>1, head' = head + 1
<1> QED
  BY <1>3, <1>6, <1>7, <1>8, <1>9

(* A consumer draws the next ticket: pop, or try_pop whose slot is still   *)
(* ready.                                                                  *)
LEMMA DrawsPop ==
  ASSUME QueueInv, NEW t \in Consumer, NEW l, QueueMove(t, l, tail),
         tail' = tail + 1, UNCHANGED <<head, turn, storage, pushed, popped>>,
         queuePc[t] \in {"rest", "tryTake"},
         l = "waitFull" \/ (l = "move" /\ Fulls(tail))
  PROVE  QueueInv'
<1> USE DEF QueueInv
<1>1. /\ queuePc'[t] = l /\ ticket'[t] = tail
      /\ \A u \in Q!Thread : u # t => queuePc'[u] = queuePc[u] /\ ticket'[u] = ticket[u]
  BY OthersWait DEF Q!Thread
<1>2. tail \in Nat /\ ticket \in [Q!Thread -> Nat]
  BY DEF QueueTypes
<1>3. QueueTypes'
  <2>1. t \in Q!Thread
    BY DEF Q!Thread
  <2> QED
    BY <1>2, <2>1, OthersWait DEF QueueTypes
<1>4. \A j : (Empties(j)' <=> Empties(j)) /\ (Fulls(j)' <=> Fulls(j))
  BY DEF Empties, Fulls
<1>5. /\ \A u \in Producer : u \in Q!Thread /\ ticket[u] \in Nat /\ u # t
      /\ \A u \in Consumer : u \in Q!Thread /\ ticket[u] \in Nat
  BY <1>2, QueueAssumption DEF Q!Thread
<1>6. TicketsAreOwn'
  BY <1>1, <1>2, <1>5 DEF TicketsAreOwn, Pops, Pushes
<1>7. TurnsAreKept'
  <2>1. \A u \in Consumer : queuePc'[u] \in {"tryFull", "tryTake"} => ticket'[u] <= tail' /\ ticket'[u] # tail'
    <3>1. \A u \in Consumer : queuePc'[u] \in {"tryFull", "tryTake"} => ticket'[u] = ticket[u] /\ ticket[u] <= tail
      BY <1>1, <1>5 DEF TurnsAreKept
    <3> QED
      BY <1>2, <1>5, <3>1
  <2>2. \A u \in Consumer : queuePc'[u] \in {"move", "free"} => Fulls(ticket'[u])
    BY <1>1, <1>5 DEF TurnsAreKept
  <2> QED
    BY <1>1, <1>4, <1>5, <2>1, <2>2 DEF TurnsAreKept
<1>8. SlotsHold'
  <2>1. \A u \in Producer : (queuePc'[u] = "publish" <=> queuePc[u] = "publish")
                            /\ (queuePc[u] = "publish" => ticket'[u] = ticket[u])
    BY <1>1, <1>5
  <2>2. \A u \in Consumer : (queuePc'[u] = "free" <=> queuePc[u] = "free")
                            /\ (queuePc[u] = "free" => ticket'[u] = ticket[u])
    BY <1>1, <1>5
  <2>3. \A j : (Publishing(j)' <=> Publishing(j)) /\ (Freeing(j)' <=> Freeing(j))
    BY <2>1, <2>2 DEF Publishing, Freeing
  <2>4. EmptiesHold'
    BY <1>4, <2>3 DEF SlotsHold, EmptiesHold
  <2>5. FullsHold'
    BY <1>2, <1>4, <2>3 DEF SlotsHold, FullsHold
  <2>6. UsersHold'
    BY <2>1, <2>2 DEF SlotsHold, UsersHold
  <2> QED
    BY <2>4, <2>5, <2>6 DEF SlotsHold
<1> QED
  BY <1>3, <1>6, <1>7, <1>8 DEF Q!FirstInFirstOut

(* Whose turn it is: of one ticket, for push or for pop. *)
LEMMA OneTurn ==
  /\ \A i, j \in Nat : Q!Idx(i) = Q!Idx(j) /\ Empties(i) /\ Empties(j) => i = j
  /\ \A i, j \in Nat : Q!Idx(i) = Q!Idx(j) /\ Fulls(i) /\ Fulls(j) => i = j
  /\ \A i, j \in Nat : Empties(i) /\ Fulls(j) => Q!Idx(i) # Q!Idx(j)
<1>1. \A m, n \in Nat : (m * 2 = n * 2 => m = n) /\ (m * 2 + 1 = n * 2 + 1 => m = n) /\ m * 2 # n * 2 + 1
  OBVIOUS
<1>2. \A i \in Nat : Q!Turn(i) \in Nat
  BY TicketsBySlot
<1> QED
  BY <1>1, <1>2, TicketsBySlot DEF Empties, Fulls

(* The value is made in a slot that is empty. *)
LEMMA ConstructStep ==
  ASSUME QueueInv, NEW t \in Producer, Q!Construct(t)
  PROVE  QueueInv'
<1> USE DEF QueueInv
<1>1. PICK i : i = ticket[t]
  OBVIOUS
<1>2. /\ queuePc[t] = "construct" /\ storage' = [storage EXCEPT ![Q!Idx(i)] = <<t, i>>]
      /\ UNCHANGED <<head, tail, turn, pushed, popped, ticket>> /\ i \in Nat /\ t \in Q!Thread
  BY <1>1 DEF Q!Construct, Q!ValueOf, QueueTypes, Q!Thread
<1>3. QueueMove(t, "publish", i)
  BY <1>1, <1>2 DEF Q!Construct, Q!Goto, QueueMove, ProducerPc, QueueTypes
<1>4. /\ queuePc'[t] = "publish" /\ \A u \in Q!Thread : u # t => queuePc'[u] = queuePc[u]
  BY <1>2, <1>3, OthersWait
<1>5. QueueTypes'
  <2>1. <<t, i>> \in Producer \X Nat
    BY <1>2
  <2>2. storage' \in [0..(Q!Capacity - 1) -> (Producer \X Nat) \cup {Nobody}]
    BY <1>2, <2>1 DEF QueueTypes
  <2> QED
    BY <1>2, <1>3, <2>2, OthersWait DEF QueueTypes
<1>6. /\ \A j : (Empties(j)' <=> Empties(j)) /\ (Fulls(j)' <=> Fulls(j))
      /\ \A u \in Producer : u \in Q!Thread /\ ticket[u] \in Nat
      /\ \A u \in Consumer : u \in Q!Thread /\ ticket[u] \in Nat /\ u # t
  BY <1>2, QueueAssumption DEF Empties, Fulls, QueueTypes, Q!Thread
<1>7. TicketsAreOwn' /\ TurnsAreKept'
  <2>1. \A u \in Producer : (Pushes(u)' <=> Pushes(u)) /\ (queuePc'[u] \in {"construct", "publish"} <=> queuePc[u] \in {"construct", "publish"})
    BY <1>2, <1>4, <1>6 DEF Pushes
  <2>2. \A u \in Consumer : queuePc'[u] = queuePc[u]
    BY <1>4, <1>6
  <2>3. TicketsAreOwn'
    BY <1>2, <2>1, <2>2 DEF TicketsAreOwn, Pops
  <2>4. TurnsAreKept'
    BY <1>2, <1>4, <1>6, <2>1, <2>2 DEF TurnsAreKept
  <2> QED
    BY <2>3, <2>4
<1>8. Empties(i) /\ Q!Idx(i) \in 0..(Q!Capacity - 1) /\ storage'[Q!Idx(i)] = <<t, i>>
  BY <1>1, <1>2, TicketsBySlot DEF TurnsAreKept, QueueTypes
<1>9. \A j \in Nat : Q!Idx(j) # Q!Idx(i) => storage'[Q!Idx(j)] = storage[Q!Idx(j)]
  BY <1>2, TicketsBySlot DEF QueueTypes
<1>10. EmptiesHold'
  <2>1. Publishing(i)' /\ \A j : Publishing(j) => Publishing(j)'
    BY <1>1, <1>2, <1>4, <1>6 DEF Publishing
  <2>2. \A j \in Nat : Empties(j) /\ j # i => Q!Idx(j) # Q!Idx(i)
    BY <1>2, <1>8, OneTurn
  <2> QED
    BY <1>6, <1>9, <2>1, <2>2 DEF SlotsHold, EmptiesHold
<1>11. FullsHold'
  <2>1. \A j : Freeing(j)' <=> Freeing(j)
    BY <1>2, <1>4, <1>6 DEF Freeing
  <2>2. \A j \in Nat : Fulls(j) => Q!Idx(j) # Q!Idx(i)
    BY <1>2, <1>8, OneTurn
  <2> QED
    BY <1>2, <1>6, <1>9, <2>1, <2>2 DEF SlotsHold, FullsHold
<1>12. UsersHold'
  <2>1. \A u \in Producer : queuePc[u] = "publish" => u # t /\ Q!Idx(ticket[u]) # Q!Idx(i)
    <3>1. \A u \in Producer : queuePc[u] = "publish" => u # t /\ Empties(ticket[u]) /\ ticket[u] # i
      BY <1>1, <1>2 DEF TurnsAreKept, TicketsAreOwn, Pushes
    <3> QED
      BY <1>2, <1>6, <1>8, <3>1, OneTurn
  <2>2. \A u \in Consumer : queuePc[u] = "free" => Q!Idx(ticket[u]) # Q!Idx(i)
    BY <1>2, <1>6, <1>8, OneTurn DEF TurnsAreKept
  <2>3. \A u \in Producer : queuePc'[u] = "publish" => storage'[Q!Idx(ticket'[u])] = <<u, ticket'[u]>>
    BY <1>1, <1>2, <1>4, <1>6, <1>8, <1>9, <2>1 DEF SlotsHold, UsersHold
  <2>4. \A u \in Consumer : queuePc'[u] = "free" => storage'[Q!Idx(ticket'[u])] = Nobody
    BY <1>2, <1>4, <1>6, <1>9, <2>2 DEF SlotsHold, UsersHold
  <2> QED
    BY <2>3, <2>4 DEF UsersHold
<1> QED
  BY <1>2, <1>5, <1>7, <1>10, <1>11, <1>12 DEF SlotsHold, Q!FirstInFirstOut

(* The slot gets the turn of the pop with the same ticket. *)
LEMMA PublishStep ==
  ASSUME QueueInv, NEW t \in Producer, Q!Publish(t)
  PROVE  QueueInv'
<1> USE DEF QueueInv
<1>1. PICK i : i = ticket[t]
  OBVIOUS
<1>2. /\ queuePc[t] = "publish" /\ turn' = [turn EXCEPT ![Q!Idx(i)] = Q!Turn(i) * 2 + 1]
      /\ UNCHANGED <<head, tail, storage, pushed, popped, ticket>> /\ i \in Nat /\ t \in Q!Thread
  BY <1>1 DEF Q!Publish, QueueTypes, Q!Thread
<1>3. QueueMove(t, "rest", i)
  BY <1>1, <1>2 DEF Q!Publish, Q!Goto, QueueMove, ProducerPc, QueueTypes
<1>4. /\ queuePc'[t] = "rest" /\ \A u \in Q!Thread : u # t => queuePc'[u] = queuePc[u]
  BY <1>2, <1>3, OthersWait
<1>5. QueueTypes'
  <2>1. Q!Turn(i) * 2 + 1 \in Nat
    BY <1>2, TicketsBySlot
  <2>2. turn' \in [0..(Q!Capacity - 1) -> Nat]
    BY <1>2, <2>1 DEF QueueTypes
  <2> QED
    BY <1>2, <1>3, <2>2, OthersWait DEF QueueTypes
<1>6. /\ \A u \in Producer : u \in Q!Thread /\ ticket[u] \in Nat
      /\ \A u \in Consumer : u \in Q!Thread /\ ticket[u] \in Nat /\ u # t
      /\ head \in Nat /\ tail \in Nat
  BY <1>2, QueueAssumption DEF QueueTypes, Q!Thread
<1>7. Empties(i) /\ i < head /\ storage[Q!Idx(i)] = pushed[i + 1]
  BY <1>1, <1>2 DEF TurnsAreKept, TicketsAreOwn, Pushes, SlotsHold, UsersHold
<1>8. /\ turn'[Q!Idx(i)] = Q!Turn(i) * 2 + 1
      /\ \A j \in Nat : Q!Idx(j) # Q!Idx(i) => (Empties(j)' <=> Empties(j)) /\ (Fulls(j)' <=> Fulls(j))
  BY <1>2, TicketsBySlot DEF QueueTypes, Empties, Fulls
<1>9. \A j \in Nat : Q!Idx(j) = Q!Idx(i) => ~Empties(j)' /\ (Fulls(j)' => j = i)
  <2>1. \A m, n \in Nat : m * 2 + 1 # n * 2 /\ (m * 2 + 1 = n * 2 + 1 => m = n)
    OBVIOUS
  <2> QED
    BY <1>2, <1>8, <2>1, TicketsBySlot DEF Empties, Fulls
<1>10. \A j \in Nat : (Empties(j) /\ j # i) \/ Fulls(j) => Q!Idx(j) # Q!Idx(i)
  BY <1>2, <1>7, OneTurn
<1>11. TicketsAreOwn'
  <2>1. \A u \in Producer : Pushes(u)' => Pushes(u)
    BY <1>2, <1>4, <1>6 DEF Pushes
  <2>2. \A u \in Consumer : queuePc'[u] = queuePc[u]
    BY <1>4, <1>6
  <2> QED
    BY <1>2, <2>1, <2>2 DEF TicketsAreOwn, Pops
<1>12. TurnsAreKept'
  <2>1. \A u \in Producer : queuePc'[u] \in {"construct", "publish"} => Empties(ticket[u])'
    <3>1. \A u \in Producer : queuePc'[u] \in {"construct", "publish"} => Empties(ticket[u]) /\ ticket[u] # i
      BY <1>1, <1>2, <1>4, <1>6 DEF TurnsAreKept, TicketsAreOwn, Pushes
    <3> QED
      BY <1>2, <1>6, <1>8, <1>10, <3>1 DEF Empties
  <2>2. \A u \in Consumer : queuePc'[u] \in {"move", "free"} => Fulls(ticket[u])'
    <3>1. \A u \in Consumer : queuePc'[u] \in {"move", "free"} => Fulls(ticket[u])
      BY <1>4, <1>6 DEF TurnsAreKept
    <3> QED
      BY <1>2, <1>6, <1>8, <1>10, <3>1 DEF Fulls
  <2>3. (Empties(head) => Empties(head)') /\ (Fulls(tail) => Fulls(tail)')
    BY <1>2, <1>6, <1>7, <1>8, <1>10 DEF Empties, Fulls
  <2>4. /\ \A u \in Producer : queuePc'[u] \in {"tryTurn", "tryDraw"} => queuePc'[u] = queuePc[u]
        /\ \A u \in Consumer : queuePc'[u] = queuePc[u]
    BY <1>4, <1>6
  <2> QED
    BY <1>2, <2>1, <2>2, <2>3, <2>4 DEF TurnsAreKept
<1>13. EmptiesHold'
  <2>1. \A j : Publishing(j) /\ j # i => Publishing(j)'
    BY <1>1, <1>2, <1>4, <1>6 DEF Publishing
  <2> QED
    BY <1>2, <1>8, <1>9, <2>1 DEF SlotsHold, EmptiesHold
<1>14. FullsHold'
  <2>1. \A j : Freeing(j) => Freeing(j)'
    BY <1>2, <1>4, <1>6 DEF Freeing
  <2> QED
    BY <1>2, <1>7, <1>8, <1>9, <2>1 DEF SlotsHold, FullsHold
<1>15. UsersHold'
  BY <1>2, <1>4, <1>6 DEF SlotsHold, UsersHold
<1> QED
  BY <1>2, <1>5, <1>11, <1>12, <1>13, <1>14, <1>15 DEF SlotsHold, Q!FirstInFirstOut

(* The value that is taken is the one pushed with the same ticket. *)
LEMMA MoveStep ==
  ASSUME QueueInv, NEW t \in Consumer, Q!Move(t)
  PROVE  QueueInv'
<1> USE DEF QueueInv
<1>1. PICK i : i = ticket[t]
  OBVIOUS
<1>2. /\ queuePc[t] = "move" /\ storage' = [storage EXCEPT ![Q!Idx(i)] = Nobody]
      /\ popped' = popped \cup {<<i, storage[Q!Idx(i)]>>}
      /\ UNCHANGED <<head, tail, turn, pushed, ticket>> /\ i \in Nat /\ t \in Q!Thread
  BY <1>1 DEF Q!Move, QueueTypes, Q!Thread
<1>3. QueueMove(t, "free", i)
  BY <1>1, <1>2, QueueAssumption DEF Q!Move, Q!Goto, QueueMove, ConsumerPc, QueueTypes
<1>4. /\ queuePc'[t] = "free" /\ \A u \in Q!Thread : u # t => queuePc'[u] = queuePc[u]
  BY <1>2, <1>3, OthersWait
<1>5. QueueTypes'
  <2>1. storage' \in [0..(Q!Capacity - 1) -> (Producer \X Nat) \cup {Nobody}]
    BY <1>2 DEF QueueTypes
  <2>2. storage[Q!Idx(i)] \in (Producer \X Nat) \cup {Nobody}
    BY <1>2, TicketsBySlot DEF QueueTypes
  <2>3. popped' \subseteq Nat \X ((Producer \X Nat) \cup {Nobody})
    BY <1>2, <2>2 DEF QueueTypes
  <2> QED
    BY <1>2, <1>3, <2>1, <2>3, OthersWait DEF QueueTypes
<1>6. /\ \A j : (Empties(j)' <=> Empties(j)) /\ (Fulls(j)' <=> Fulls(j))
      /\ \A u \in Producer : u \in Q!Thread /\ ticket[u] \in Nat /\ u # t
      /\ \A u \in Consumer : u \in Q!Thread /\ ticket[u] \in Nat
  BY <1>2, QueueAssumption DEF Empties, Fulls, QueueTypes, Q!Thread
<1>7. TicketsAreOwn' /\ TurnsAreKept'
  <2>1. \A u \in Consumer : (Pops(u)' <=> Pops(u)) /\ (queuePc'[u] \in {"move", "free"} <=> queuePc[u] \in {"move", "free"})
    BY <1>2, <1>4, <1>6 DEF Pops
  <2>2. \A u \in Producer : queuePc'[u] = queuePc[u]
    BY <1>4, <1>6
  <2>3. TicketsAreOwn'
    BY <1>2, <2>1, <2>2 DEF TicketsAreOwn, Pushes
  <2>4. TurnsAreKept'
    BY <1>2, <1>4, <1>6, <2>1, <2>2 DEF TurnsAreKept
  <2> QED
    BY <2>3, <2>4
<1>8. Fulls(i) /\ Q!Idx(i) \in 0..(Q!Capacity - 1) /\ storage'[Q!Idx(i)] = Nobody
  BY <1>1, <1>2, TicketsBySlot DEF TurnsAreKept, QueueTypes
<1>9. \A j \in Nat : Q!Idx(j) # Q!Idx(i) => storage'[Q!Idx(j)] = storage[Q!Idx(j)]
  BY <1>2, TicketsBySlot DEF QueueTypes
<1>10. EmptiesHold'
  <2>1. \A j : Publishing(j) => Publishing(j)'
    BY <1>2, <1>4, <1>6 DEF Publishing
  <2>2. \A j \in Nat : Empties(j) => Q!Idx(j) # Q!Idx(i)
    BY <1>2, <1>8, OneTurn
  <2> QED
    BY <1>6, <1>9, <2>1, <2>2 DEF SlotsHold, EmptiesHold
<1>11. FullsHold'
  <2>1. Freeing(i)' /\ \A j : Freeing(j) => Freeing(j)'
    BY <1>1, <1>2, <1>4, <1>6 DEF Freeing
  <2>2. \A j \in Nat : Fulls(j) /\ j # i => Q!Idx(j) # Q!Idx(i)
    BY <1>2, <1>8, OneTurn
  <2> QED
    BY <1>2, <1>6, <1>9, <2>1, <2>2 DEF SlotsHold, FullsHold
<1>12. UsersHold'
  <2>1. \A u \in Consumer : queuePc[u] = "free" => u # t /\ Q!Idx(ticket[u]) # Q!Idx(i)
    <3>1. \A u \in Consumer : queuePc[u] = "free" => u # t /\ Fulls(ticket[u]) /\ ticket[u] # i
      BY <1>1, <1>2 DEF TurnsAreKept, TicketsAreOwn, Pops
    <3> QED
      BY <1>2, <1>6, <1>8, <3>1, OneTurn
  <2>2. \A u \in Producer : queuePc[u] = "publish" => Q!Idx(ticket[u]) # Q!Idx(i)
    BY <1>2, <1>6, <1>8, OneTurn DEF TurnsAreKept
  <2>3. \A u \in Producer : queuePc'[u] = "publish" => storage'[Q!Idx(ticket'[u])] = <<u, ticket'[u]>>
    BY <1>2, <1>4, <1>6, <1>9, <2>2 DEF SlotsHold, UsersHold
  <2>4. \A u \in Consumer : queuePc'[u] = "free" => storage'[Q!Idx(ticket'[u])] = Nobody
    BY <1>1, <1>2, <1>4, <1>6, <1>8, <1>9, <2>1 DEF SlotsHold, UsersHold
  <2> QED
    BY <2>3, <2>4 DEF UsersHold
<1>13. Q!FirstInFirstOut'
  <2>1. ~Freeing(i)
    BY <1>1, <1>2 DEF Freeing, TicketsAreOwn, Pops
  <2>2. i < head /\ storage[Q!Idx(i)] = pushed[i + 1]
    BY <1>2, <1>8, <2>1 DEF SlotsHold, FullsHold
  <2> QED
    BY <1>2, <2>2 DEF Q!FirstInFirstOut, QueueTypes
<1> QED
  BY <1>5, <1>7, <1>10, <1>11, <1>12, <1>13 DEF SlotsHold

(* The slot gets the turn of the push one round later. *)
LEMMA FreeStep ==
  ASSUME QueueInv, NEW t \in Consumer, Q!FreeSlot(t)
  PROVE  QueueInv'
<1> USE DEF QueueInv
<1>1. PICK i : i = ticket[t]
  OBVIOUS
<1>2. /\ queuePc[t] = "free" /\ turn' = [turn EXCEPT ![Q!Idx(i)] = Q!Turn(i) * 2 + 2]
      /\ UNCHANGED <<head, tail, storage, pushed, popped, ticket>> /\ i \in Nat /\ t \in Q!Thread
  BY <1>1 DEF Q!FreeSlot, QueueTypes, Q!Thread
<1>3. QueueMove(t, "rest", i)
  BY <1>1, <1>2, QueueAssumption DEF Q!FreeSlot, Q!Goto, QueueMove, ConsumerPc, QueueTypes
<1>4. /\ queuePc'[t] = "rest" /\ \A u \in Q!Thread : u # t => queuePc'[u] = queuePc[u]
  BY <1>2, <1>3, OthersWait
<1>5. QueueTypes'
  <2>1. Q!Turn(i) * 2 + 2 \in Nat
    BY <1>2, TicketsBySlot
  <2>2. turn' \in [0..(Q!Capacity - 1) -> Nat]
    BY <1>2, <2>1 DEF QueueTypes
  <2> QED
    BY <1>2, <1>3, <2>2, OthersWait DEF QueueTypes
<1>6. /\ \A u \in Producer : u \in Q!Thread /\ ticket[u] \in Nat /\ u # t
      /\ \A u \in Consumer : u \in Q!Thread /\ ticket[u] \in Nat
      /\ head \in Nat /\ tail \in Nat
  BY <1>2, QueueAssumption DEF QueueTypes, Q!Thread
<1>7. Fulls(i) /\ i < tail /\ storage[Q!Idx(i)] = Nobody
  BY <1>1, <1>2 DEF TurnsAreKept, TicketsAreOwn, Pops, SlotsHold, UsersHold
<1>8. /\ turn'[Q!Idx(i)] = Q!Turn(i) * 2 + 2
      /\ \A j \in Nat : Q!Idx(j) # Q!Idx(i) => (Empties(j)' <=> Empties(j)) /\ (Fulls(j)' <=> Fulls(j))
  BY <1>2, TicketsBySlot DEF QueueTypes, Empties, Fulls
<1>9. \A j \in Nat : Q!Idx(j) = Q!Idx(i) => ~Fulls(j)' /\ storage[Q!Idx(j)] = Nobody
  <2>1. \A m, n \in Nat : m * 2 + 2 # n * 2 + 1
    OBVIOUS
  <2> QED
    BY <1>2, <1>7, <1>8, <2>1, TicketsBySlot DEF Fulls
<1>10. \A j \in Nat : (Fulls(j) /\ j # i) \/ Empties(j) => Q!Idx(j) # Q!Idx(i)
  BY <1>2, <1>7, OneTurn
<1>11. TicketsAreOwn'
  <2>1. \A u \in Consumer : Pops(u)' => Pops(u)
    BY <1>2, <1>4, <1>6 DEF Pops
  <2>2. \A u \in Producer : queuePc'[u] = queuePc[u]
    BY <1>4, <1>6
  <2> QED
    BY <1>2, <2>1, <2>2 DEF TicketsAreOwn, Pushes
<1>12. TurnsAreKept'
  <2>1. \A u \in Consumer : queuePc'[u] \in {"move", "free"} => Fulls(ticket[u])'
    <3>1. \A u \in Consumer : queuePc'[u] \in {"move", "free"} => Fulls(ticket[u]) /\ ticket[u] # i
      BY <1>1, <1>2, <1>4, <1>6 DEF TurnsAreKept, TicketsAreOwn, Pops
    <3> QED
      BY <1>2, <1>6, <1>8, <1>10, <3>1 DEF Fulls
  <2>2. \A u \in Producer : queuePc'[u] \in {"construct", "publish"} => Empties(ticket[u])'
    <3>1. \A u \in Producer : queuePc'[u] \in {"construct", "publish"} => Empties(ticket[u])
      BY <1>4, <1>6 DEF TurnsAreKept
    <3> QED
      BY <1>2, <1>6, <1>8, <1>10, <3>1 DEF Empties
  <2>3. (Empties(head) => Empties(head)') /\ (Fulls(tail) => Fulls(tail)')
    BY <1>2, <1>6, <1>7, <1>8, <1>10 DEF Empties, Fulls
  <2>4. /\ \A u \in Consumer : queuePc'[u] \in {"tryFull", "tryTake"} => queuePc'[u] = queuePc[u]
        /\ \A u \in Producer : queuePc'[u] = queuePc[u]
    BY <1>4, <1>6
  <2> QED
    BY <1>2, <2>1, <2>2, <2>3, <2>4 DEF TurnsAreKept
<1>13. EmptiesHold'
  <2>1. \A j : Publishing(j) => Publishing(j)'
    BY <1>2, <1>4, <1>6 DEF Publishing
  <2> QED
    BY <1>2, <1>8, <1>9, <2>1 DEF SlotsHold, EmptiesHold
<1>14. FullsHold'
  <2>1. \A j : Freeing(j) /\ j # i => Freeing(j)'
    BY <1>1, <1>2, <1>4, <1>6 DEF Freeing
  <2> QED
    BY <1>2, <1>8, <1>9, <2>1 DEF SlotsHold, FullsHold
<1>15. UsersHold'
  BY <1>2, <1>4, <1>6 DEF SlotsHold, UsersHold
<1> QED
  BY <1>2, <1>5, <1>11, <1>12, <1>13, <1>14, <1>15 DEF SlotsHold, Q!FirstInFirstOut

(* What a producer does keeps the invariant. *)
LEMMA ProducerStep ==
  ASSUME QueueInv, NEW t \in Producer, Q!Emplace(t) \/ Q!TryEmplace(t) \/ Q!Produce(t)
  PROVE  QueueInv'
<1>1. /\ t \in Q!Thread /\ head \in Nat /\ ticket \in [Q!Thread -> Nat] /\ ticket[t] \in Nat
      /\ queuePc[t] \in {"tryTurn", "tryDraw"} => ticket[t] <= head
      /\ queuePc[t] = "tryDraw" /\ ticket[t] = head => Empties(head)
      /\ ticket = [ticket EXCEPT ![t] = ticket[t]]
  BY DEF QueueInv, QueueTypes, TurnsAreKept, Q!Thread
<1>2. ASSUME NEW l \in ProducerPc, NEW i \in Nat, Q!Goto(t, l), ticket' = [ticket EXCEPT ![t] = i]
      PROVE  QueueMove(t, l, i)
  BY <1>2 DEF Q!Goto, QueueMove
<1>3. CASE Q!Emplace(t)
  <2>1. QueueMove(t, "wait", head)
    BY <1>1, <1>2, <1>3 DEF Q!Emplace, ProducerPc
  <2> QED
    BY <1>1, <1>3, <2>1, DrawsPush DEF Q!Emplace, Q!ValueOf
<1>4. CASE Q!TryEmplace(t)
  <2>1. QueueMove(t, "tryTurn", head)
    BY <1>1, <1>2, <1>4 DEF Q!TryEmplace, ProducerPc
  <2>2. queuePc[t] = "rest" /\ head <= head
    BY <1>1, <1>4 DEF Q!TryEmplace
  <2> QED
    BY <1>1, <1>4, <2>1, <2>2, Looks DEF Q!TryEmplace
<1>5. CASE Q!AwaitEmpty(t)
  <2>1. QueueMove(t, "construct", ticket[t]) /\ queuePc[t] = "wait" /\ Empties(ticket[t])
    BY <1>1, <1>2, <1>5 DEF Q!AwaitEmpty, ProducerPc, Empties
  <2> QED
    BY <1>1, <1>5, <2>1, Looks DEF Q!AwaitEmpty
<1>6. CASE Q!TryTurn(t)
  <2>1. queuePc[t] = "tryTurn" /\ UNCHANGED <<head, tail, turn, storage, ticket, pushed, popped>>
    BY <1>6 DEF Q!TryTurn
  <2>2. CASE Empties(ticket[t])
    <3>1. QueueMove(t, "tryDraw", ticket[t])
      BY <1>1, <1>2, <1>6, <2>1, <2>2 DEF Q!TryTurn, ProducerPc, Empties
    <3> QED
      BY <1>1, <2>1, <2>2, <3>1, Looks
  <2>3. CASE ~Empties(ticket[t])
    <3>1. QueueMove(t, "tryAgain", ticket[t])
      BY <1>1, <1>2, <1>6, <2>1, <2>3 DEF Q!TryTurn, ProducerPc, Empties
    <3> QED
      BY <1>1, <2>1, <3>1, Looks
  <2> QED
    BY <2>2, <2>3
<1>7. CASE Q!TryDraw(t)
  <2>1. queuePc[t] = "tryDraw" /\ UNCHANGED <<tail, turn, storage, popped>>
    BY <1>7 DEF Q!TryDraw
  <2>2. CASE head = ticket[t]
    <3>1. QueueMove(t, "construct", head) /\ Empties(head)
      BY <1>1, <1>2, <1>7, <2>1, <2>2 DEF Q!TryDraw, ProducerPc
    <3> QED
      BY <1>1, <1>7, <2>1, <2>2, <3>1, DrawsPush DEF Q!TryDraw, Q!ValueOf
  <2>3. CASE head # ticket[t]
    <3>1. QueueMove(t, "tryTurn", head) /\ UNCHANGED <<head, pushed>> /\ head <= head
      BY <1>1, <1>2, <1>7, <2>1, <2>3 DEF Q!TryDraw, ProducerPc
    <3> QED
      BY <1>1, <2>1, <3>1, Looks
  <2> QED
    BY <2>2, <2>3
<1>8. CASE Q!TryAgain(t)
  <2>1. queuePc[t] = "tryAgain" /\ UNCHANGED <<head, tail, turn, storage, pushed, popped>>
    BY <1>8 DEF Q!TryAgain
  <2>2. CASE head = ticket[t]
    <3>1. QueueMove(t, "rest", ticket[t])
      BY <1>1, <1>2, <1>8, <2>1, <2>2 DEF Q!TryAgain, ProducerPc
    <3> QED
      BY <1>1, <2>1, <3>1, Looks
  <2>3. CASE head # ticket[t]
    <3>1. QueueMove(t, "tryTurn", head) /\ head <= head
      BY <1>1, <1>2, <1>8, <2>1, <2>3 DEF Q!TryAgain, ProducerPc
    <3> QED
      BY <1>1, <2>1, <3>1, Looks
  <2> QED
    BY <2>2, <2>3
<1> QED
  BY <1>3, <1>4, <1>5, <1>6, <1>7, <1>8, ConstructStep, PublishStep DEF Q!Produce

(* And so does what a consumer does. *)
LEMMA ConsumerStep ==
  ASSUME QueueInv, NEW t \in Consumer, Q!Pop(t) \/ Q!TryPop(t) \/ Q!Consume(t)
  PROVE  QueueInv'
<1>1. /\ t \in Q!Thread /\ tail \in Nat /\ ticket \in [Q!Thread -> Nat] /\ ticket[t] \in Nat
      /\ queuePc[t] \in {"tryFull", "tryTake"} => ticket[t] <= tail
      /\ queuePc[t] = "tryTake" /\ ticket[t] = tail => Fulls(tail)
      /\ ticket = [ticket EXCEPT ![t] = ticket[t]]
  BY DEF QueueInv, QueueTypes, TurnsAreKept, Q!Thread
<1>2. ASSUME NEW l \in ConsumerPc, NEW i \in Nat, Q!Goto(t, l), ticket' = [ticket EXCEPT ![t] = i]
      PROVE  QueueMove(t, l, i)
  BY <1>2, QueueAssumption DEF Q!Goto, QueueMove
<1>3. CASE Q!Pop(t)
  <2>1. QueueMove(t, "waitFull", tail)
    BY <1>1, <1>2, <1>3 DEF Q!Pop, ConsumerPc
  <2> QED
    BY <1>1, <1>3, <2>1, DrawsPop DEF Q!Pop
<1>4. CASE Q!TryPop(t)
  <2>1. QueueMove(t, "tryFull", tail)
    BY <1>1, <1>2, <1>4 DEF Q!TryPop, ConsumerPc
  <2>2. queuePc[t] = "rest" /\ tail <= tail
    BY <1>1, <1>4 DEF Q!TryPop
  <2> QED
    BY <1>1, <1>4, <2>1, <2>2, Looks DEF Q!TryPop
<1>5. CASE Q!AwaitFull(t)
  <2>1. QueueMove(t, "move", ticket[t]) /\ queuePc[t] = "waitFull" /\ Fulls(ticket[t])
    BY <1>1, <1>2, <1>5 DEF Q!AwaitFull, ConsumerPc, Fulls
  <2> QED
    BY <1>1, <1>5, <2>1, Looks DEF Q!AwaitFull
<1>6. CASE Q!TryFull(t)
  <2>1. queuePc[t] = "tryFull" /\ UNCHANGED <<head, tail, turn, storage, ticket, pushed, popped>>
    BY <1>6 DEF Q!TryFull
  <2>2. CASE Fulls(ticket[t])
    <3>1. QueueMove(t, "tryTake", ticket[t])
      BY <1>1, <1>2, <1>6, <2>1, <2>2 DEF Q!TryFull, ConsumerPc, Fulls
    <3> QED
      BY <1>1, <2>1, <2>2, <3>1, Looks
  <2>3. CASE ~Fulls(ticket[t])
    <3>1. QueueMove(t, "tryTail", ticket[t])
      BY <1>1, <1>2, <1>6, <2>1, <2>3 DEF Q!TryFull, ConsumerPc, Fulls
    <3> QED
      BY <1>1, <2>1, <3>1, Looks
  <2> QED
    BY <2>2, <2>3
<1>7. CASE Q!TryTake(t)
  <2>1. queuePc[t] = "tryTake" /\ UNCHANGED <<head, turn, storage, pushed, popped>>
    BY <1>7 DEF Q!TryTake
  <2>2. CASE tail = ticket[t]
    <3>1. QueueMove(t, "move", tail) /\ Fulls(tail) /\ tail' = tail + 1
      BY <1>1, <1>2, <1>7, <2>1, <2>2 DEF Q!TryTake, ConsumerPc
    <3> QED
      BY <1>1, <2>1, <3>1, DrawsPop
  <2>3. CASE tail # ticket[t]
    <3>1. QueueMove(t, "tryFull", tail) /\ UNCHANGED tail /\ tail <= tail
      BY <1>1, <1>2, <1>7, <2>1, <2>3 DEF Q!TryTake, ConsumerPc
    <3> QED
      BY <1>1, <2>1, <3>1, Looks
  <2> QED
    BY <2>2, <2>3
<1>8. CASE Q!TryTail(t)
  <2>1. queuePc[t] = "tryTail" /\ UNCHANGED <<head, tail, turn, storage, pushed, popped>>
    BY <1>8 DEF Q!TryTail
  <2>2. CASE tail = ticket[t]
    <3>1. QueueMove(t, "rest", ticket[t])
      BY <1>1, <1>2, <1>8, <2>1, <2>2 DEF Q!TryTail, ConsumerPc
    <3> QED
      BY <1>1, <2>1, <3>1, Looks
  <2>3. CASE tail # ticket[t]
    <3>1. QueueMove(t, "tryFull", tail) /\ tail <= tail
      BY <1>1, <1>2, <1>8, <2>1, <2>3 DEF Q!TryTail, ConsumerPc
    <3> QED
      BY <1>1, <2>1, <3>1, Looks
  <2> QED
    BY <2>2, <2>3
<1> QED
  BY <1>3, <1>4, <1>5, <1>6, <1>7, <1>8, MoveStep, FreeStep DEF Q!Consume

(* Every step keeps the invariant of the queue. *)
LEMMA QueueStep == QueueInv /\ [Q!Next]_queueVars => QueueInv'
<1> SUFFICES ASSUME QueueInv, [Q!Next]_queueVars PROVE QueueInv'
  OBVIOUS
<1>1. CASE Q!Next
  BY <1>1, ProducerStep, ConsumerStep DEF Q!Next
<1>2. CASE UNCHANGED queueVars
  <2> USE DEF queueVars, QueueInv
  <2>1. QueueTypes' /\ Q!FirstInFirstOut'
    BY <1>2 DEF QueueTypes, Q!FirstInFirstOut
  <2>2. TicketsAreOwn'
    BY <1>2 DEF TicketsAreOwn, Pushes, Pops
  <2>3. \A j : /\ (Empties(j)' <=> Empties(j)) /\ (Fulls(j)' <=> Fulls(j))
               /\ (Publishing(j)' <=> Publishing(j)) /\ (Freeing(j)' <=> Freeing(j))
    BY <1>2 DEF Empties, Fulls, Publishing, Freeing
  <2>4. TurnsAreKept'
    BY <1>2, <2>3 DEF TurnsAreKept
  <2>5. EmptiesHold' /\ FullsHold'
    BY <1>2, <2>3 DEF SlotsHold, EmptiesHold, FullsHold
  <2>6. UsersHold'
    BY <1>2 DEF SlotsHold, UsersHold
  <2> QED
    BY <2>1, <2>2, <2>4, <2>5, <2>6 DEF SlotsHold
<1> QED
  BY <1>1, <1>2

(* Two threads in one slot would have the same turn, so the same ticket. *)
LEMMA QueueDelivers == QueueInv => Q!FirstInFirstOut /\ Q!SlotIsExclusive
<1> SUFFICES ASSUME QueueInv PROVE Q!SlotIsExclusive
  BY DEF QueueInv
<1> USE DEF QueueInv
<1>1. \A t \in Producer : Q!InSlot(t) => Pushes(t) /\ Empties(ticket[t]) /\ ticket[t] \in Nat
  BY DEF QueueTypes, ProducerPc, Q!InSlot, TurnsAreKept, Pushes, Q!Thread
<1>2. \A t \in Consumer : Q!InSlot(t) => Pops(t) /\ Fulls(ticket[t]) /\ ticket[t] \in Nat
  BY DEF QueueTypes, ConsumerPc, Q!InSlot, TurnsAreKept, Pops, Q!Thread
<1>3. \A t, u \in Producer : t # u /\ Q!InSlot(t) /\ Q!InSlot(u) => Q!Idx(ticket[t]) # Q!Idx(ticket[u])
  BY <1>1, OneTurn DEF TicketsAreOwn
<1>4. \A t, u \in Consumer : t # u /\ Q!InSlot(t) /\ Q!InSlot(u) => Q!Idx(ticket[t]) # Q!Idx(ticket[u])
  BY <1>2, OneTurn DEF TicketsAreOwn
<1>5. \A t \in Producer, u \in Consumer : Q!InSlot(t) /\ Q!InSlot(u) => Q!Idx(ticket[t]) # Q!Idx(ticket[u])
  BY <1>1, <1>2, OneTurn
<1>6. \A t \in Producer : queuePc[t] = "construct" => storage[Q!Idx(ticket[t])] = Nobody
  <2> SUFFICES ASSUME NEW t \in Producer, queuePc[t] = "construct" PROVE storage[Q!Idx(ticket[t])] = Nobody
    OBVIOUS
  <2>1. Empties(ticket[t]) /\ ticket[t] \in Nat /\ ~Publishing(ticket[t])
    BY DEF QueueTypes, TurnsAreKept, TicketsAreOwn, Pushes, Publishing, Q!Thread
  <2> QED
    BY <2>1 DEF SlotsHold, EmptiesHold
<1> QED
  BY <1>3, <1>4, <1>5, <1>6 DEF Q!SlotIsExclusive, Q!Thread

-----------------------------------------------------------------------------
(* The buffers of the SSD *)

(* Positions of a ring wrap around at most once. *)
LEMMA Wraps ==
  ASSUME NEW c \in Nat \ {0}, NEW x \in Nat, x < 2 * c
  PROVE  x % c = IF x < c THEN x ELSE x - c
<1>1. CASE x < c
  BY <1>1, SMT
<1>2. CASE ~ (x < c)
  <2>1. PICK y \in Nat : x = y + c /\ y < c
    BY <1>2, SMT
  <2>2. (y + c) % c = y
    BY <2>1, SMT
  <2> QED
    BY <1>2, <2>1, <2>2
<1> QED
  BY <1>1, <1>2

(* Positions less than a round apart are different. *)
LEMMA Positions ==
  ASSUME NEW c \in Nat \ {0}, NEW f \in 0..(c - 1), NEW j \in 0..(c - 1)
  PROVE  /\ (f + j) % c \in 0..(c - 1)
         /\ \A i \in 0..(j - 1) : (f + i) % c # (f + j) % c /\ (f + i) % c \in 0..(c - 1)
<1>1. ASSUME NEW i \in 0..(c - 1) PROVE (f + i) % c = IF f + i < c THEN f + i ELSE f + i - c
  <2>1. PICK x \in Nat : x = f + i /\ x < 2 * c
    OBVIOUS
  <2>2. x % c = IF x < c THEN x ELSE x - c
    BY <2>1, Wraps
  <2> QED
    BY <2>1, <2>2
<1> QED
  BY <1>1

(* the rings of free and filled slots, and the slot i places behind the front *)
Ring == [data : [0..(S!Size - 1) -> S!Slots], front : 0..(S!Size - 1), count : 0..S!Size]
At(r, i) == r.data[(r.front + i) % S!Size]

(* The ring r holds the slots A, each once. *)
RingHolds(r, A) ==
  /\ r \in Ring
  /\ A = {At(r, i) : i \in 0..(r.count - 1)}
  /\ \A i, j \in 0..(r.count - 1) : At(r, i) = At(r, j) => i = j

(* what a sequence holds *)
Elems(q) == {q[i] : i \in 1..Len(q)}

(* The sequence q holds the slots A, each once. *)
QueueHolds(q, A) ==
  /\ q \in Seq(S!Slots)
  /\ A = {q[i] : i \in 1..Len(q)}
  /\ \A i, j \in 1..Len(q) : q[i] = q[j] => i = j

(* A set counted without repetition has as many elements as were counted. *)
Counts(f, m, n, A) ==
  /\ m \in Int /\ n \in Int /\ m <= n + 1 /\ f \in [m..n -> A]
  /\ A = {f[i] : i \in m..n} /\ \A i, j \in m..n : f[i] = f[j] => i = j

(* A set that is counted without repetition has as many members as numbers. *)
LEMMA Counted ==
  ASSUME NEW m, NEW n, NEW A, NEW f, Counts(f, m, n, A)
  PROVE  IsFiniteSet(A) /\ Cardinality(A) = n - m + 1
<1> USE DEF Counts
<1>1. ExistsBijection(m..n, A)
  <2>1. f \in Bijection(m..n, A)
    BY DEF Bijection, Injection, Surjection, IsInjective
  <2> QED
    BY <2>1 DEF ExistsBijection
<1>2. IsFiniteSet(m..n) /\ Cardinality(m..n) = n - m + 1
  BY FS_Interval, SMT
<1> QED
  BY <1>1, <1>2, FS_Bijection

(* There are as many slots as a batch may have. *)
LEMMA SlotsCounted == IsFiniteSet(S!Slots) /\ Cardinality(S!Slots) = BatchMaxSize
BY FS_Interval, SlotAssumption DEF S!Slots

(* A ring with slots has as many as it counts. *)
LEMMA RingCounted ==
  ASSUME NEW r, NEW A, RingHolds(r, A)
  PROVE  /\ A \subseteq S!Slots /\ IsFiniteSet(A) /\ Cardinality(A) = r.count
         /\ r.count \in Nat /\ r.count <= BatchMaxSize
<1> DEFINE f == [i \in 0..(r.count - 1) |-> At(r, i)]
<1>1. r.count \in Nat /\ r.front \in 0..(S!Size - 1) /\ r.count <= S!Size /\ r.data \in [0..(S!Size - 1) -> S!Slots]
  BY SlotAssumption DEF RingHolds, Ring
<1>2. \A i \in 0..(r.count - 1) : (r.front + i) % S!Size \in 0..(S!Size - 1)
  BY <1>1, SlotAssumption, SMT
<1>3. A \subseteq S!Slots
  BY <1>1, <1>2 DEF RingHolds, At
<1>4. A = {f[i] : i \in 0..(r.count - 1)}
  BY <1>1 DEF RingHolds
<1>5. IsFiniteSet(A) /\ Cardinality(A) = (r.count - 1) - 0 + 1
  <2>1. f \in [0..(r.count - 1) -> A]
    BY DEF RingHolds
  <2>2. \A i, j \in 0..(r.count - 1) : f[i] = f[j] => i = j
    BY DEF RingHolds
  <2>3. 0 \in Int /\ r.count - 1 \in Int /\ 0 <= r.count - 1 + 1
    BY <1>1
  <2> HIDE DEF f
  <2>4. Counts(f, 0, r.count - 1, A)
    BY <1>4, <2>1, <2>2, <2>3 DEF Counts
  <2> QED
    BY <2>4, Counted, Zenon
<1>6. Cardinality(A) <= BatchMaxSize
  BY <1>3, SlotsCounted, FS_Subset
<1> QED
  BY <1>1, <1>3, <1>5, <1>6

(* A sequence without repetition is as long as its set is large. *)
LEMMA QueueCounted ==
  ASSUME NEW q, NEW A, QueueHolds(q, A)
  PROVE  /\ A \subseteq S!Slots /\ IsFiniteSet(A) /\ Cardinality(A) = Len(q)
         /\ Len(q) \in Nat
<1>1. q \in [1..Len(q) -> S!Slots] /\ Len(q) \in Nat
  BY DEF QueueHolds
<1>2. A \subseteq S!Slots
  BY <1>1 DEF QueueHolds
<1>3. q \in [1..Len(q) -> A] /\ A = {q[i] : i \in 1..Len(q)} /\ \A i, j \in 1..Len(q) : q[i] = q[j] => i = j
  BY <1>1 DEF QueueHolds
<1>4. 1 \in Int /\ Len(q) \in Int /\ 1 <= Len(q) + 1
  BY <1>1
<1>5. IsFiniteSet(A) /\ Cardinality(A) = Len(q) - 1 + 1
  <2>1. Counts(q, 1, Len(q), A)
    BY <1>3, <1>4 DEF Counts
  <2> QED
    BY <2>1, Counted, Zenon
<1> QED
  BY <1>1, <1>2, <1>5

(* Adding a slot that is not in the ring *)
LEMMA PutHolds ==
  ASSUME NEW r, NEW A, RingHolds(r, A), NEW s \in S!Slots \ A
  PROVE  RingHolds(S!Put(r, s), A \cup {s})
<1>1. r.count < BatchMaxSize
  <2>1. Cardinality(S!Slots \ {s}) = BatchMaxSize - 1 /\ IsFiniteSet(S!Slots \ {s})
    BY SlotsCounted, FS_RemoveElement
  <2>2. A \in SUBSET (S!Slots \ {s})
    BY RingCounted
  <2>3. Cardinality(A) <= BatchMaxSize - 1
    BY <2>1, <2>2, FS_Subset
  <2> QED
    BY <2>3, RingCounted, SlotAssumption
<1>2. r.count \in Nat /\ r.front \in 0..(S!Size - 1) /\ r.count < S!Size /\ r.data \in [0..(S!Size - 1) -> S!Slots]
  BY <1>1, SlotAssumption, RingCounted DEF RingHolds, Ring
<1> DEFINE c == r.count
           p == (r.front + c) % S!Size
           new == S!Put(r, s)
<1>3. p \in 0..(S!Size - 1) /\ \A i \in 0..(c - 1) : (r.front + i) % S!Size # p /\ (r.front + i) % S!Size \in 0..(S!Size - 1)
  <2>1. S!Size \in Nat \ {0} /\ r.front \in 0..(S!Size - 1) /\ c \in 0..(S!Size - 1)
    BY <1>2, SlotAssumption
  <2> HIDE DEF c
  <2> QED
    BY <2>1, Positions, Zenon DEF p
<1>4. /\ new.data = [r.data EXCEPT ![p] = s] /\ new.front = r.front /\ new.count = c + 1
      /\ new = [data |-> new.data, front |-> new.front, count |-> new.count]
  BY DEF S!Put
<1>5. new \in Ring
  <2>1. new.data \in [0..(S!Size - 1) -> S!Slots] /\ new.front \in 0..(S!Size - 1) /\ new.count \in 0..S!Size
    <3> HIDE DEF new
    <3> QED
      BY <1>2, <1>3, <1>4, SlotAssumption
  <2> HIDE DEF new
  <2> QED
    BY <1>4, <2>1 DEF Ring
<1>6. At(new, c) = s /\ \A i \in 0..(c - 1) : At(new, i) = At(r, i)
  BY <1>2, <1>3, <1>4 DEF At
<1>7. 0..(new.count - 1) = 0..(c - 1) \cup {c}
  BY <1>2, <1>4
<1>8. A = {At(r, i) : i \in 0..(c - 1)} /\ \A i, j \in 0..(c - 1) : At(r, i) = At(r, j) => i = j
  BY DEF RingHolds
<1> HIDE DEF new, p, c
<1>9. A \cup {s} = {At(new, i) : i \in 0..(new.count - 1)}
  BY <1>6, <1>7, <1>8
<1>10. \A i, j \in 0..(new.count - 1) : At(new, i) = At(new, j) => i = j
  BY <1>6, <1>7, <1>8
<1> QED
  BY <1>5, <1>9, <1>10 DEF RingHolds, new

(* Taking the first slot out *)
LEMMA RemoveHolds ==
  ASSUME NEW r, NEW A, RingHolds(r, A), r.count > 0
  PROVE  S!Peek(r) \in A /\ RingHolds(S!Remove(r), A \ {S!Peek(r)})
<1>1. /\ r.count \in Nat \ {0} /\ r.front \in 0..(S!Size - 1) /\ r.count <= S!Size
      /\ r.data \in [0..(S!Size - 1) -> S!Slots]
  BY SlotAssumption, RingCounted DEF RingHolds, Ring
<1> DEFINE c == r.count
           f == r.front
           new == S!Remove(r)
<1>2. S!Size \in Nat \ {0} /\ 0 \in S!Slots
  BY SlotAssumption DEF S!Slots
<1>3. /\ new.data = [r.data EXCEPT ![f] = 0] /\ new.front = (f + 1) % S!Size /\ new.count = c - 1
      /\ new = [data |-> new.data, front |-> new.front, count |-> new.count]
  BY DEF S!Remove
<1>4. S!Peek(r) = At(r, 0)
  <2>1. PICK x \in Nat : x = f + 0 /\ x = f /\ x < S!Size /\ x < 2 * S!Size
    BY <1>1, <1>2
  <2>2. x % S!Size = x
    BY <1>2, <2>1, Wraps
  <2> QED
    BY <2>1, <2>2 DEF S!Peek, At
<1>5. ASSUME NEW i \in 0..(c - 2)
      PROVE  /\ (new.front + i) % S!Size = (f + (i + 1)) % S!Size /\ (f + (i + 1)) % S!Size # f
             /\ (f + (i + 1)) % S!Size \in 0..(S!Size - 1)
  <2>1. PICK x \in Nat : x = f + 1 /\ x < 2 * S!Size
    BY <1>1, <1>2
  <2>2. x % S!Size = IF x < S!Size THEN x ELSE x - S!Size
    BY <1>2, <2>1, Wraps
  <2>3. PICK y \in Nat : y = new.front + i /\ y < 2 * S!Size
    BY <1>1, <1>2, <1>3, <2>1, <2>2
  <2>4. y % S!Size = IF y < S!Size THEN y ELSE y - S!Size
    BY <1>2, <2>3, Wraps
  <2>5. PICK z \in Nat : z = f + (i + 1) /\ z < 2 * S!Size
    BY <1>1, <1>2
  <2>6. z % S!Size = IF z < S!Size THEN z ELSE z - S!Size
    BY <1>2, <2>5, Wraps
  <2>7. new.front = x % S!Size /\ (new.front + i) % S!Size = y % S!Size /\ (f + (i + 1)) % S!Size = z % S!Size
    BY <1>3, <2>1, <2>3, <2>5
  <2>8. y % S!Size = z % S!Size /\ z % S!Size # f /\ z % S!Size \in 0..(S!Size - 1)
    <3>1. /\ f \in 0..(S!Size - 1) /\ S!Size \in Nat \ {0} /\ c \in Nat \ {0} /\ c <= S!Size /\ i \in 0..(c - 2)
          /\ x = f + 1 /\ z = f + (i + 1)
          /\ y = (IF x < S!Size THEN x ELSE x - S!Size) + i
      BY <1>1, <1>2, <2>1, <2>2, <2>3, <2>5, <2>7
    <3> HIDE DEF f, c
    <3>3. /\ (IF y < S!Size THEN y ELSE y - S!Size) = (IF z < S!Size THEN z ELSE z - S!Size)
          /\ (IF z < S!Size THEN z ELSE z - S!Size) # f /\ (IF z < S!Size THEN z ELSE z - S!Size) \in 0..(S!Size - 1)
      BY ONLY <3>1
    <3> QED
      BY <2>4, <2>6, <3>3
  <2> QED
    BY <2>7, <2>8
<1>6. new \in Ring
  <2>1. new.front \in 0..(S!Size - 1)
    <3>1. PICK x \in Nat : x = f + 1
      BY <1>1
    <3>2. x % S!Size \in 0..(S!Size - 1)
      BY <1>2, SMT
    <3> HIDE DEF new
    <3> QED
      BY <1>3, <3>1, <3>2
  <2>2. new.data \in [0..(S!Size - 1) -> S!Slots] /\ new.count \in 0..S!Size
    <3> HIDE DEF new
    <3> QED
      BY <1>1, <1>2, <1>3
  <2> HIDE DEF new
  <2> QED
    BY <1>3, <2>1, <2>2 DEF Ring
<1>7. \A i \in 0..(c - 2) : At(new, i) = At(r, i + 1)
  <2> HIDE DEF new
  <2> QED
    BY <1>1, <1>3, <1>5 DEF At
<1>8. A = {At(r, i) : i \in 0..(c - 1)} /\ \A i, j \in 0..(c - 1) : At(r, i) = At(r, j) => i = j
  BY DEF RingHolds
<1>9. 0..(new.count - 1) = 0..(c - 2) /\ \A i \in 0..(c - 2) : i + 1 \in 0..(c - 1) /\ i + 1 # 0
  BY <1>1, <1>3
<1>10. 0 \in 0..(c - 1) /\ \A j \in 0..(c - 1) : j = 0 \/ \E i \in 0..(c - 2) : j = i + 1
  <2>1. ASSUME NEW j \in 0..(c - 1), j # 0 PROVE j - 1 \in 0..(c - 2) /\ j = j - 1 + 1
    BY <1>1, <2>1
  <2> QED
    BY <1>1, <2>1
<1> HIDE DEF new, c, f
<1>11. A \ {S!Peek(r)} = {At(new, i) : i \in 0..(new.count - 1)}
  <2>1. A \ {At(r, 0)} = {At(r, i + 1) : i \in 0..(c - 2)}
    BY <1>8, <1>9, <1>10
  <2> QED
    BY <1>4, <1>7, <1>9, <2>1
<1>12. \A i, j \in 0..(new.count - 1) : At(new, i) = At(new, j) => i = j
  <2>1. c \in Nat
    BY <1>1 DEF c
  <2> SUFFICES ASSUME NEW i \in 0..(c - 2), NEW j \in 0..(c - 2), At(new, i) = At(new, j) PROVE i = j
    BY <1>9
  <2>2. At(r, i + 1) = At(r, j + 1) /\ i + 1 \in 0..(c - 1) /\ j + 1 \in 0..(c - 1)
    BY <1>7, <1>9
  <2>3. i + 1 = j + 1
    BY <1>8, <2>2
  <2> QED
    BY <2>1, <2>3
<1> QED
  BY <1>4, <1>6, <1>8, <1>10, <1>11, <1>12 DEF RingHolds, new

(* Appending a slot that is not there, taking the first one, and taking    *)
(* the first ones *)
LEMMA AppendHolds ==
  ASSUME NEW q, NEW A, QueueHolds(q, A), NEW s \in S!Slots \ A
  PROVE  QueueHolds(Append(q, s), A \cup {s})
<1>1. q \in Seq(S!Slots) /\ Len(q) \in Nat /\ A = {q[i] : i \in 1..Len(q)} /\ \A i, j \in 1..Len(q) : q[i] = q[j] => i = j
  BY DEF QueueHolds
<1> DEFINE new == Append(q, s)
<1>2. /\ new \in Seq(S!Slots) /\ Len(new) = Len(q) + 1 /\ new[Len(q) + 1] = s
      /\ \A i \in 1..Len(q) : new[i] = q[i]
  BY <1>1
<1>3. 1..Len(new) = 1..Len(q) \cup {Len(q) + 1}
  BY <1>1, <1>2
<1> HIDE DEF new
<1>4. A \cup {s} = {new[i] : i \in 1..Len(new)}
  BY <1>1, <1>2, <1>3
<1>5. \A i, j \in 1..Len(new) : new[i] = new[j] => i = j
  BY <1>1, <1>2, <1>3
<1> QED
  BY <1>2, <1>4, <1>5 DEF QueueHolds, new

(* A sequence without repetition splits into two that share nothing. *)
LEMMA SplitHolds ==
  ASSUME NEW q, NEW A, QueueHolds(q, A), NEW n \in 0..Len(q)
  PROVE  /\ QueueHolds(SubSeq(q, 1, n), Elems(SubSeq(q, 1, n)))
         /\ QueueHolds(SubSeq(q, n + 1, Len(q)), Elems(SubSeq(q, n + 1, Len(q))))
         /\ A = Elems(SubSeq(q, 1, n)) \cup Elems(SubSeq(q, n + 1, Len(q)))
         /\ Elems(SubSeq(q, 1, n)) \cap Elems(SubSeq(q, n + 1, Len(q))) = {}
<1>1. q \in Seq(S!Slots) /\ Len(q) \in Nat /\ A = {q[i] : i \in 1..Len(q)} /\ \A i, j \in 1..Len(q) : q[i] = q[j] => i = j
  BY DEF QueueHolds
<1> DEFINE x == SubSeq(q, 1, n)
           y == SubSeq(q, n + 1, Len(q))
           B == {x[i] : i \in 1..Len(x)}
           C == {y[i] : i \in 1..Len(y)}
<1>2. x \in Seq(S!Slots) /\ Len(x) = n /\ \A i \in 1..n : x[i] = q[i]
  BY <1>1
<1>3. y \in Seq(S!Slots) /\ Len(y) = Len(q) - n /\ \A i \in 1..(Len(q) - n) : y[i] = q[n + i]
  BY <1>1
<1> HIDE DEF x, y
<1>4. \A i \in 1..n : i \in 1..Len(q)
  BY <1>1
<1>5. \A i \in 1..(Len(q) - n) : n + i \in 1..Len(q) /\ n + i \notin 1..n
  BY <1>1
<1>6. QueueHolds(x, B)
  BY <1>1, <1>2, <1>4 DEF QueueHolds
<1>7. QueueHolds(y, C)
  <2>1. \A i, j \in 1..(Len(q) - n) : n + i = n + j => i = j
    BY <1>1
  <2>2. \A i, j \in 1..Len(y) : y[i] = y[j] => i = j
    BY <1>1, <1>3, <1>5, <2>1
  <2> QED
    BY <1>3, <2>2 DEF QueueHolds
<1>8. B = {q[i] : i \in 1..n} /\ C = {q[n + i] : i \in 1..(Len(q) - n)}
  <2>1. Len(x) = n /\ Len(y) = Len(q) - n
    BY <1>2, <1>3
  <2>2. B = {x[i] : i \in 1..n}
    BY <2>1
  <2>3. C = {y[i] : i \in 1..(Len(q) - n)}
    BY <2>1
  <2> HIDE DEF B, C
  <2>4. B = {q[i] : i \in 1..n}
    BY <1>2, <2>2
  <2>5. C = {q[n + i] : i \in 1..(Len(q) - n)}
    BY <1>3, <2>3
  <2> QED
    BY <2>4, <2>5
<1>9. \A i \in 1..Len(q) : i \in 1..n \/ \E j \in 1..(Len(q) - n) : i = n + j
  <2>1. ASSUME NEW i \in 1..Len(q), i \notin 1..n PROVE i - n \in 1..(Len(q) - n) /\ i = n + (i - n)
    BY <1>1, <2>1
  <2> QED
    BY <2>1
<1> HIDE DEF B, C
<1>10. A = B \cup C /\ B \cap C = {}
  <2>1. A = {q[i] : i \in 1..Len(q)} /\ \A i, j \in 1..Len(q) : q[i] = q[j] => i = j
    BY <1>1
  <2>2. A \subseteq B \cup C
    BY ONLY <2>1, <1>8, <1>9
  <2>3. B \cup C \subseteq A
    BY ONLY <2>1, <1>4, <1>5, <1>8
  <2>4. B \cap C = {}
    BY ONLY <2>1, <1>4, <1>5, <1>8
  <2> QED
    BY <2>2, <2>3, <2>4
<1>11. B = Elems(x) /\ C = Elems(y)
  BY DEF B, C, Elems
<1> QED
  BY <1>6, <1>7, <1>10, <1>11 DEF x, y

(* The head of a sequence without repetition is in its tail no more. *)
LEMMA TailHolds ==
  ASSUME NEW q, NEW A, QueueHolds(q, A), q # <<>>
  PROVE  Head(q) \in A /\ QueueHolds(Tail(q), A \ {Head(q)})
<1>1. q \in Seq(S!Slots) /\ Len(q) \in Nat \ {0} /\ A = {q[i] : i \in 1..Len(q)} /\ \A i, j \in 1..Len(q) : q[i] = q[j] => i = j
  BY DEF QueueHolds
<1> DEFINE new == Tail(q)
<1>2. /\ new \in Seq(S!Slots) /\ Len(new) = Len(q) - 1 /\ Head(q) = q[1]
      /\ \A i \in 1..(Len(q) - 1) : new[i] = q[i + 1]
  BY <1>1
<1> HIDE DEF new
<1>3. \A i \in 1..(Len(q) - 1) : i + 1 \in 1..Len(q) /\ i + 1 # 1
  BY <1>1
<1>4. 1 \in 1..Len(q) /\ \A i \in 1..Len(q) : i = 1 \/ \E j \in 1..(Len(q) - 1) : i = j + 1
  <2>1. ASSUME NEW i \in 1..Len(q), i # 1 PROVE i - 1 \in 1..(Len(q) - 1) /\ i = i - 1 + 1
    BY <1>1, <2>1
  <2> QED
    BY <1>1, <2>1
<1>5. A \ {Head(q)} = {new[i] : i \in 1..Len(new)}
  <2>1. A \ {q[1]} = {q[i + 1] : i \in 1..(Len(q) - 1)}
    BY <1>1, <1>3, <1>4
  <2> QED
    BY <1>2, <2>1
<1>6. \A i, j \in 1..Len(new) : new[i] = new[j] => i = j
  <2>1. \A i, j \in 1..(Len(q) - 1) : i + 1 = j + 1 => i = j
    BY <1>1
  <2> QED
    BY <1>1, <1>2, <1>3, <2>1
<1> QED
  BY <1>1, <1>2, <1>4, <1>5, <1>6 DEF QueueHolds, new

(* The slots are split into these sets. *)
Split(A, B, C, D, E) ==
  /\ A \cup B \cup C \cup D \cup E = S!Slots
  /\ A \cap B = {} /\ A \cap C = {} /\ A \cap D = {} /\ A \cap E = {}
  /\ B \cap C = {} /\ B \cap D = {} /\ B \cap E = {}
  /\ C \cap D = {} /\ C \cap E = {} /\ D \cap E = {}

(* A slot is in one place: free, to be submitted, with the kernel, to be   *)
(* polled, or polled.                                                      *)
SlotsApart ==
  /\ RingHolds(ring, S!FreeSlots) /\ QueueHolds(ready, Elems(ready))
  /\ QueueHolds(done, Elems(done)) /\ QueueHolds(events, Elems(events))
  /\ Split(S!FreeSlots, Elems(ready), kernel, Elems(done), Elems(events))
  /\ outstanding = Cardinality(kernel) + Len(done)

(* the type of the state of the SSD's buffers *)
IoFrameTypes == [resident : BOOLEAN, latched : BOOLEAN, dirty : BOOLEAN, page : Int]

SsdTypes ==
  /\ Reads \in BOOLEAN
  /\ commands \in [S!Slots -> IoFrames \cup {S!NoFrame}]
  /\ upgrade \in [f : IoFrames \cup {S!NoFrame}, same : BOOLEAN]
  /\ ssdFrame \in [IoFrames -> IoFrameTypes]
  /\ ssdSsd \in [IoFrames -> Int] /\ ssdLast \in [IoFrames -> Int]

(* Every request has a latched frame of its own. *)
RequestsOwn ==
  /\ \A s \in S!Used : commands[s] \in IoFrames /\ ssdFrame[commands[s]].latched
  /\ \A s, r \in S!Used : s # r => commands[s] # commands[r]

(* Where the last write of page f is.  A read buffer latches a frame while *)
(* its page is not there yet, a write buffer while it is being written.    *)
PageKept(f) ==
  /\ ssdFrame[f].latched => ssdFrame[f].resident
  /\ ~ ssdFrame[f].resident => ssdSsd[f] = ssdLast[f]
  /\ ssdFrame[f].resident /\ (~ Reads \/ ~ ssdFrame[f].latched) => ssdFrame[f].page = ssdLast[f]
  /\ Reads /\ ssdFrame[f].latched => ssdSsd[f] = ssdLast[f]

(* A request that the kernel has finished leaves frame and SSD equal. *)
FinishedKept ==
  \A s \in Elems(done) \cup Elems(events) :
    ssdFrame[commands[s]].page = ssdLast[commands[s]] /\ ssdSsd[commands[s]] = ssdLast[commands[s]]

(* The page that a callback is about to evict has not been written again *)
(* unless its version has changed.                                       *)
UpgradeKept ==
  /\ Reads => upgrade.f = S!NoFrame
  /\ upgrade.same => upgrade.f \in IoFrames /\ ssdSsd[upgrade.f] = ssdLast[upgrade.f]

PagesKept == (\A f \in IoFrames : PageKept(f)) /\ FinishedKept /\ UpgradeKept

SsdInv == SlotsApart /\ SsdTypes /\ RequestsOwn /\ PagesKept

(* Apart sets together *)
LEMMA ApartUnion ==
  ASSUME NEW X, NEW Y, IsFiniteSet(X), IsFiniteSet(Y), X \cap Y = {}
  PROVE  IsFiniteSet(X \cup Y) /\ Cardinality(X \cup Y) = Cardinality(X) + Cardinality(Y)
<1>1. /\ IsFiniteSet(X \cup Y)
      /\ Cardinality(X \cup Y) = Cardinality(X) + Cardinality(Y) - Cardinality(X \cap Y)
  BY FS_Union, Zenon
<1>2. Cardinality(X \cap Y) = 0
  BY FS_EmptySet
<1>3. Cardinality(X) \in Nat /\ Cardinality(Y) \in Nat
  BY FS_CardinalityType
<1> QED
  BY <1>1, <1>2, <1>3

(* Counting the slots *)
LEMMA SlotsSum ==
  ASSUME SlotsApart
  PROVE  /\ ring.count \in Nat /\ Len(ready) \in Nat /\ Len(done) \in Nat /\ Len(events) \in Nat
         /\ IsFiniteSet(kernel) /\ Cardinality(kernel) \in Nat
         /\ ring.count + Len(ready) + Cardinality(kernel) + Len(done) + Len(events) = BatchMaxSize
         /\ S!SlotIsExclusive
<1> DEFINE A == S!FreeSlots
           B == Elems(ready)
           D == Elems(done)
           E == Elems(events)
<1>1. /\ IsFiniteSet(A) /\ Cardinality(A) = ring.count /\ ring.count \in Nat
      /\ IsFiniteSet(B) /\ Cardinality(B) = Len(ready) /\ Len(ready) \in Nat
      /\ IsFiniteSet(D) /\ Cardinality(D) = Len(done) /\ Len(done) \in Nat
      /\ IsFiniteSet(E) /\ Cardinality(E) = Len(events) /\ Len(events) \in Nat
  BY RingCounted, QueueCounted, Zenon DEF SlotsApart
<1>2. Split(A, B, kernel, D, E)
  BY DEF SlotsApart
<1> HIDE DEF A, B, D, E
<1>3. IsFiniteSet(kernel) /\ Cardinality(kernel) \in Nat
  <2>1. kernel \in SUBSET S!Slots
    BY <1>2 DEF Split
  <2> QED
    BY <2>1, SlotsCounted, FS_Subset, FS_CardinalityType
<1>4. /\ IsFiniteSet(B \cup kernel) /\ Cardinality(B \cup kernel) = Len(ready) + Cardinality(kernel)
  <2>1. B \cap kernel = {}
    BY <1>2 DEF Split
  <2> QED
    BY <1>1, <1>3, <2>1, ApartUnion
<1>5. /\ IsFiniteSet((B \cup kernel) \cup D)
      /\ Cardinality((B \cup kernel) \cup D) = Len(ready) + Cardinality(kernel) + Len(done)
  <2>1. (B \cup kernel) \cap D = {}
    BY <1>2 DEF Split
  <2>2. /\ IsFiniteSet((B \cup kernel) \cup D)
        /\ Cardinality((B \cup kernel) \cup D) = Cardinality(B \cup kernel) + Cardinality(D)
    BY <1>1, <1>4, <2>1, ApartUnion, Zenon
  <2> QED
    BY <1>1, <1>4, <2>2
<1>6. /\ IsFiniteSet((B \cup kernel \cup D) \cup E)
      /\ Cardinality((B \cup kernel \cup D) \cup E) = Len(ready) + Cardinality(kernel) + Len(done) + Len(events)
  <2>1. (B \cup kernel \cup D) \cap E = {}
    BY <1>2 DEF Split
  <2>2. /\ IsFiniteSet((B \cup kernel \cup D) \cup E)
        /\ Cardinality((B \cup kernel \cup D) \cup E) = Cardinality(B \cup kernel \cup D) + Cardinality(E)
    BY <1>1, <1>5, <2>1, ApartUnion, Zenon
  <2> QED
    BY <1>1, <1>5, <2>2
<1>7. S!Used = B \cup kernel \cup D \cup E
  BY DEF S!Used, B, D, E, Elems
<1>8. A \cap S!Used = {} /\ A \cup S!Used = S!Slots
  BY <1>2, <1>7 DEF Split
<1>9. Cardinality(A \cup S!Used) = Cardinality(A) + Cardinality(S!Used)
  <2>1. IsFiniteSet(S!Used)
    BY <1>6, <1>7
  <2> QED
    BY <1>1, <1>8, <2>1, ApartUnion, Zenon
<1>10. Cardinality(S!Used) = Len(ready) + Cardinality(kernel) + Len(done) + Len(events)
  BY <1>6, <1>7
<1>11. ring.count + Len(ready) + Cardinality(kernel) + Len(done) + Len(events) = BatchMaxSize
  <2>1. Cardinality(A \cup S!Used) = BatchMaxSize
    BY <1>8, SlotsCounted
  <2> QED
    BY <1>1, <1>3, <1>9, <1>10, <2>1
<1>12. outstanding = Cardinality(kernel) + Len(done)
  BY DEF SlotsApart
<1>13. S!SlotIsExclusive
  <2>1. \A X : S!Cardinality(X) = Cardinality(X)
    BY DEF S!Cardinality, Cardinality
  <2> QED
    BY <1>1, <1>8, <1>10, <1>12, <2>1 DEF S!SlotIsExclusive, A
<1> QED
  BY <1>1, <1>3, <1>11, <1>13

(* Requests under way are among the slots. *)
LEMMA UsedSlots ==
  ASSUME SlotsApart
  PROVE  /\ S!Used = Elems(ready) \cup kernel \cup Elems(done) \cup Elems(events)
         /\ S!Used \subseteq S!Slots /\ S!Used \cap S!FreeSlots = {}
BY DEF SlotsApart, Split, S!Used, Elems

(* What the properties say follows. *)
LEMMA SsdDelivers == SsdInv => S!NoLostWrite /\ S!SlotIsExclusive /\ S!CommandIsLatched
<1> SUFFICES ASSUME SsdInv PROVE S!NoLostWrite /\ S!SlotIsExclusive /\ S!CommandIsLatched
  OBVIOUS
<1>1. S!SlotIsExclusive
  BY SlotsSum DEF SsdInv
<1>2. S!CommandIsLatched
  BY DEF SsdInv, RequestsOwn, S!CommandIsLatched
<1>3. S!NoLostWrite
  BY DEF SsdInv, PagesKept, PageKept, SsdTypes, S!NoLostWrite
<1> QED
  BY <1>1, <1>2, <1>3

(* Sets that queues hold are their elements. *)
LEMMA HeldElems ==
  ASSUME NEW q, NEW A, QueueHolds(q, A)
  PROVE  Elems(q) = A
BY DEF QueueHolds, Elems

(* The free slots are those in the ring. *)
LEMMA NewFree ==
  ASSUME NEW A, RingHolds(ring', A)
  PROVE  S!FreeSlots' = A
BY DEF RingHolds, At, S!FreeSlots

(* How the slots are split after a step *)
LEMMA NewSplit ==
  ASSUME NEW A, NEW B, NEW D, NEW E, RingHolds(ring', A), QueueHolds(ready', B), QueueHolds(done', D),
         QueueHolds(events', E), Split(A, B, kernel', D, E), outstanding' = Cardinality(kernel') + Len(done')
  PROVE  /\ SlotsApart' /\ S!Used' = B \cup kernel' \cup D \cup E
         /\ Elems(done)' = D /\ Elems(events)' = E
<1>1. S!FreeSlots' = A /\ Elems(ready)' = B /\ Elems(done)' = D /\ Elems(events)' = E
  BY NewFree, HeldElems DEF Elems
<1>2. S!Used' = Elems(ready)' \cup kernel' \cup Elems(done)' \cup Elems(events)'
  BY DEF S!Used, Elems
<1>3. SlotsApart'
  BY <1>1 DEF SlotsApart
<1> QED
  BY <1>1, <1>2, <1>3

(* What the slots of a state are, by name *)
LEMMA OldSplit ==
  ASSUME SlotsApart
  PROVE  /\ RingHolds(ring, S!FreeSlots) /\ QueueHolds(ready, Elems(ready)) /\ QueueHolds(done, Elems(done))
         /\ QueueHolds(events, Elems(events))
         /\ Split(S!FreeSlots, Elems(ready), kernel, Elems(done), Elems(events))
         /\ S!Used = Elems(ready) \cup kernel \cup Elems(done) \cup Elems(events)
         /\ S!Used \subseteq S!Slots
         /\ outstanding = Cardinality(kernel) + Len(done)
BY UsedSlots DEF SlotsApart

(* add: as long as the buffer is not full the ring has a free slot. *)
LEMMA AddSlots ==
  ASSUME SlotsApart, Reads \in BOOLEAN, S!AtWork, ~ S!Full, NEW f, S!Add(f)
  PROVE  /\ SlotsApart' /\ S!Peek(ring) \in S!Slots \ S!Used /\ S!Used' = S!Used \cup {S!Peek(ring)}
         /\ Elems(done)' = Elems(done) /\ Elems(events)' = Elems(events)
<1> DEFINE slot == S!Peek(ring)
<1>1. /\ ring' = S!Remove(ring) /\ ready' = Append(ready, slot)
      /\ outstanding' = outstanding /\ kernel' = kernel /\ done' = done /\ events' = events
  BY DEF S!Add
<1>2. ring.count > 0
  <2>1. Len(events) = 0
    BY DEF S!AtWork
  <2>2. outstanding + Len(ready) < BatchMaxSize - 2
    <3>1. outstanding \in Nat /\ Len(ready) \in Nat
      BY SlotsSum, OldSplit
    <3>2. CASE Reads
      <4>1. ~ (outstanding + Len(ready) >= (BatchMaxSize - 2) % 2 ^ 16)
        BY <3>2 DEF S!Full, S!FullRead
      <4>2. PICK k : k = (BatchMaxSize - 2) % 2 ^ 16
        OBVIOUS
      <4> QED
        BY <3>1, <4>1, SlotAssumption
    <3>3. CASE ~ Reads
      BY <3>1, <3>3, SlotAssumption DEF S!Full, S!FullWrite
    <3> QED
      BY <3>2, <3>3
  <2> QED
    BY <2>1, <2>2, SlotsSum, OldSplit, SlotAssumption
<1>3. slot \in S!FreeSlots /\ RingHolds(ring', S!FreeSlots \ {slot})
  BY <1>1, <1>2, OldSplit, RemoveHolds
<1>4. slot \in S!Slots \ Elems(ready) /\ slot \notin S!Used
  BY <1>3, OldSplit DEF Split
<1> HIDE DEF slot
<1>5. QueueHolds(ready', Elems(ready) \cup {slot})
  BY <1>1, <1>4, OldSplit, AppendHolds
<1>6. Split(S!FreeSlots \ {slot}, Elems(ready) \cup {slot}, kernel', Elems(done), Elems(events))
  BY <1>1, <1>3, OldSplit DEF Split
<1>7. QueueHolds(done', Elems(done)) /\ QueueHolds(events', Elems(events)) /\ outstanding' = Cardinality(kernel') + Len(done')
  BY <1>1, OldSplit
<1>8. /\ SlotsApart' /\ S!Used' = (Elems(ready) \cup {slot}) \cup kernel' \cup Elems(done) \cup Elems(events)
      /\ Elems(done)' = Elems(done) /\ Elems(events)' = Elems(events)
  BY ONLY <1>3, <1>5, <1>6, <1>7, NewSplit
<1>9. S!Used' = S!Used \cup {slot}
  BY <1>1, <1>8, OldSplit
<1> QED
  BY <1>4, <1>8, <1>9 DEF slot

(* submit *)
LEMMA SubmitSlots ==
  ASSUME SlotsApart, S!Submit
  PROVE  SlotsApart' /\ S!Used' = S!Used /\ Elems(done)' = Elems(done) /\ Elems(events)' = Elems(events)
<1>1. /\ kernel' = kernel \cup Elems(ready) /\ outstanding' = outstanding + Len(ready) /\ ready' = <<>>
      /\ ring' = ring /\ done' = done /\ events' = events
  BY DEF S!Submit, Elems
<1>2. QueueHolds(ready', {})
  BY <1>1 DEF QueueHolds
<1>3. Split(S!FreeSlots, {}, kernel', Elems(done), Elems(events))
  BY <1>1, OldSplit DEF Split
<1>4. outstanding' = Cardinality(kernel') + Len(done')
  <2>1. /\ IsFiniteSet(Elems(ready)) /\ Cardinality(Elems(ready)) = Len(ready) /\ kernel \cap Elems(ready) = {}
    BY OldSplit, QueueCounted DEF Split
  <2>2. Cardinality(kernel \cup Elems(ready)) = Cardinality(kernel) + Len(ready)
    BY <2>1, SlotsSum, ApartUnion
  <2> QED
    BY <1>1, <2>2, SlotsSum, OldSplit
<1>5. RingHolds(ring', S!FreeSlots) /\ QueueHolds(done', Elems(done)) /\ QueueHolds(events', Elems(events))
  BY <1>1, OldSplit
<1>6. /\ SlotsApart' /\ S!Used' = {} \cup kernel' \cup Elems(done) \cup Elems(events)
      /\ Elems(done)' = Elems(done) /\ Elems(events)' = Elems(events)
  BY ONLY <1>2, <1>3, <1>4, <1>5, NewSplit
<1> QED
  BY <1>1, <1>6, OldSplit

(* The kernel finishes a request. *)
LEMMA CompleteSlots ==
  ASSUME SlotsApart, NEW slot \in S!Slots, S!Complete(slot)
  PROVE  /\ SlotsApart' /\ S!Used' = S!Used /\ Elems(done)' = Elems(done) \cup {slot} /\ Elems(events)' = Elems(events)
         /\ slot \in S!Used
<1>1. /\ slot \in kernel /\ kernel' = kernel \ {slot} /\ done' = Append(done, slot)
      /\ ring' = ring /\ ready' = ready /\ outstanding' = outstanding /\ events' = events
  BY DEF S!Complete
<1>2. slot \in S!Slots \ Elems(done)
  BY <1>1, OldSplit DEF Split
<1>3. QueueHolds(done', Elems(done) \cup {slot})
  BY <1>1, <1>2, OldSplit, AppendHolds
<1>4. Split(S!FreeSlots, Elems(ready), kernel', Elems(done) \cup {slot}, Elems(events))
  BY <1>1, OldSplit DEF Split
<1>5. outstanding' = Cardinality(kernel') + Len(done')
  <2>1. Cardinality(kernel') = Cardinality(kernel) - 1
    BY <1>1, SlotsSum, FS_RemoveElement
  <2>2. Len(done') = Len(done) + 1
    BY <1>1, OldSplit DEF QueueHolds
  <2> QED
    BY <1>1, <2>1, <2>2, SlotsSum, OldSplit
<1>6. RingHolds(ring', S!FreeSlots) /\ QueueHolds(ready', Elems(ready)) /\ QueueHolds(events', Elems(events))
  BY <1>1, OldSplit
<1>7. /\ SlotsApart' /\ S!Used' = Elems(ready) \cup kernel' \cup (Elems(done) \cup {slot}) \cup Elems(events)
      /\ Elems(done)' = Elems(done) \cup {slot} /\ Elems(events)' = Elems(events)
  BY ONLY <1>3, <1>4, <1>5, <1>6, NewSplit
<1> QED
  BY <1>1, <1>7, OldSplit

(* io_getevents *)
LEMMA ReapSlots ==
  ASSUME SlotsApart, S!AtWork, NEW n \in 0..Len(done), S!Reap(n)
  PROVE  SlotsApart' /\ S!Used' = S!Used /\ Elems(done)' \cup Elems(events)' = Elems(done) \cup Elems(events)
<1>1. /\ events' = SubSeq(done, 1, n) /\ done' = SubSeq(done, n + 1, Len(done)) /\ outstanding' = outstanding - n
      /\ ring' = ring /\ ready' = ready /\ kernel' = kernel
  BY DEF S!Reap
<1>2. Elems(events) = {}
  BY DEF S!AtWork, Elems
<1>3. PICK B, C : QueueHolds(events', B) /\ QueueHolds(done', C) /\ Elems(done) = B \cup C /\ B \cap C = {}
  <2>1. QueueHolds(done, Elems(done))
    BY OldSplit
  <2>2. /\ QueueHolds(events', Elems(events')) /\ QueueHolds(done', Elems(done'))
        /\ Elems(done) = Elems(events') \cup Elems(done') /\ Elems(events') \cap Elems(done') = {}
    BY <1>1, <2>1, SplitHolds, Zenon
  <2> QED
    BY <2>2, Zenon
<1>4. Split(S!FreeSlots, Elems(ready), kernel', C, B)
  BY <1>1, <1>2, <1>3, OldSplit DEF Split
<1>5. outstanding' = Cardinality(kernel') + Len(done')
  <2>1. Len(done') = Len(done) - n /\ Len(done) \in Nat
    BY <1>1, OldSplit DEF QueueHolds
  <2> QED
    BY <1>1, <2>1, SlotsSum, OldSplit
<1>6. RingHolds(ring', S!FreeSlots) /\ QueueHolds(ready', Elems(ready))
  BY <1>1, OldSplit
<1>7. /\ SlotsApart' /\ S!Used' = Elems(ready) \cup kernel' \cup C \cup B
      /\ Elems(done)' = C /\ Elems(events)' = B
  BY ONLY <1>3, <1>4, <1>5, <1>6, NewSplit
<1> QED
  BY <1>1, <1>2, <1>3, <1>7, OldSplit

(* A callback gives the slot back. *)
LEMMA CallbackSlots ==
  ASSUME SlotsApart, events # <<>>, ring' = S!Put(ring, Head(events)), events' = Tail(events),
         UNCHANGED <<ready, outstanding, kernel, done>>
  PROVE  /\ SlotsApart' /\ Head(events) \in Elems(events) /\ S!Used' = S!Used \ {Head(events)}
         /\ Elems(done)' = Elems(done) /\ Elems(events)' = Elems(events) \ {Head(events)}
<1>1. PICK s : s = Head(events)
  OBVIOUS
<1>2. s \in Elems(events) /\ QueueHolds(events', Elems(events) \ {s})
  BY <1>1, OldSplit, TailHolds
<1>3. s \in S!Slots \ S!FreeSlots
  BY <1>2, OldSplit DEF Split
<1>4. RingHolds(ring', S!FreeSlots \cup {s})
  BY <1>1, <1>3, OldSplit, PutHolds
<1>5. Split(S!FreeSlots \cup {s}, Elems(ready), kernel', Elems(done), Elems(events) \ {s})
  BY <1>2, OldSplit DEF Split
<1>6. QueueHolds(ready', Elems(ready)) /\ QueueHolds(done', Elems(done)) /\ outstanding' = Cardinality(kernel') + Len(done')
  BY OldSplit
<1>7. /\ SlotsApart' /\ S!Used' = Elems(ready) \cup kernel' \cup Elems(done) \cup (Elems(events) \ {s})
      /\ Elems(done)' = Elems(done) /\ Elems(events)' = Elems(events) \ {s}
  BY ONLY <1>2, <1>4, <1>5, <1>6, NewSplit
<1>8. S!Used' = S!Used \ {s}
  BY <1>2, <1>7, OldSplit DEF Split
<1> QED
  BY <1>1, <1>2, <1>7, <1>8

(* How the new state of frames follows from the old one *)
OnlyFrame(f, resident, latched, page) ==
  /\ ssdFrame'[f].resident = resident /\ ssdFrame'[f].latched = latched /\ ssdFrame'[f].page = page
  /\ \A g \in IoFrames : g # f => ssdFrame'[g] = ssdFrame[g]

(* A frame is latched for a new request. *)
LEMMA AddKeeps ==
  ASSUME SsdInv, S!AtWork, ~ S!Full, NEW f \in IoFrames, S!Add(f), ~ ssdFrame[f].latched,
         (ssdFrame[f].resident <=> ~ Reads), SsdTypes', UNCHANGED <<Reads, upgrade, ssdSsd, ssdLast>>,
         OnlyFrame(f, TRUE, TRUE, ssdFrame[f].page)
  PROVE  SsdInv'
<1>1. PICK slot : slot = S!Peek(ring)
  OBVIOUS
<1>2. /\ SlotsApart' /\ slot \in S!Slots \ S!Used /\ S!Used' = S!Used \cup {slot}
      /\ Elems(done)' = Elems(done) /\ Elems(events)' = Elems(events)
  BY <1>1, AddSlots DEF SsdInv, SsdTypes
<1>3. commands'[slot] = f /\ \A s \in S!Used : commands'[s] = commands[s]
  BY <1>1, <1>2, OldSplit DEF S!Add, SsdInv, SsdTypes
<1>4. \A s \in S!Used : commands[s] # f /\ commands[s] \in IoFrames
  BY DEF SsdInv, RequestsOwn
<1>5. RequestsOwn'
  BY <1>2, <1>3, <1>4 DEF RequestsOwn, SsdInv, OnlyFrame
<1>6. \A g \in IoFrames : PageKept(g)'
  BY DEF SsdInv, PagesKept, PageKept, SsdTypes, OnlyFrame
<1>7. Elems(done) \cup Elems(events) \subseteq S!Used
  BY OldSplit DEF SsdInv
<1>8. FinishedKept'
  BY <1>2, <1>3, <1>4, <1>7 DEF SsdInv, PagesKept, FinishedKept, OnlyFrame
<1>9. UpgradeKept'
  BY DEF SsdInv, PagesKept, UpgradeKept
<1> QED
  BY <1>2, <1>5, <1>6, <1>8, <1>9 DEF SsdInv, PagesKept

(* AsyncWriteBuffer::add *)
LEMMA AddWriteKeeps ==
  ASSUME SsdInv, NEW f \in IoFrames, S!AddWrite(f), UNCHANGED Reads
  PROVE  SsdInv'
<1>1. /\ ~ Reads /\ S!AtWork /\ ~ S!Full /\ ssdFrame[f].resident /\ ~ ssdFrame[f].latched
      /\ ssdFrame' = [ssdFrame EXCEPT ![f].latched = TRUE] /\ S!Add(f) /\ UNCHANGED <<upgrade, ssdSsd, ssdLast>>
  BY DEF S!AddWrite
<1>2. OnlyFrame(f, TRUE, TRUE, ssdFrame[f].page) /\ ssdFrame' \in [IoFrames -> IoFrameTypes]
  BY <1>1 DEF SsdInv, SsdTypes, IoFrameTypes, OnlyFrame
<1>3. commands' \in [S!Slots -> IoFrames \cup {S!NoFrame}]
  BY <1>1 DEF S!Add, SsdInv, SsdTypes
<1>4. SsdTypes' /\ (ssdFrame[f].resident <=> ~ Reads)
  BY <1>1, <1>2, <1>3 DEF SsdTypes, SsdInv
<1> QED
  BY <1>1, <1>2, <1>4, AddKeeps

(* AsyncReadBuffer::add *)
LEMMA AddReadKeeps ==
  ASSUME SsdInv, NEW f \in IoFrames, S!AddRead(f), UNCHANGED Reads
  PROVE  SsdInv'
<1>1. /\ Reads /\ S!AtWork /\ ~ S!Full /\ ~ ssdFrame[f].resident /\ ~ ssdFrame[f].latched
      /\ ssdFrame' = [ssdFrame EXCEPT ![f] = [ssdFrame[f] EXCEPT !.resident = TRUE, !.latched = TRUE, !.dirty = FALSE]]
      /\ S!Add(f) /\ UNCHANGED <<upgrade, ssdSsd, ssdLast>>
  BY DEF S!AddRead
<1>2. ssdFrame[f] \in IoFrameTypes
  BY DEF SsdInv, SsdTypes
<1>3. [ssdFrame[f] EXCEPT !.resident = TRUE, !.latched = TRUE, !.dirty = FALSE] \in IoFrameTypes
  BY <1>2 DEF IoFrameTypes
<1>4. OnlyFrame(f, TRUE, TRUE, ssdFrame[f].page) /\ ssdFrame' \in [IoFrames -> IoFrameTypes]
  BY <1>1, <1>2, <1>3 DEF SsdInv, SsdTypes, IoFrameTypes, OnlyFrame
<1>5. commands' \in [S!Slots -> IoFrames \cup {S!NoFrame}]
  BY <1>1 DEF S!Add, SsdInv, SsdTypes
<1>6. SsdTypes' /\ (ssdFrame[f].resident <=> ~ Reads)
  BY <1>1, <1>4, <1>5 DEF SsdTypes, SsdInv
<1> QED
  BY <1>1, <1>4, <1>6, AddKeeps

(* Steps that only move requests *)
LEMMA MoveKeeps ==
  ASSUME SsdInv, SlotsApart', S!Used' = S!Used, Elems(done)' \cup Elems(events)' = Elems(done) \cup Elems(events),
         UNCHANGED <<Reads, commands, upgrade, ssdFrame, ssdSsd, ssdLast>>
  PROVE  SsdInv'
<1>1. SsdTypes' /\ RequestsOwn'
  BY DEF SsdInv, SsdTypes, RequestsOwn
<1>2. PagesKept'
  BY DEF SsdInv, PagesKept, PageKept, FinishedKept, UpgradeKept
<1> QED
  BY <1>1, <1>2 DEF SsdInv

(* submit: io_submit takes what is ready *)
LEMMA SubmitKeeps ==
  ASSUME SsdInv, S!Submit, UNCHANGED Reads
  PROVE  SsdInv'
<1>1. SlotsApart' /\ S!Used' = S!Used /\ Elems(done)' \cup Elems(events)' = Elems(done) \cup Elems(events)
  BY SubmitSlots DEF SsdInv
<1> QED
  BY <1>1, MoveKeeps DEF S!Submit

(* pollEventsSync: io_getevents *)
LEMMA ReapKeeps ==
  ASSUME SsdInv, S!AtWork, NEW n \in 0..Len(done), S!Reap(n), UNCHANGED Reads
  PROVE  SsdInv'
<1>1. SlotsApart' /\ S!Used' = S!Used /\ Elems(done)' \cup Elems(events)' = Elems(done) \cup Elems(events)
  BY ReapSlots DEF SsdInv
<1> QED
  BY <1>1, MoveKeeps DEF S!Reap

(* The page arrives in its frame or on the SSD. *)
LEMMA CompleteKeeps ==
  ASSUME SsdInv, NEW slot \in S!Slots, S!Complete(slot), UNCHANGED Reads
  PROVE  SsdInv'
<1>1. PICK f : f = commands[slot]
  OBVIOUS
<1>2. /\ SlotsApart' /\ S!Used' = S!Used /\ Elems(done)' = Elems(done) \cup {slot} /\ Elems(events)' = Elems(events)
      /\ slot \in S!Used
  BY CompleteSlots DEF SsdInv
<1>3. f \in IoFrames /\ ssdFrame[f].latched /\ ssdFrame[f].resident
  BY <1>1, <1>2 DEF SsdInv, RequestsOwn, PagesKept, PageKept
<1>4. UNCHANGED <<commands, upgrade, ssdLast>>
  BY DEF S!Complete
<1>5. CASE Reads
  <2>1. ssdFrame' = [ssdFrame EXCEPT ![f].page = ssdSsd[f]] /\ ssdSsd' = ssdSsd
    BY <1>1, <1>5 DEF S!Complete
  <2>2. ssdSsd[f] = ssdLast[f]
    BY <1>3, <1>5 DEF SsdInv, PagesKept, PageKept
  <2>3. OnlyFrame(f, TRUE, TRUE, ssdLast[f]) /\ ssdFrame' \in [IoFrames -> IoFrameTypes]
    BY <1>3, <2>1, <2>2 DEF SsdInv, SsdTypes, IoFrameTypes, OnlyFrame
  <2>4. SsdTypes'
    BY <1>4, <2>1, <2>3 DEF SsdTypes, SsdInv
  <2>5. RequestsOwn'
    BY <1>2, <1>3, <1>4, <2>3 DEF RequestsOwn, SsdInv, OnlyFrame
  <2>6. \A g \in IoFrames : PageKept(g)'
    BY <1>4, <1>5, <2>1, <2>2, <2>3 DEF SsdInv, PagesKept, PageKept, OnlyFrame
  <2>7. Elems(done) \cup Elems(events) \subseteq S!Used
    BY OldSplit DEF SsdInv
  <2>8. FinishedKept'
    BY <1>1, <1>2, <1>3, <1>4, <2>1, <2>2, <2>3, <2>7 DEF SsdInv, PagesKept, FinishedKept, OnlyFrame, RequestsOwn
  <2>9. UpgradeKept'
    BY <1>4, <2>1 DEF SsdInv, PagesKept, UpgradeKept
  <2> QED
    BY <1>2, <2>4, <2>5, <2>6, <2>8, <2>9 DEF SsdInv, PagesKept
<1>6. CASE ~ Reads
  <2>1. ssdFrame' = ssdFrame /\ ssdSsd' = [ssdSsd EXCEPT ![f] = ssdFrame[f].page]
    BY <1>1, <1>6 DEF S!Complete
  <2>2. ssdFrame[f].page = ssdLast[f] /\ ssdFrame[f].page \in Int
    BY <1>3, <1>6 DEF SsdInv, PagesKept, PageKept, SsdTypes, IoFrameTypes
  <2>3. ssdSsd' \in [IoFrames -> Int] /\ ssdSsd'[f] = ssdLast[f] /\ \A g \in IoFrames : g # f => ssdSsd'[g] = ssdSsd[g]
    BY <1>3, <2>1, <2>2 DEF SsdInv, SsdTypes
  <2>4. SsdTypes' /\ RequestsOwn'
    BY <1>2, <1>4, <2>1, <2>3 DEF SsdTypes, SsdInv, RequestsOwn
  <2>5. \A g \in IoFrames : PageKept(g)'
    BY <1>4, <1>6, <2>1, <2>3 DEF SsdInv, PagesKept, PageKept
  <2>6. Elems(done) \cup Elems(events) \subseteq S!Used
    BY OldSplit DEF SsdInv
  <2>7. FinishedKept'
    BY <1>1, <1>2, <1>3, <1>4, <2>1, <2>2, <2>3, <2>6 DEF SsdInv, PagesKept, FinishedKept, RequestsOwn
  <2>8. UpgradeKept'
    BY <1>4, <1>6, <2>3 DEF SsdInv, PagesKept, UpgradeKept
  <2> QED
    BY <1>2, <2>4, <2>5, <2>7, <2>8 DEF SsdInv, PagesKept
<1> QED
  BY <1>5, <1>6 DEF SsdInv, SsdTypes

(* The callback of a finished request unlatches its frame. *)
LEMMA CallbackKeeps ==
  ASSUME SsdInv, events # <<>>, ring' = S!Put(ring, Head(events)), events' = Tail(events), SsdTypes',
         NEW f, f = commands[Head(events)], OnlyFrame(f, TRUE, FALSE, ssdFrame[f].page),
         commands' = [commands EXCEPT ![Head(events)] = S!NoFrame],
         UNCHANGED <<Reads, ready, outstanding, kernel, done, ssdSsd, ssdLast>>,
         upgrade' = upgrade \/ (~ Reads /\ upgrade' = [f |-> f, same |-> TRUE])
  PROVE  SsdInv'
<1>1. PICK slot : slot = Head(events)
  OBVIOUS
<1>2. /\ SlotsApart' /\ slot \in Elems(events) /\ S!Used' = S!Used \ {slot}
      /\ Elems(done)' = Elems(done) /\ Elems(events)' = Elems(events) \ {slot}
  BY <1>1, CallbackSlots DEF SsdInv
<1>3. /\ slot \in S!Used /\ Elems(done) \cup Elems(events) \subseteq S!Used /\ slot \notin Elems(done)
  BY <1>2, OldSplit DEF SsdInv, Split
<1>4. /\ f \in IoFrames /\ ssdFrame[f].resident /\ ssdFrame[f].page = ssdLast[f] /\ ssdSsd[f] = ssdLast[f]
  BY <1>1, <1>2, <1>3 DEF SsdInv, RequestsOwn, PagesKept, PageKept, FinishedKept
<1>5. \A s \in S!Used \ {slot} : commands'[s] = commands[s] /\ commands[s] # f /\ commands[s] \in IoFrames
  BY <1>1, <1>3 DEF SsdInv, RequestsOwn, SsdTypes
<1>6. RequestsOwn'
  BY <1>2, <1>5 DEF RequestsOwn, SsdInv, OnlyFrame
<1>7. \A g \in IoFrames : PageKept(g)'
  BY <1>4 DEF SsdInv, PagesKept, PageKept, OnlyFrame
<1>8. FinishedKept'
  BY <1>2, <1>3, <1>5 DEF SsdInv, PagesKept, FinishedKept, OnlyFrame
<1>9. UpgradeKept'
  BY <1>4 DEF SsdInv, PagesKept, UpgradeKept
<1> QED
  BY <1>2, <1>6, <1>7, <1>8, <1>9 DEF SsdInv, PagesKept

(* getReadBfs *)
LEMMA ReadCallbackKeeps ==
  ASSUME SsdInv, S!ReadCallback, UNCHANGED Reads
  PROVE  SsdInv'
<1>1. PICK f : f = commands[Head(events)]
  OBVIOUS
<1>2. /\ Reads /\ events # <<>> /\ ring' = S!Put(ring, Head(events)) /\ events' = Tail(events)
      /\ ssdFrame' = [ssdFrame EXCEPT ![f].latched = FALSE]
      /\ commands' = [commands EXCEPT ![Head(events)] = S!NoFrame]
      /\ UNCHANGED <<ready, outstanding, kernel, done, upgrade, ssdSsd, ssdLast>>
  BY <1>1 DEF S!ReadCallback
<1>3. Head(events) \in S!Used
  BY <1>2, OldSplit, TailHolds DEF SsdInv
<1>4. f \in IoFrames /\ ssdFrame[f].resident
  BY <1>1, <1>3 DEF SsdInv, RequestsOwn, PagesKept, PageKept
<1>5. OnlyFrame(f, TRUE, FALSE, ssdFrame[f].page) /\ ssdFrame' \in [IoFrames -> IoFrameTypes]
  BY <1>2, <1>4 DEF SsdInv, SsdTypes, IoFrameTypes, OnlyFrame
<1>6. SsdTypes'
  BY <1>2, <1>5 DEF SsdInv, SsdTypes
<1>7. /\ UNCHANGED <<Reads, ready, outstanding, kernel, done, ssdSsd, ssdLast>>
      /\ upgrade' = upgrade \/ (~ Reads /\ upgrade' = [f |-> f, same |-> TRUE])
  BY <1>2
<1> QED
  BY <1>1, <1>2, <1>5, <1>6, <1>7, CallbackKeeps, Zenon

(* getWrittenBfs *)
LEMMA WriteCallbackKeeps ==
  ASSUME SsdInv, S!WriteCallback, UNCHANGED Reads
  PROVE  SsdInv'
<1>1. PICK f : f = commands[Head(events)]
  OBVIOUS
<1>2. /\ ~ Reads /\ events # <<>> /\ ring' = S!Put(ring, Head(events)) /\ events' = Tail(events)
      /\ ssdFrame' = [ssdFrame EXCEPT ![f].dirty = FALSE, ![f].latched = FALSE]
      /\ commands' = [commands EXCEPT ![Head(events)] = S!NoFrame]
      /\ upgrade' = [f |-> f, same |-> TRUE]
      /\ UNCHANGED <<ready, outstanding, kernel, done, ssdSsd, ssdLast>>
  BY <1>1 DEF S!WriteCallback
<1>3. Head(events) \in S!Used
  BY <1>2, OldSplit, TailHolds DEF SsdInv
<1>4. f \in IoFrames /\ ssdFrame[f].resident
  BY <1>1, <1>3 DEF SsdInv, RequestsOwn, PagesKept, PageKept
<1>5. OnlyFrame(f, TRUE, FALSE, ssdFrame[f].page) /\ ssdFrame' \in [IoFrames -> IoFrameTypes]
  BY <1>2, <1>4 DEF SsdInv, SsdTypes, IoFrameTypes, OnlyFrame
<1>6. SsdTypes'
  BY <1>2, <1>4, <1>5 DEF SsdInv, SsdTypes
<1> QED
  BY <1>1, <1>2, <1>5, <1>6, CallbackKeeps

(* Steps that move no request and change only the frame f, which no        *)
(* request has *)
LEMMA FrameKeeps ==
  ASSUME SsdInv, UNCHANGED S!io, UNCHANGED Reads, SsdTypes', NEW f \in IoFrames,
         NEW r, NEW p, OnlyFrame(f, r, FALSE, p),
         \A s \in S!Used : commands[s] # f,
         \A g \in IoFrames : g # f => ssdSsd'[g] = ssdSsd[g] /\ ssdLast'[g] = ssdLast[g],
         PageKept(f)', UpgradeKept'
  PROVE  SsdInv'
<1>1. /\ ring' = ring /\ commands' = commands /\ ready' = ready /\ outstanding' = outstanding /\ kernel' = kernel
      /\ done' = done /\ events' = events
  BY DEF S!io
<1>2. SlotsApart' /\ S!Used' = S!Used /\ Elems(done)' = Elems(done) /\ Elems(events)' = Elems(events)
  BY <1>1 DEF SsdInv, SlotsApart, S!Used, Elems, S!FreeSlots
<1>3. RequestsOwn'
  BY <1>1, <1>2 DEF SsdInv, RequestsOwn, OnlyFrame
<1>4. \A g \in IoFrames : g # f => PageKept(g)'
  BY DEF SsdInv, PagesKept, PageKept, OnlyFrame
<1>5. FinishedKept'
  <2>1. Elems(done) \cup Elems(events) \subseteq S!Used
    BY OldSplit DEF SsdInv
  <2> QED
    BY <1>1, <1>2, <2>1 DEF SsdInv, PagesKept, FinishedKept, OnlyFrame, RequestsOwn
<1> QED
  BY <1>2, <1>3, <1>4, <1>5 DEF SsdInv, PagesKept

(* A frame that is not latched has no request. *)
LEMMA NoRequest ==
  ASSUME SsdInv, NEW f \in IoFrames, ~ ssdFrame[f].latched
  PROVE  \A s \in S!Used : commands[s] # f
BY DEF SsdInv, RequestsOwn

(* A worker writes to a page in memory. *)
LEMMA WriteKeeps ==
  ASSUME SsdInv, NEW f \in IoFrames, S!Write(f), UNCHANGED Reads
  PROVE  SsdInv'
<1>1. /\ ssdFrame[f].resident /\ ~ ssdFrame[f].latched /\ ssdLast' = [ssdLast EXCEPT ![f] = (ssdLast[f] + 1) % PageValues]
      /\ ssdFrame' = [ssdFrame EXCEPT ![f].page = ssdLast'[f], ![f].dirty = TRUE]
      /\ upgrade' = (IF upgrade.f = f THEN [upgrade EXCEPT !.same = FALSE] ELSE upgrade)
      /\ UNCHANGED S!io /\ ssdSsd' = ssdSsd
  BY DEF S!Write, S!Latched
<1>2. PICK v \in Int : v = (ssdLast[f] + 1) % PageValues
  BY SlotAssumption DEF SsdInv, SsdTypes
<1>3. ssdLast' \in [IoFrames -> Int] /\ ssdLast'[f] = v /\ \A g \in IoFrames : g # f => ssdLast'[g] = ssdLast[g]
  BY <1>1, <1>2 DEF SsdInv, SsdTypes
<1>4. ssdFrame' = [ssdFrame EXCEPT ![f].page = v, ![f].dirty = TRUE]
  BY <1>1, <1>3
<1>5. OnlyFrame(f, TRUE, FALSE, v) /\ ssdFrame' \in [IoFrames -> IoFrameTypes]
  <2>1. ssdFrame[f] \in IoFrameTypes
    BY DEF SsdInv, SsdTypes
  <2>2. [ssdFrame[f] EXCEPT !.page = v, !.dirty = TRUE] \in IoFrameTypes
    BY <2>1 DEF IoFrameTypes
  <2>3. ssdFrame' = [ssdFrame EXCEPT ![f] = [ssdFrame[f] EXCEPT !.page = v, !.dirty = TRUE]]
    BY <1>4 DEF SsdInv, SsdTypes
  <2>4. ssdFrame[f].resident = TRUE /\ ssdFrame[f].latched = FALSE
    BY <1>1, <2>1 DEF IoFrameTypes
  <2>5. ssdFrame'[f] = [ssdFrame[f] EXCEPT !.page = v, !.dirty = TRUE] /\ \A g \in IoFrames : g # f => ssdFrame'[g] = ssdFrame[g]
    BY <2>3 DEF SsdInv, SsdTypes
  <2>6. ssdFrame'[f].page = v /\ ssdFrame'[f].resident = TRUE /\ ssdFrame'[f].latched = FALSE
    BY <2>1, <2>4, <2>5 DEF IoFrameTypes
  <2>7. ssdFrame' \in [IoFrames -> IoFrameTypes]
    BY <2>2, <2>3 DEF SsdInv, SsdTypes
  <2> QED
    BY <2>5, <2>6, <2>7 DEF OnlyFrame
<1>6. /\ upgrade' \in [f : IoFrames \cup {S!NoFrame}, same : BOOLEAN] /\ upgrade'.f = upgrade.f
      /\ upgrade'.same => upgrade.same /\ upgrade.f # f
  BY <1>1 DEF SsdInv, SsdTypes
<1>7. commands' = commands
  BY <1>1 DEF S!io
<1>8. SsdTypes'
  BY <1>1, <1>3, <1>5, <1>6, <1>7 DEF SsdInv, SsdTypes
<1>9. PageKept(f)'
  BY <1>3, <1>5 DEF PageKept, OnlyFrame
<1>10. UpgradeKept'
  BY <1>1, <1>3, <1>6 DEF SsdInv, PagesKept, UpgradeKept
<1>11. \A g \in IoFrames : g # f => ssdSsd'[g] = ssdSsd[g] /\ ssdLast'[g] = ssdLast[g]
  BY <1>1, <1>3
<1> QED
  BY <1>1, <1>5, <1>8, <1>9, <1>10, <1>11, NoRequest, FrameKeeps

(* A page that is only on the SSD is read by its worker. *)
LEMMA LoadKeeps ==
  ASSUME SsdInv, NEW f \in IoFrames, S!Load(f), UNCHANGED Reads
  PROVE  SsdInv'
<1>1. /\ ~ Reads /\ ~ ssdFrame[f].resident
      /\ ssdFrame' = [ssdFrame EXCEPT ![f] = [ssdFrame[f] EXCEPT !.resident = TRUE, !.page = ssdSsd[f], !.dirty = FALSE]]
      /\ upgrade' = (IF upgrade.f = f THEN [upgrade EXCEPT !.same = FALSE] ELSE upgrade)
      /\ UNCHANGED S!io /\ ssdSsd' = ssdSsd /\ ssdLast' = ssdLast
  BY DEF S!Load, S!Latched
<1>2. ~ ssdFrame[f].latched /\ ssdSsd[f] = ssdLast[f] /\ ssdSsd[f] \in Int /\ ssdFrame[f] \in IoFrameTypes
  BY <1>1 DEF SsdInv, SsdTypes, PagesKept, PageKept
<1>3. [ssdFrame[f] EXCEPT !.resident = TRUE, !.page = ssdSsd[f], !.dirty = FALSE] \in IoFrameTypes
  BY <1>2 DEF IoFrameTypes
<1>4. OnlyFrame(f, TRUE, FALSE, ssdLast[f]) /\ ssdFrame' \in [IoFrames -> IoFrameTypes]
  BY <1>1, <1>2, <1>3 DEF SsdInv, SsdTypes, IoFrameTypes, OnlyFrame
<1>5. /\ upgrade' \in [f : IoFrames \cup {S!NoFrame}, same : BOOLEAN] /\ upgrade'.f = upgrade.f
      /\ upgrade'.same => upgrade.same
  BY <1>1 DEF SsdInv, SsdTypes
<1>6. commands' = commands
  BY <1>1 DEF S!io
<1>7. SsdTypes'
  BY <1>1, <1>4, <1>5, <1>6 DEF SsdInv, SsdTypes
<1>8. PageKept(f)'
  BY <1>1, <1>4 DEF PageKept, OnlyFrame
<1>9. UpgradeKept'
  BY <1>1, <1>5 DEF SsdInv, PagesKept, UpgradeKept
<1>10. \A g \in IoFrames : g # f => ssdSsd'[g] = ssdSsd[g] /\ ssdLast'[g] = ssdLast[g]
  BY <1>1
<1> QED
  BY <1>1, <1>2, <1>4, <1>7, <1>8, <1>9, <1>10, NoRequest, FrameKeeps

(* The page provider removes a clean page. *)
LEMMA EvictKeeps ==
  ASSUME SsdInv, NEW f \in IoFrames, S!Evict(f), UNCHANGED Reads
  PROVE  SsdInv'
<1>1. /\ Reads /\ ssdFrame[f].resident /\ ~ ssdFrame[f].latched
      /\ ssdSsd' = [ssdSsd EXCEPT ![f] = ssdFrame[f].page]
      /\ ssdFrame' = [ssdFrame EXCEPT ![f].resident = FALSE]
      /\ UNCHANGED S!io /\ upgrade' = upgrade /\ ssdLast' = ssdLast
  BY DEF S!Evict
<1>2. ssdFrame[f].page = ssdLast[f] /\ ssdFrame[f].page \in Int
  BY <1>1 DEF SsdInv, SsdTypes, PagesKept, PageKept, IoFrameTypes
<1>3. ssdSsd' \in [IoFrames -> Int] /\ ssdSsd'[f] = ssdLast[f] /\ \A g \in IoFrames : g # f => ssdSsd'[g] = ssdSsd[g]
  BY <1>1, <1>2 DEF SsdInv, SsdTypes
<1>4. OnlyFrame(f, FALSE, FALSE, ssdFrame[f].page) /\ ssdFrame' \in [IoFrames -> IoFrameTypes]
  BY <1>1 DEF SsdInv, SsdTypes, IoFrameTypes, OnlyFrame
<1>5. commands' = commands
  BY <1>1 DEF S!io
<1>6. SsdTypes'
  BY <1>1, <1>3, <1>4, <1>5 DEF SsdInv, SsdTypes
<1>7. PageKept(f)'
  BY <1>1, <1>3, <1>4 DEF PageKept, OnlyFrame
<1>8. UpgradeKept'
  BY <1>1, <1>3 DEF SsdInv, PagesKept, UpgradeKept
<1>9. \A g \in IoFrames : g # f => ssdSsd'[g] = ssdSsd[g] /\ ssdLast'[g] = ssdLast[g]
  BY <1>1, <1>3
<1> QED
  BY <1>1, <1>4, <1>6, <1>7, <1>8, <1>9, NoRequest, FrameKeeps

(* The page is evicted only if nobody has written it since it was unlatched. *)
LEMMA UpgradeKeeps ==
  ASSUME SsdInv, S!Upgrade, UNCHANGED Reads
  PROVE  SsdInv'
<1>1. PICK f : f = upgrade.f
  OBVIOUS
<1>2. f \in IoFrames /\ upgrade' = S!NoUpgrade /\ UNCHANGED S!io /\ ssdSsd' = ssdSsd /\ ssdLast' = ssdLast
  BY <1>1 DEF S!Upgrade, SsdInv, SsdTypes
<1>3. upgrade' \in [f : IoFrames \cup {S!NoFrame}, same : BOOLEAN] /\ upgrade'.f = S!NoFrame /\ ~ upgrade'.same
  BY <1>2 DEF S!NoUpgrade
<1>4. commands' = commands
  BY <1>2 DEF S!io
<1>5. UpgradeKept'
  BY <1>3 DEF UpgradeKept
<1>6. CASE /\ upgrade.same /\ ~ ssdFrame[f].latched /\ ssdFrame' = [ssdFrame EXCEPT ![f].resident = FALSE]
  <2>1. ssdSsd[f] = ssdLast[f]
    BY <1>1, <1>6 DEF SsdInv, PagesKept, UpgradeKept
  <2>2. OnlyFrame(f, FALSE, FALSE, ssdFrame[f].page) /\ ssdFrame' \in [IoFrames -> IoFrameTypes]
    BY <1>2, <1>6 DEF SsdInv, SsdTypes, IoFrameTypes, OnlyFrame
  <2>3. SsdTypes'
    BY <1>2, <1>3, <1>4, <2>2 DEF SsdInv, SsdTypes
  <2>4. PageKept(f)'
    BY <1>2, <2>1, <2>2 DEF PageKept, OnlyFrame
  <2>5. \A g \in IoFrames : g # f => ssdSsd'[g] = ssdSsd[g] /\ ssdLast'[g] = ssdLast[g]
    BY <1>2
  <2> QED
    BY <1>2, <1>5, <1>6, <2>2, <2>3, <2>4, <2>5, NoRequest, FrameKeeps
<1>7. CASE UNCHANGED ssdFrame
  <2>1. /\ ring' = ring /\ ready' = ready /\ outstanding' = outstanding /\ kernel' = kernel
        /\ done' = done /\ events' = events
    BY <1>2 DEF S!io
  <2>2. SlotsApart' /\ S!Used' = S!Used /\ Elems(done)' = Elems(done) /\ Elems(events)' = Elems(events)
    BY <2>1 DEF SsdInv, SlotsApart, S!Used, Elems, S!FreeSlots
  <2>3. SsdTypes'
    BY <1>2, <1>3, <1>4, <1>7 DEF SsdInv, SsdTypes
  <2>4. RequestsOwn'
    BY <1>4, <1>7, <2>2 DEF SsdInv, RequestsOwn
  <2>5. PagesKept'
    BY <1>2, <1>4, <1>5, <1>7, <2>2 DEF SsdInv, PagesKept, PageKept, FinishedKept
  <2> QED
    BY <2>2, <2>3, <2>4, <2>5 DEF SsdInv
<1> QED
  BY <1>1, <1>6, <1>7 DEF S!Upgrade

(* At first all slots are free. *)
LEMMA SsdInit == S!Init => SsdInv
<1> SUFFICES ASSUME S!Init PROVE SsdInv
  OBVIOUS
<1>1. /\ Reads \in BOOLEAN /\ ring = S!Filled /\ commands = [s \in S!Slots |-> S!NoFrame]
      /\ ready = <<>> /\ outstanding = 0 /\ kernel = {} /\ done = <<>> /\ events = <<>> /\ upgrade = S!NoUpgrade
      /\ ssdFrame = [f \in IoFrames |-> [resident |-> ~ Reads, latched |-> FALSE, dirty |-> FALSE, page |-> 0]]
      /\ ssdSsd = [f \in IoFrames |-> 0] /\ ssdLast = [f \in IoFrames |-> 0]
  BY DEF S!Init
<1>2. /\ ring.data = [i \in 0..(S!Size - 1) |-> IF i < BatchMaxSize THEN i ELSE 0] /\ ring.front = 0
      /\ ring.count = BatchMaxSize /\ ring = [data |-> ring.data, front |-> ring.front, count |-> ring.count]
  BY <1>1 DEF S!Filled, S!Empty
<1>3. \A i \in S!Slots : At(ring, i) = i
  <2> SUFFICES ASSUME NEW i \in S!Slots PROVE At(ring, i) = i
    OBVIOUS
  <2>1. PICK x \in Nat : x = 0 + i /\ x = i /\ x < BatchMaxSize /\ x < S!Size /\ x < 2 * S!Size
    BY SlotAssumption DEF S!Slots
  <2>2. x % S!Size = x
    BY <2>1, SlotAssumption, Wraps
  <2>3. ring.front + i = x
    BY <1>2, <2>1
  <2>4. At(ring, i) = ring.data[x]
    BY <2>2, <2>3 DEF At
  <2>5. x \in 0..(S!Size - 1)
    BY <2>1, SlotAssumption
  <2> QED
    BY <1>2, <2>1, <2>4, <2>5
<1>4. RingHolds(ring, S!Slots)
  <2>1. ring.data \in [0..(S!Size - 1) -> S!Slots] /\ ring.front \in 0..(S!Size - 1) /\ ring.count \in 0..S!Size
    BY <1>2, SlotAssumption DEF S!Slots
  <2>2. ring \in Ring
    BY <1>2, <2>1 DEF Ring
  <2>3. S!Slots = 0..(ring.count - 1)
    BY <1>2 DEF S!Slots
  <2> QED
    BY <1>3, <2>2, <2>3 DEF RingHolds
<1>5. S!FreeSlots = S!Slots
  BY <1>4 DEF RingHolds, At, S!FreeSlots
<1>6. QueueHolds(<<>>, Elems(<<>>)) /\ Elems(<<>>) = {}
  BY DEF QueueHolds, Elems
<1>7. SlotsApart
  BY <1>1, <1>4, <1>5, <1>6, FS_EmptySet DEF SlotsApart, Split
<1>8. SsdTypes
  BY <1>1 DEF SsdTypes, IoFrameTypes, S!NoUpgrade
<1>9. S!Used = {}
  BY <1>1, <1>6, <1>7, OldSplit
<1>10. RequestsOwn
  BY <1>9 DEF RequestsOwn
<1>11. PagesKept
  BY <1>1, <1>6 DEF PagesKept, PageKept, FinishedKept, UpgradeKept, S!NoUpgrade
<1> QED
  BY <1>7, <1>8, <1>10, <1>11 DEF SsdInv

(* Every step of the buffers and of those who use the frames keeps the     *)
(* invariant.                                                              *)
LEMMA SsdStep == SsdInv /\ [S!Next]_ssdVars => SsdInv'
<1> SUFFICES ASSUME SsdInv, [S!Next]_ssdVars PROVE SsdInv'
  OBVIOUS
<1>1. CASE UNCHANGED ssdVars
  BY <1>1, MoveKeeps DEF ssdVars, SsdInv, SlotsApart, S!Used, Elems, S!FreeSlots
<1>2. CASE S!Next
  <2>1. UNCHANGED Reads
    BY <1>2 DEF S!Next
  <2>2. CASE S!Thread
    <3>1. CASE S!PollWrite \/ S!PollRead
      <4>1. PICK n \in 0..Len(done) : S!AtWork /\ S!Reap(n)
        <5>1. Len(done) \in Nat
          BY SlotsSum DEF SsdInv
        <5> QED
          BY <3>1, <5>1 DEF S!PollWrite, S!PollRead
      <4> QED
        BY <2>1, <4>1, ReapKeeps
    <3> QED
      BY <2>1, <2>2, <3>1, SubmitKeeps, ReadCallbackKeeps, WriteCallbackKeeps, UpgradeKeeps DEF S!Thread
  <2>3. CASE \E f \in IoFrames : S!AddWrite(f) \/ S!AddRead(f) \/ S!Write(f) \/ S!Load(f) \/ S!Evict(f)
    BY <2>1, <2>3, AddWriteKeeps, AddReadKeeps, WriteKeeps, LoadKeeps, EvictKeeps
  <2>4. CASE \E s \in S!Slots : S!Complete(s)
    BY <2>1, <2>4, CompleteKeeps
  <2> QED
    BY <1>2, <2>2, <2>3, <2>4 DEF S!Next
<1> QED
  BY <1>1, <1>2

-----------------------------------------------------------------------------
(* The buffer pool *)

(* A number is its quotient and its remainder, *)
LEMMA Quotient ==
  ASSUME NEW c \in Nat \ {0}, NEW i \in Nat
  PROVE  \E d \in Nat, m \in 0..(c - 1) : d = i \div c /\ i = c * d + m
<1>1. PICK m \in 0..(c - 1) : m = i % c
  BY Division
<1>2. PICK d \in Nat : d = i \div c
  BY Division
<1>3. i = c * d + m
  BY <1>1, <1>2, SMT
<1> QED
  BY <1>2, <1>3

(* and products grow with their factors. *)
LEMMA Products ==
  ASSUME NEW b \in Nat, NEW x \in Nat, NEW y \in Nat, x <= y
  PROVE  x * b \in Nat /\ y * b \in Nat /\ x * b <= y * b /\ (x + 1) * b = x * b + b
<1>1. PICK z \in Nat : y = x + z
  BY SMT
<1>2. z * b \in Nat /\ y * b = x * b + z * b /\ x * b \in Nat
  BY <1>1, SMT
<1> QED
  BY <1>2, SMT

(* the block of parallelRange that thread t has *)
Start(t, n) == t * P!Block(n)
InBlock(t, i, n) == Start(t, n) <= i /\ i < P!BlockEnd(t, n)

(* A block of parallelRange starts and ends within the range, *)
LEMMA BlockBounds ==
  ASSUME NEW n \in Nat, NEW t \in P!Thread
  PROVE  /\ Start(t, n) \in Nat /\ P!BlockEnd(t, n) \in Nat
         /\ Start(t, n) <= P!BlockEnd(t, n) /\ P!BlockEnd(t, n) <= n
<1>1. PICK d \in Nat, m \in 0..(PoolThreads - 1) : d = P!Block(n) /\ n = PoolThreads * d + m
  BY Quotient, PoolAssumption DEF P!Block
<1>2. t \in Nat /\ t + 1 \in Nat /\ t + 1 <= PoolThreads /\ PoolThreads \in Nat /\ t <= t + 1
  BY PoolAssumption DEF P!Thread
<1>3. t * d \in Nat /\ (t + 1) * d \in Nat /\ t * d <= (t + 1) * d
  BY <1>1, <1>2, Products
<1>4. (t + 1) * d <= PoolThreads * d /\ PoolThreads * d \in Nat
  BY <1>1, <1>2, Products
<1>5. PoolThreads * d <= n
  BY <1>1, <1>4
<1>6. P!BlockEnd(t, n) = IF t = PoolThreads - 1 THEN n ELSE (t + 1) * d
  BY <1>1 DEF P!BlockEnd
<1>7. PICK a \in Nat, e \in Nat, z \in Nat : a = t * d /\ e = (t + 1) * d /\ z = PoolThreads * d
  BY <1>3, <1>4
<1>8. a <= e /\ e <= z /\ z <= n
  BY <1>3, <1>4, <1>5, <1>7
<1>9. P!BlockEnd(t, n) = (IF t = PoolThreads - 1 THEN n ELSE e) /\ Start(t, n) = a
  BY <1>1, <1>6, <1>7 DEF Start
<1> QED
  BY <1>8, <1>9

(* shares nothing with another, *)
LEMMA BlocksApart ==
  ASSUME NEW n \in Nat, NEW t \in P!Thread, NEW u \in P!Thread, NEW i \in Nat, InBlock(t, i, n), InBlock(u, i, n)
  PROVE  t = u
<1>1. ASSUME NEW x \in P!Thread, NEW y \in P!Thread, x < y, InBlock(x, i, n), InBlock(y, i, n)
      PROVE  FALSE
  <2>1. PICK d \in Nat : d = P!Block(n)
    BY Division, PoolAssumption DEF P!Block
  <2>2. x \in Nat /\ x + 1 \in Nat /\ x + 1 <= y /\ y \in Nat /\ x # PoolThreads - 1
    BY <1>1, PoolAssumption DEF P!Thread
  <2>3. (x + 1) * d <= y * d /\ (x + 1) * d \in Nat /\ y * d \in Nat
    BY <2>1, <2>2, Products
  <2>4. i < (x + 1) * d /\ y * d <= i
    BY <1>1, <2>1, <2>2 DEF InBlock, Start, P!BlockEnd
  <2>5. PICK a \in Nat, e \in Nat : a = (x + 1) * d /\ e = y * d
    BY <2>3
  <2> QED
    BY <2>3, <2>4, <2>5
<1>2. t \in Int /\ u \in Int
  BY DEF P!Thread
<1> QED
  BY <1>1, <1>2

(* and together they are the range. *)
LEMMA BlocksCover ==
  ASSUME NEW n \in Nat, NEW i \in 0..(n - 1)
  PROVE  \E t \in P!Thread : InBlock(t, i, n)
<1> DEFINE end == PoolThreads - 1
<1>1. PICK b \in Nat : b = P!Block(n)
  BY Division, PoolAssumption DEF P!Block
<1>2. end \in P!Thread /\ P!BlockEnd(end, n) = n /\ end \in Nat /\ i \in Nat
  BY PoolAssumption DEF P!Thread, P!BlockEnd
<1>3. CASE end * b <= i
  BY <1>1, <1>2, <1>3 DEF InBlock, Start
<1>4. CASE ~ (end * b <= i)
  <2>1. b # 0
    BY <1>2, <1>4
  <2>2. PICK d \in Nat, m \in 0..(b - 1) : i = b * d + m
    BY <1>1, <1>2, <2>1, Quotient
  <2>3. d * b \in Nat /\ (d + 1) * b = d * b + b /\ b * d = d * b
    BY <1>1, <2>2, Products
  <2>4. d * b <= i /\ i < (d + 1) * b
    <3>1. PICK a \in Nat : a = d * b
      BY <2>3
    <3> QED
      BY <2>2, <2>3, <3>1
  <2>5. d < end
    <3> SUFFICES ASSUME end <= d PROVE FALSE
      BY <1>2, <2>2
    <3>1. end * b <= d * b /\ end * b \in Nat
      BY <1>1, <1>2, <2>2, Products
    <3>2. PICK a \in Nat, e \in Nat : a = d * b /\ e = end * b
      BY <2>3, <3>1
    <3> QED
      BY <1>2, <1>4, <2>4, <3>1, <3>2
  <2>6. d \in P!Thread /\ d # PoolThreads - 1
    BY <2>5, PoolAssumption DEF P!Thread
  <2>7. InBlock(d, i, n)
    BY <1>1, <2>4, <2>6 DEF InBlock, Start, P!BlockEnd
  <2> QED
    BY <2>6, <2>7
<1> QED
  BY <1>3, <1>4

-----------------------------------------------------------------------------
(* the type of the buffer pool's state *)
PoolFrameTypes ==
  [state : {"FREE", "HOT"}, own : BOOLEAN, pid : P!Pid, page : 0..Pages, dirty : BOOLEAN,
   latch : {"no", "shared", "exclusive"}, version : Nat]

PoolTypes ==
  /\ phase \in {"pages", "catalog", "serve", "flush", "done"}
  /\ cursor \in [P!Thread -> Nat]
  /\ pageList \in [P!Page -> {0, 1}] /\ pidList \in [P!Pid -> {0, 1}]
  /\ poolFrame \in [P!Frame -> PoolFrameTypes]
  /\ poolSsd \in [P!Pid -> [version : Nat, own : BOOLEAN]]
  /\ retry \in [P!Thread -> Seq(P!Frame)]
  /\ poolPc \in [P!Thread -> P!Frame \cup {0}]
  /\ version \in Nat /\ poolLast \in [P!Pid -> Nat] /\ stillLatched \in BOOLEAN

(* the frame has a page, and one of this node *)
Hot(f) == poolFrame[f].state = "HOT"
OwnHot(f) == Hot(f) /\ poolFrame[f].own

(* The threads of the constructor push the pages of their blocks. *)
PagesPushed ==
  phase = "pages" =>
    /\ \A t \in P!Thread : Start(t, Pages) <= cursor[t] /\ cursor[t] <= P!BlockEnd(t, Pages)
    /\ \A t \in P!Thread, i \in Nat : InBlock(t, i, Pages) => pageList[i + 1] = IF i < cursor[t] THEN 1 ELSE 0

(* A page is free or in one frame. *)
PagesOnce ==
  /\ \A f \in P!Frame : Hot(f) => poolFrame[f].page \in P!Page /\ pageList[poolFrame[f].page] = 0
  /\ \A f, g \in P!Frame : Hot(f) /\ Hot(g) /\ poolFrame[f].page = poolFrame[g].page => f = g
  /\ phase # "pages" => \A p \in P!Page : pageList[p] = 0 => \E f \in P!Frame : Hot(f) /\ poolFrame[f].page = p

(* A pid of this node is free or that of a page, which is in at most one frame. *)
PidsOnce ==
  /\ pidList[0] = 0
  /\ \A f \in P!Frame : OwnHot(f) => pidList[poolFrame[f].pid] = 0
  /\ \A f, g \in P!Frame : OwnHot(f) /\ OwnHot(g) /\ poolFrame[f].pid = poolFrame[g].pid => f = g

(* The last version is in the frame, and on the SSD if the frame is clean or gone. *)
LastKept ==
  /\ \A f \in P!Frame : OwnHot(f) => /\ poolFrame[f].version = poolLast[poolFrame[f].pid]
                                     /\ ~ poolFrame[f].dirty => poolSsd[poolFrame[f].pid].version = poolFrame[f].version
  /\ \A pid \in P!Pid : pidList[pid] = 0 =>
       poolSsd[pid].version = poolLast[pid] \/ \E f \in P!Frame : OwnHot(f) /\ poolFrame[f].pid = pid
  /\ \A pid \in P!Pid : poolSsd[pid].own
  /\ phase \in {"pages", "catalog"} => \A pid \in P!Pid : poolSsd[pid].version = 0 /\ poolLast[pid] = 0

(* The latches of the page provider and of writeAllPages *)
LatchesKept ==
  /\ \A f \in P!Frame : ~ Hot(f) => ~ poolFrame[f].dirty /\ poolFrame[f].own
  /\ \A f \in P!Frame : poolFrame[f].latch = "shared" => OwnHot(f)
  /\ phase \in {"pages", "catalog"} => \A f \in P!Frame : ~ Hot(f)
  /\ phase \notin {"flush", "done"} => \A t \in P!Thread : poolPc[t] = 0 /\ retry[t] = <<>>
  /\ \A t \in P!Thread : poolPc[t] # 0 => poolFrame[poolPc[t]].latch = "exclusive" /\ poolFrame[poolPc[t]].own
  /\ \A t, u \in P!Thread : poolPc[t] # 0 /\ poolPc[t] = poolPc[u] => t = u
  /\ \A t \in P!Thread : \A i \in 1..Len(retry[t]) : poolFrame[retry[t][i]].own

(* What writeAllPages has not come to yet *)
Ahead(f) == \E t \in P!Thread : cursor[t] <= f - 1 /\ f - 1 < P!BlockEnd(t, PoolFrames)
ToRetry(f) == \E t \in P!Thread : \E i \in 1..Len(retry[t]) : retry[t][i] = f
AtWriteBack(f) == \E t \in P!Thread : poolPc[t] = f

(* A dirty page is still to come, and none is left when writeAllPages returns. *)
FlushKept ==
  /\ phase = "flush" => \A f \in P!Frame : OwnHot(f) /\ poolFrame[f].dirty => Ahead(f) \/ ToRetry(f) \/ AtWriteBack(f)
  /\ phase = "done" /\ ~ stillLatched => \A f \in P!Frame : OwnHot(f) => ~ poolFrame[f].dirty

PoolInv == PoolTypes /\ PagesPushed /\ PagesOnce /\ PidsOnce /\ LastKept /\ LatchesKept /\ FlushKept

(* Nothing is in the lists when the constructor starts. *)
LEMMA PoolInit == P!Init => PoolInv
<1> SUFFICES ASSUME P!Init PROVE PoolInv
  OBVIOUS
<1>1. /\ phase = "pages" /\ cursor = [t \in P!Thread |-> t * P!Block(Pages)]
      /\ pageList = [p \in P!Page |-> 0] /\ pidList = [p \in P!Pid |-> 0]
      /\ poolFrame = [f \in P!Frame |-> P!NoFrame] /\ poolSsd = [p \in P!Pid |-> [version |-> 0, own |-> TRUE]]
      /\ retry = [t \in P!Thread |-> <<>>] /\ poolPc = [t \in P!Thread |-> 0]
      /\ version = 0 /\ poolLast = [p \in P!Pid |-> 0] /\ stillLatched = FALSE
  BY DEF P!Init
<1>2. \A f \in P!Frame : /\ poolFrame[f] = P!NoFrame /\ poolFrame[f].state = "FREE" /\ poolFrame[f].own /\ ~ poolFrame[f].dirty
                         /\ poolFrame[f].latch = "no"
  BY <1>1 DEF P!NoFrame
<1>3. P!NoFrame \in PoolFrameTypes
  BY PoolAssumption DEF P!NoFrame, PoolFrameTypes, P!Pid
<1>4. \A t \in P!Thread : cursor[t] = Start(t, Pages) /\ cursor[t] \in Nat /\ cursor[t] <= P!BlockEnd(t, Pages)
  BY <1>1, BlockBounds, PoolAssumption DEF Start
<1>5. PoolTypes
  <2>1. cursor \in [P!Thread -> Nat]
    BY <1>1, <1>4
  <2>2. retry \in [P!Thread -> Seq(P!Frame)] /\ poolPc \in [P!Thread -> P!Frame \cup {0}]
    BY <1>1
  <2>3. pageList \in [P!Page -> {0, 1}] /\ pidList \in [P!Pid -> {0, 1}] /\ poolLast \in [P!Pid -> Nat]
    BY <1>1
  <2>4. poolSsd \in [P!Pid -> [version : Nat, own : BOOLEAN]] /\ poolFrame \in [P!Frame -> PoolFrameTypes]
    BY <1>1, <1>3
  <2> QED
    BY <1>1, <2>1, <2>2, <2>3, <2>4 DEF PoolTypes
<1>6. PagesPushed
  <2>1. ASSUME NEW t \in P!Thread PROVE Start(t, Pages) <= cursor[t] /\ cursor[t] <= P!BlockEnd(t, Pages)
    <3>1. cursor[t] = Start(t, Pages) /\ cursor[t] \in Nat /\ cursor[t] <= P!BlockEnd(t, Pages)
      BY <1>4
    <3> QED
      BY <3>1
  <2>2. ASSUME NEW t \in P!Thread, NEW i \in Nat, InBlock(t, i, Pages)
        PROVE  pageList[i + 1] = IF i < cursor[t] THEN 1 ELSE 0
    <3>1. P!BlockEnd(t, Pages) <= Pages /\ P!BlockEnd(t, Pages) \in Nat
      BY BlockBounds, PoolAssumption
    <3>2. ~ (i < cursor[t]) /\ i + 1 \in P!Page
      BY <1>4, <2>2, <3>1, PoolAssumption DEF InBlock, P!Page
    <3> QED
      BY <1>1, <3>2
  <2> QED
    BY <2>1, <2>2 DEF PagesPushed
<1>7. PagesOnce /\ PidsOnce /\ LatchesKept /\ FlushKept /\ LastKept
  <2>1. 0 \in P!Pid
    BY PoolAssumption DEF P!Pid
  <2> QED
    BY <1>1, <1>2, <2>1 DEF PagesOnce, PidsOnce, LastKept, LatchesKept, FlushKept, Hot, OwnHot
<1> QED
  BY <1>5, <1>6, <1>7 DEF PoolInv

(* What the properties say follows. *)
LEMMA PoolDelivers == PoolInv => P!NoUpdateIsLost /\ P!PoolIsConserved /\ P!FlushWritesAll /\ P!SlotsAreOwn
<1> SUFFICES ASSUME PoolInv PROVE P!NoUpdateIsLost /\ P!PoolIsConserved /\ P!FlushWritesAll /\ P!SlotsAreOwn
  OBVIOUS
<1>1. P!NoUpdateIsLost
  BY DEF PoolInv, LastKept, OwnHot, Hot, P!NoUpdateIsLost
<1>2. P!SlotsAreOwn
  BY DEF PoolInv, LastKept, P!SlotsAreOwn
<1>3. P!FlushWritesAll
  BY DEF PoolInv, LastKept, FlushKept, OwnHot, Hot, P!FlushWritesAll
<1>4. ASSUME phase \notin {"pages", "pids"}, NEW p \in P!Page
      PROVE  pageList[p] + P!Cardinality({f \in P!Frame : poolFrame[f].state = "HOT" /\ poolFrame[f].page = p}) = 1
  <2> DEFINE A == {f \in P!Frame : poolFrame[f].state = "HOT" /\ poolFrame[f].page = p}
  <2>1. \A X : P!Cardinality(X) = Cardinality(X)
    BY DEF P!Cardinality, Cardinality
  <2>2. CASE pageList[p] = 0
    <3>1. PICK f \in P!Frame : Hot(f) /\ poolFrame[f].page = p
      BY <1>4, <2>2 DEF PoolInv, PagesOnce
    <3>2. A = {f}
      BY <3>1 DEF PoolInv, PagesOnce, Hot
    <3>3. Cardinality(A) = 1
      BY <3>2, FS_Singleton
    <3> HIDE DEF A
    <3>4. P!Cardinality(A) = 1
      BY <2>1, <3>3
    <3> QED
      BY <2>2, <3>4 DEF A
  <2>3. CASE pageList[p] = 1
    <3>1. A = {}
      BY <2>3 DEF PoolInv, PagesOnce, Hot
    <3>2. Cardinality(A) = 0
      BY <3>1, FS_EmptySet
    <3> HIDE DEF A
    <3>3. P!Cardinality(A) = 0
      BY <2>1, <3>2
    <3> QED
      BY <2>3, <3>3 DEF A
  <2> QED
    BY <2>2, <2>3 DEF PoolInv, PoolTypes
<1>5. P!PoolIsConserved
  BY <1>4 DEF PoolInv, PidsOnce, OwnHot, Hot, P!PoolIsConserved
<1> QED
  BY <1>1, <1>2, <1>3, <1>5

-----------------------------------------------------------------------------
(* The constructor *)

(* A thread of the constructor pushes the next page of its block. *)
LEMMA PushPageKeeps ==
  ASSUME PoolInv, NEW t \in P!Thread, P!PushPage(t)
  PROVE  PoolInv'
<1>1. PICK c : c = cursor[t]
  OBVIOUS
<1>2. /\ phase = "pages" /\ c < P!BlockEnd(t, Pages) /\ pageList' = [pageList EXCEPT ![c + 1] = @ + 1]
      /\ cursor' = [cursor EXCEPT ![t] = c + 1]
      /\ UNCHANGED <<phase, pidList, poolFrame, poolSsd, retry, poolPc, version, poolLast, stillLatched>>
  BY <1>1 DEF P!PushPage
<1>3. P!BlockEnd(t, Pages) \in Nat /\ P!BlockEnd(t, Pages) <= Pages
  BY BlockBounds, PoolAssumption
<1>4. c \in Nat /\ c + 1 \in P!Page /\ Start(t, Pages) <= c
  BY <1>1, <1>2, <1>3, PoolAssumption DEF PoolInv, PoolTypes, PagesPushed, P!Page
<1>5. InBlock(t, c, Pages)
  BY <1>2, <1>4 DEF InBlock
<1>6. pageList[c + 1] = 0
  BY <1>1, <1>2, <1>4, <1>5 DEF PoolInv, PagesPushed
<1>7. /\ cursor'[t] = c + 1 /\ \A u \in P!Thread : u # t => cursor'[u] = cursor[u]
      /\ cursor' \in [P!Thread -> Nat]
  BY <1>2, <1>4 DEF PoolInv, PoolTypes
<1>8. /\ pageList'[c + 1] = 1 /\ \A p \in P!Page : p # c + 1 => pageList'[p] = pageList[p]
      /\ pageList' \in [P!Page -> {0, 1}]
  BY <1>2, <1>4, <1>6 DEF PoolInv, PoolTypes
<1>9. PoolTypes'
  BY <1>2, <1>7, <1>8 DEF PoolInv, PoolTypes
<1>10. PagesPushed'
  <2>1. ASSUME NEW u \in P!Thread PROVE Start(u, Pages) <= cursor'[u] /\ cursor'[u] <= P!BlockEnd(u, Pages)
    <3>1. Start(u, Pages) \in Nat /\ P!BlockEnd(u, Pages) \in Nat
      BY BlockBounds, PoolAssumption
    <3>2. Start(u, Pages) <= cursor[u] /\ cursor[u] <= P!BlockEnd(u, Pages) /\ cursor[u] \in Nat
      BY <1>2 DEF PoolInv, PagesPushed, PoolTypes
    <3>3. CASE u = t
      BY <1>2, <1>3, <1>4, <1>7, <3>1, <3>3
    <3> QED
      BY <1>7, <3>2, <3>3
  <2>2. ASSUME NEW u \in P!Thread, NEW i \in Nat, InBlock(u, i, Pages)
        PROVE  pageList'[i + 1] = IF i < cursor'[u] THEN 1 ELSE 0
    <3>1. pageList[i + 1] = IF i < cursor[u] THEN 1 ELSE 0
      BY <1>2, <2>2 DEF PoolInv, PagesPushed
    <3>2. i + 1 \in P!Page
      <4>1. P!BlockEnd(u, Pages) \in Nat /\ P!BlockEnd(u, Pages) <= Pages
        BY BlockBounds, PoolAssumption
      <4> QED
        BY <2>2, <4>1, PoolAssumption DEF InBlock, P!Page
    <3>3. CASE i = c
      <4>1. u = t
        BY <1>4, <1>5, <2>2, <3>3, BlocksApart, PoolAssumption
      <4> QED
        BY <1>4, <1>7, <1>8, <3>3, <4>1
    <3>4. CASE i # c
      <4>1. pageList'[i + 1] = pageList[i + 1]
        BY <1>4, <1>8, <3>2, <3>4
      <4>2. (i < cursor'[u]) <=> (i < cursor[u])
        BY <1>1, <1>4, <1>7, <3>4
      <4> QED
        BY <3>1, <4>1, <4>2
    <3> QED
      BY <3>3, <3>4
  <2> QED
    BY <2>1, <2>2 DEF PagesPushed, InBlock, Start, P!Block, P!BlockEnd
<1>11. \A f \in P!Frame : ~ Hot(f)
  BY <1>2 DEF PoolInv, LatchesKept
<1>12. PagesOnce' /\ PidsOnce' /\ LastKept' /\ LatchesKept' /\ FlushKept'
  BY <1>2, <1>11 DEF PoolInv, PagesOnce, PidsOnce, LastKept, LatchesKept, FlushKept, Hot, OwnHot
<1> QED
  BY <1>9, <1>10, <1>12 DEF PoolInv

(* The pids are pushed by one thread. *)
LEMMA PushPidsKeeps ==
  ASSUME PoolInv, P!PushPids
  PROVE  PoolInv'
<1>1. /\ phase = "pages" /\ \A t \in P!Thread : cursor[t] = P!BlockEnd(t, Pages)
      /\ pidList' = [p \in P!Pid |-> IF p = 0 THEN 0 ELSE 1] /\ phase' = "catalog"
      /\ UNCHANGED <<cursor, pageList, poolFrame, poolSsd, retry, poolPc, version, poolLast, stillLatched>>
  BY DEF P!PushPids
<1>2. ASSUME NEW p \in P!Page PROVE pageList[p] = 1
  <2>1. PICK i \in 0..(Pages - 1) : p = i + 1
    <3>1. p - 1 \in 0..(Pages - 1) /\ p = p - 1 + 1
      BY PoolAssumption DEF P!Page
    <3> QED
      BY <3>1
  <2>2. PICK t \in P!Thread : InBlock(t, i, Pages)
    BY BlocksCover, PoolAssumption
  <2>3. i < cursor[t] /\ i \in Nat
    BY <1>1, <2>2 DEF InBlock
  <2> QED
    BY <1>1, <2>1, <2>2, <2>3 DEF PoolInv, PagesPushed
<1>3. \A f \in P!Frame : ~ Hot(f)
  BY <1>1 DEF PoolInv, LatchesKept
<1>4. PoolTypes' /\ pidList'[0] = 0 /\ PagesPushed'
  <2>1. 0 \in P!Pid
    BY PoolAssumption DEF P!Pid
  <2> QED
    BY <1>1, <2>1 DEF PoolInv, PoolTypes, PagesPushed
<1>5. PagesOnce'
  BY <1>1, <1>2, <1>3 DEF PagesOnce, Hot
<1>6. PidsOnce' /\ LastKept' /\ LatchesKept' /\ FlushKept'
  BY <1>1, <1>3, <1>4 DEF PoolInv, PidsOnce, LastKept, LatchesKept, FlushKept, Hot, OwnHot
<1> QED
  BY <1>4, <1>5, <1>6 DEF PoolInv

-----------------------------------------------------------------------------
(* Pages taken and given back *)

(* The step changes frame f alone. *)
OnlyPoolFrame(f, r) == poolFrame'[f] = r /\ \A g \in P!Frame : g # f => poolFrame'[g] = poolFrame[g]

(* A free frame gets the page p. *)
LEMMA TakeKeeps ==
  ASSUME PoolInv, PoolTypes', NEW f \in P!Frame, NEW p \in P!Page, NEW r \in PoolFrameTypes, ~ Hot(f), P!TakePage(p),
         r.state = "HOT", r.page = p, r.latch = "no", OnlyPoolFrame(f, r),
         phase \in {"catalog", "serve"}, phase' = "serve", UNCHANGED <<cursor, retry, poolPc, stillLatched>>,
         PidsOnce', LastKept'
  PROVE  PoolInv'
<1>1. /\ pageList[p] = 1 /\ pageList'[p] = 0 /\ \A q \in P!Page : q # p => pageList'[q] = pageList[q]
  BY DEF P!TakePage, PoolInv, PoolTypes
<1>2. /\ Hot(f)' /\ poolFrame'[f].page = p /\ poolFrame'[f].latch = "no"
      /\ \A g \in P!Frame : g # f => (Hot(g)' <=> Hot(g)) /\ poolFrame'[g] = poolFrame[g]
  BY DEF Hot, OnlyPoolFrame
<1>3. \A g \in P!Frame : Hot(g) => poolFrame[g].page # p
  BY <1>1 DEF PoolInv, PagesOnce
<1>4. PagesOnce'
  <2>1. \A g \in P!Frame : Hot(g)' => poolFrame'[g].page \in P!Page /\ pageList'[poolFrame'[g].page] = 0
    BY <1>1, <1>2, <1>3 DEF PoolInv, PagesOnce
  <2>2. \A g, h \in P!Frame : Hot(g)' /\ Hot(h)' /\ poolFrame'[g].page = poolFrame'[h].page => g = h
    BY <1>2, <1>3 DEF PoolInv, PagesOnce
  <2>3. \A q \in P!Page : pageList'[q] = 0 => \E g \in P!Frame : Hot(g)' /\ poolFrame'[g].page = q
    BY <1>1, <1>2 DEF PoolInv, PagesOnce
  <2> QED
    BY <2>1, <2>2, <2>3 DEF PagesOnce
<1>5. \A t \in P!Thread : poolPc'[t] = 0 /\ retry'[t] = <<>>
  BY DEF PoolInv, LatchesKept
<1>6. LatchesKept'
  <2>1. \A g \in P!Frame : ~ Hot(g)' => ~ poolFrame'[g].dirty /\ poolFrame'[g].own
    BY <1>2 DEF PoolInv, LatchesKept
  <2>2. \A g \in P!Frame : poolFrame'[g].latch = "shared" => OwnHot(g)'
    BY <1>2 DEF PoolInv, LatchesKept, OwnHot
  <2> QED
    BY <1>5, <2>1, <2>2 DEF LatchesKept
<1>7. PagesPushed' /\ FlushKept'
  BY DEF PagesPushed, FlushKept
<1> QED
  BY <1>4, <1>6, <1>7 DEF PoolInv

(* A frame whose latch nobody has gives its page back. *)
LEMMA GiveKeeps ==
  ASSUME PoolInv, PoolTypes', NEW f \in P!Frame, Hot(f), poolFrame[f].latch = "no",
         pageList' = [pageList EXCEPT ![poolFrame[f].page] = @ + 1], OnlyPoolFrame(f, P!NoFrame),
         phase \in {"serve", "flush"}, UNCHANGED <<phase, cursor, retry, poolPc, stillLatched>>,
         PidsOnce', LastKept'
  PROVE  PoolInv'
<1>1. PICK p \in P!Page : p = poolFrame[f].page /\ pageList[p] = 0
  BY DEF PoolInv, PagesOnce
<1>2. pageList'[p] = 1 /\ \A q \in P!Page : q # p => pageList'[q] = pageList[q]
  BY <1>1 DEF PoolInv, PoolTypes
<1>3. /\ ~ Hot(f)' /\ poolFrame'[f].latch = "no" /\ ~ poolFrame'[f].dirty /\ poolFrame'[f].own
      /\ \A g \in P!Frame : g # f => (Hot(g)' <=> Hot(g)) /\ (OwnHot(g)' <=> OwnHot(g)) /\ poolFrame'[g] = poolFrame[g]
  BY DEF Hot, OwnHot, OnlyPoolFrame, P!NoFrame
<1>4. \A g \in P!Frame : Hot(g) /\ g # f => poolFrame[g].page # p
  BY <1>1 DEF PoolInv, PagesOnce
<1>5. PagesOnce'
  <2>1. \A g \in P!Frame : Hot(g)' => poolFrame'[g].page \in P!Page /\ pageList'[poolFrame'[g].page] = 0
    BY <1>2, <1>3, <1>4 DEF PoolInv, PagesOnce
  <2>2. \A g, h \in P!Frame : Hot(g)' /\ Hot(h)' /\ poolFrame'[g].page = poolFrame'[h].page => g = h
    BY <1>3 DEF PoolInv, PagesOnce
  <2>3. \A q \in P!Page : pageList'[q] = 0 => \E g \in P!Frame : Hot(g)' /\ poolFrame'[g].page = q
    BY <1>1, <1>2, <1>3 DEF PoolInv, PagesOnce
  <2> QED
    BY <2>1, <2>2, <2>3 DEF PagesOnce
<1>6. LatchesKept'
  <2>1. \A g \in P!Frame : ~ Hot(g)' => ~ poolFrame'[g].dirty /\ poolFrame'[g].own
    BY <1>3 DEF PoolInv, LatchesKept
  <2>2. \A g \in P!Frame : poolFrame'[g].latch = "shared" => OwnHot(g)'
    BY <1>3 DEF PoolInv, LatchesKept
  <2>3. \A t \in P!Thread : poolPc[t] # 0 => poolFrame'[poolPc[t]].latch = "exclusive" /\ poolFrame'[poolPc[t]].own
    BY <1>3 DEF PoolInv, LatchesKept, PoolTypes
  <2>4. \A t \in P!Thread : \A i \in 1..Len(retry[t]) : poolFrame'[retry[t][i]].own
    <3> SUFFICES ASSUME NEW t \in P!Thread, NEW i \in 1..Len(retry[t]) PROVE poolFrame'[retry[t][i]].own
      OBVIOUS
    <3>1. retry[t] \in Seq(P!Frame)
      BY DEF PoolInv, PoolTypes
    <3>2. retry[t][i] \in P!Frame /\ poolFrame[retry[t][i]].own
      BY <3>1 DEF PoolInv, LatchesKept
    <3> QED
      BY <1>3, <3>2
  <2> QED
    BY <2>1, <2>2, <2>3, <2>4 DEF PoolInv, LatchesKept
<1>7. PagesPushed'
  BY DEF PagesPushed
<1>8. FlushKept'
  BY <1>3 DEF PoolInv, FlushKept, Ahead, ToRetry, AtWriteBack, OwnHot
<1> QED
  BY <1>5, <1>6, <1>7, <1>8 DEF PoolInv

(* The numbers of a frame's page *)
LEMMA PageNumbers == P!Page \subseteq 0..Pages
BY PoolAssumption DEF P!Page

(* A frame of another node is in nobody's way here. *)
LEMMA RemoteKeeps ==
  ASSUME PoolInv, NEW f \in P!Frame, NEW r, r.state = "HOT", ~ r.own, ~ OwnHot(f), OnlyPoolFrame(f, r),
         UNCHANGED <<pidList, poolSsd, poolLast>>, phase' \notin {"pages", "catalog"}
  PROVE  PidsOnce' /\ LastKept'
<1>1. /\ ~ OwnHot(f)' /\ \A g \in P!Frame : g # f => (OwnHot(g)' <=> OwnHot(g)) /\ poolFrame'[g] = poolFrame[g]
  BY DEF OwnHot, Hot, OnlyPoolFrame
<1> QED
  BY <1>1 DEF PoolInv, PidsOnce, LastKept

(* A frame gets the page of a pid that is not in a frame. *)
LEMMA OwnKeeps ==
  ASSUME PoolInv, NEW f \in P!Frame, NEW r \in PoolFrameTypes, r.state = "HOT", r.own, ~ Hot(f), OnlyPoolFrame(f, r),
         \A g \in P!Frame : OwnHot(g) => poolFrame[g].pid # r.pid,
         pidList' \in [P!Pid -> {0, 1}], pidList'[r.pid] = 0, pidList'[0] = 0,
         \A pid \in P!Pid : pid # r.pid => pidList'[pid] = pidList[pid] /\ poolLast'[pid] = poolLast[pid],
         poolLast'[r.pid] = r.version, ~ r.dirty => poolSsd[r.pid].version = r.version,
         UNCHANGED poolSsd, phase' \notin {"pages", "catalog"}
  PROVE  PidsOnce' /\ LastKept'
<1>1. /\ OwnHot(f)' /\ poolFrame'[f] = r
      /\ \A g \in P!Frame : g # f => (OwnHot(g)' <=> OwnHot(g)) /\ poolFrame'[g] = poolFrame[g]
  BY DEF OwnHot, Hot, OnlyPoolFrame
<1>2. \A g \in P!Frame : poolFrame[g].pid \in P!Pid /\ r.pid \in P!Pid
  BY DEF PoolInv, PoolTypes, PoolFrameTypes
<1>3. PidsOnce'
  BY <1>1, <1>2 DEF PoolInv, PidsOnce
<1>4. LastKept'
  <2>1. \A g \in P!Frame : OwnHot(g)' =>
          /\ poolFrame'[g].version = poolLast'[poolFrame'[g].pid]
          /\ ~ poolFrame'[g].dirty => poolSsd[poolFrame'[g].pid].version = poolFrame'[g].version
    BY <1>1, <1>2 DEF PoolInv, LastKept
  <2>2. \A pid \in P!Pid : pidList'[pid] = 0 =>
          poolSsd[pid].version = poolLast'[pid] \/ \E g \in P!Frame : OwnHot(g)' /\ poolFrame'[g].pid = pid
    <3> SUFFICES ASSUME NEW pid \in P!Pid, pidList'[pid] = 0
                 PROVE  poolSsd[pid].version = poolLast'[pid] \/ \E g \in P!Frame : OwnHot(g)' /\ poolFrame'[g].pid = pid
      OBVIOUS
    <3>1. CASE pid = r.pid
      BY <1>1, <3>1
    <3>2. CASE pid # r.pid
      <4>1. poolSsd[pid].version = poolLast[pid] \/ \E g \in P!Frame : OwnHot(g) /\ poolFrame[g].pid = pid
        BY <3>2 DEF PoolInv, LastKept
      <4>2. ~ OwnHot(f)
        BY DEF OwnHot
      <4> QED
        BY <1>1, <3>2, <4>1, <4>2
    <3> QED
      BY <3>1, <3>2
  <2> QED
    BY <2>1, <2>2 DEF PoolInv, LastKept
<1> QED
  BY <1>3, <1>4

(* createCatalogPage *)
LEMMA CatalogKeeps ==
  ASSUME PoolInv, NEW f \in P!Frame, NEW p \in P!Page, P!CreateCatalogPage(f, p)
  PROVE  PoolInv'
<1>1. PICK r : r = P!Occupied(TRUE, 0, p, 0)
  OBVIOUS
<1>2. 0 \in P!Pid
  BY PoolAssumption DEF P!Pid
<1>3. /\ r \in PoolFrameTypes /\ r.state = "HOT" /\ r.own /\ r.pid = 0 /\ r.page = p /\ r.latch = "no" /\ r.version = 0
  BY <1>1, <1>2, PageNumbers DEF P!Occupied, PoolFrameTypes
<1>4. /\ phase = "catalog" /\ P!TakePage(p) /\ poolFrame' = [poolFrame EXCEPT ![f] = r] /\ phase' = "serve"
      /\ UNCHANGED <<cursor, pidList, poolSsd, retry, poolPc, version, poolLast, stillLatched>>
  BY <1>1 DEF P!CreateCatalogPage
<1>5. OnlyPoolFrame(f, r) /\ poolFrame' \in [P!Frame -> PoolFrameTypes]
  BY <1>3, <1>4 DEF PoolInv, PoolTypes, OnlyPoolFrame
<1>6. \A g \in P!Frame : ~ Hot(g) /\ ~ OwnHot(g)
  BY <1>4 DEF PoolInv, LatchesKept, OwnHot
<1>7. pageList' \in [P!Page -> {0, 1}]
  BY <1>4 DEF P!TakePage, PoolInv, PoolTypes
<1>8. PoolTypes'
  BY <1>4, <1>5, <1>7 DEF PoolInv, PoolTypes
<1>9. /\ pidList' \in [P!Pid -> {0, 1}] /\ pidList'[r.pid] = 0 /\ pidList'[0] = 0
      /\ \A pid \in P!Pid : pid # r.pid => pidList'[pid] = pidList[pid] /\ poolLast'[pid] = poolLast[pid]
      /\ poolLast'[r.pid] = r.version /\ poolSsd[r.pid].version = r.version
  BY <1>2, <1>3, <1>4 DEF PoolInv, PoolTypes, PidsOnce, LastKept
<1>10. PidsOnce' /\ LastKept'
  BY <1>3, <1>4, <1>5, <1>6, <1>9, OwnKeeps
<1> QED
  BY <1>3, <1>4, <1>5, <1>6, <1>8, <1>10, TakeKeeps

(* newPage *)
LEMMA NewPageKeeps ==
  ASSUME PoolInv, NEW f \in P!Frame, NEW p \in P!Page, NEW pid \in P!Pid \ {0}, P!NewPage(f, p, pid)
  PROVE  PoolInv'
<1>1. PICK v \in Nat : v = version + 1 /\ v > 0
  BY DEF PoolInv, PoolTypes
<1>2. PICK r : r = P!Occupied(TRUE, pid, p, v)
  OBVIOUS
<1>3. /\ r \in PoolFrameTypes /\ r.state = "HOT" /\ r.own /\ r.pid = pid /\ r.page = p /\ r.latch = "no" /\ r.version = v
      /\ r.dirty
  BY <1>1, <1>2, PageNumbers DEF P!Occupied, PoolFrameTypes
<1>4. /\ phase = "serve" /\ version' = v /\ poolFrame[f].state = "FREE" /\ P!TakePage(p) /\ pidList[pid] > 0
      /\ pidList' = [pidList EXCEPT ![pid] = @ - 1] /\ poolFrame' = [poolFrame EXCEPT ![f] = r]
      /\ poolLast' = [poolLast EXCEPT ![pid] = v]
      /\ UNCHANGED <<phase, cursor, poolSsd, retry, poolPc, stillLatched>>
  BY <1>1, <1>2 DEF P!NewPage, P!Bump
<1>5. OnlyPoolFrame(f, r) /\ poolFrame' \in [P!Frame -> PoolFrameTypes] /\ ~ Hot(f)
  BY <1>3, <1>4 DEF PoolInv, PoolTypes, OnlyPoolFrame, Hot
<1>6. pageList' \in [P!Page -> {0, 1}]
  BY <1>4 DEF P!TakePage, PoolInv, PoolTypes
<1>7. /\ pidList' \in [P!Pid -> {0, 1}] /\ pidList'[pid] = 0 /\ \A q \in P!Pid : q # pid => pidList'[q] = pidList[q]
  BY <1>4 DEF PoolInv, PoolTypes
<1>8. poolLast' \in [P!Pid -> Nat] /\ poolLast'[pid] = v /\ \A q \in P!Pid : q # pid => poolLast'[q] = poolLast[q]
  BY <1>4 DEF PoolInv, PoolTypes
<1>9. PoolTypes'
  BY <1>4, <1>5, <1>6, <1>7, <1>8 DEF PoolInv, PoolTypes
<1>10. \A g \in P!Frame : OwnHot(g) => poolFrame[g].pid # r.pid
  BY <1>3, <1>4 DEF PoolInv, PidsOnce
<1>11. pidList'[0] = 0
  <2>1. 0 \in P!Pid
    BY PoolAssumption DEF P!Pid
  <2> QED
    BY <1>7, <2>1 DEF PoolInv, PidsOnce
<1>12. PidsOnce' /\ LastKept'
  <2>1. /\ pidList'[r.pid] = 0 /\ poolLast'[r.pid] = r.version /\ (~ r.dirty => poolSsd[r.pid].version = r.version)
        /\ \A q \in P!Pid : q # r.pid => pidList'[q] = pidList[q] /\ poolLast'[q] = poolLast[q]
        /\ UNCHANGED poolSsd /\ phase' \notin {"pages", "catalog"}
    BY <1>3, <1>4, <1>7, <1>8
  <2> QED
    BY <1>3, <1>5, <1>7, <1>10, <1>11, <2>1, OwnKeeps
<1> QED
  BY <1>3, <1>4, <1>5, <1>9, <1>12, TakeKeeps

(* newRemotePage *)
LEMMA NewRemotePageKeeps ==
  ASSUME PoolInv, NEW f \in P!Frame, NEW p \in P!Page, NEW pid \in P!Pid \ {0}, P!NewRemotePage(f, p, pid)
  PROVE  PoolInv'
<1>1. PICK v \in Nat : v = version + 1
  BY DEF PoolInv, PoolTypes
<1>2. PICK r : r = P!Occupied(FALSE, pid, p, v)
  OBVIOUS
<1>3. /\ r \in PoolFrameTypes /\ r.state = "HOT" /\ ~ r.own /\ r.page = p /\ r.latch = "no"
  BY <1>1, <1>2, PageNumbers DEF P!Occupied, PoolFrameTypes
<1>4. /\ phase = "serve" /\ version' = v /\ poolFrame[f].state = "FREE" /\ P!TakePage(p)
      /\ poolFrame' = [poolFrame EXCEPT ![f] = r]
      /\ UNCHANGED <<phase, cursor, pidList, poolSsd, retry, poolPc, poolLast, stillLatched>>
  BY <1>1, <1>2 DEF P!NewRemotePage, P!Bump
<1>5. OnlyPoolFrame(f, r) /\ poolFrame' \in [P!Frame -> PoolFrameTypes] /\ ~ Hot(f) /\ ~ OwnHot(f)
  BY <1>3, <1>4 DEF PoolInv, PoolTypes, OnlyPoolFrame, Hot, OwnHot
<1>6. pageList' \in [P!Page -> {0, 1}]
  BY <1>4 DEF P!TakePage, PoolInv, PoolTypes
<1>7. PoolTypes'
  BY <1>4, <1>5, <1>6 DEF PoolInv, PoolTypes
<1>8. PidsOnce' /\ LastKept'
  BY <1>3, <1>4, <1>5, RemoteKeeps
<1> QED
  BY <1>3, <1>4, <1>5, <1>7, <1>8, TakeKeeps

(* fix of a page that is on the SSD: readPageSync *)
LEMMA LoadPageKeeps ==
  ASSUME PoolInv, NEW f \in P!Frame, NEW p \in P!Page, NEW pid \in P!Pid, P!LoadPage(f, p, pid)
  PROVE  PoolInv'
<1>1. PICK v \in Nat : v = poolSsd[pid].version
  BY DEF PoolInv, PoolTypes
<1>2. PICK r : r = [P!Occupied(TRUE, pid, p, v) EXCEPT !.dirty = FALSE]
  OBVIOUS
<1>3. /\ r \in PoolFrameTypes /\ r.state = "HOT" /\ r.own /\ r.pid = pid /\ r.page = p /\ r.latch = "no" /\ r.version = v
  <2>1. PICK o : o = P!Occupied(TRUE, pid, p, v)
    OBVIOUS
  <2>2. /\ o \in PoolFrameTypes /\ o.state = "HOT" /\ o.own /\ o.pid = pid /\ o.page = p /\ o.latch = "no" /\ o.version = v
    BY <2>1, PageNumbers DEF P!Occupied, PoolFrameTypes
  <2> QED
    BY <1>2, <2>1, <2>2 DEF PoolFrameTypes
<1>4. /\ phase = "serve" /\ poolFrame[f].state = "FREE" /\ P!TakePage(p) /\ pidList[pid] = 0
      /\ \A g \in P!Frame : ~ OwnHot(g) \/ poolFrame[g].pid # pid
      /\ poolFrame' = [poolFrame EXCEPT ![f] = r]
      /\ UNCHANGED <<phase, cursor, pidList, poolSsd, retry, poolPc, version, poolLast, stillLatched>>
  BY <1>1, <1>2 DEF P!LoadPage, OwnHot, Hot
<1>5. OnlyPoolFrame(f, r) /\ poolFrame' \in [P!Frame -> PoolFrameTypes] /\ ~ Hot(f)
  BY <1>3, <1>4 DEF PoolInv, PoolTypes, OnlyPoolFrame, Hot
<1>6. pageList' \in [P!Page -> {0, 1}]
  BY <1>4 DEF P!TakePage, PoolInv, PoolTypes
<1>7. PoolTypes'
  BY <1>4, <1>5, <1>6 DEF PoolInv, PoolTypes
<1>8. v = poolLast[pid]
  BY <1>1, <1>4 DEF PoolInv, LastKept
<1>9. PidsOnce' /\ LastKept'
  <2>1. /\ pidList' \in [P!Pid -> {0, 1}] /\ pidList'[r.pid] = 0 /\ pidList'[0] = 0
        /\ poolLast'[r.pid] = r.version /\ poolSsd[r.pid].version = r.version
        /\ \A q \in P!Pid : q # r.pid => pidList'[q] = pidList[q] /\ poolLast'[q] = poolLast[q]
        /\ UNCHANGED poolSsd /\ phase' \notin {"pages", "catalog"}
        /\ \A g \in P!Frame : OwnHot(g) => poolFrame[g].pid # r.pid
    BY <1>1, <1>3, <1>4, <1>8 DEF PoolInv, PoolTypes, PidsOnce
  <2> QED
    BY <1>3, <1>5, <2>1, OwnKeeps
<1> QED
  BY <1>3, <1>4, <1>5, <1>7, <1>9, TakeKeeps

(* A page of this node leaves its frame: its pid is free again, or the SSD *)
(* has its last version.                                                   *)
LEMMA LeaveKeeps ==
  ASSUME PoolInv, NEW f \in P!Frame, OwnHot(f), OnlyPoolFrame(f, P!NoFrame), phase \notin {"pages", "catalog"},
         pidList'[0] = 0, \A pid \in P!Pid : pid # poolFrame[f].pid => pidList'[pid] = pidList[pid],
         pidList'[poolFrame[f].pid] = 0 => ~ poolFrame[f].dirty,
         UNCHANGED <<phase, poolSsd, poolLast>>
  PROVE  PidsOnce' /\ LastKept'
<1>1. /\ ~ OwnHot(f)' /\ \A g \in P!Frame : g # f => (OwnHot(g)' <=> OwnHot(g)) /\ poolFrame'[g] = poolFrame[g]
  BY DEF OwnHot, Hot, OnlyPoolFrame, P!NoFrame
<1>2. \A g \in P!Frame : poolFrame[g].pid \in P!Pid /\ (OwnHot(g) /\ g # f => poolFrame[g].pid # poolFrame[f].pid)
  BY DEF PoolInv, PoolTypes, PoolFrameTypes, PidsOnce
<1>3. PidsOnce'
  BY <1>1, <1>2 DEF PoolInv, PidsOnce
<1>4. \A pid \in P!Pid : pidList'[pid] = 0 =>
        poolSsd[pid].version = poolLast[pid] \/ \E g \in P!Frame : OwnHot(g)' /\ poolFrame'[g].pid = pid
  <2> SUFFICES ASSUME NEW pid \in P!Pid, pidList'[pid] = 0
               PROVE  poolSsd[pid].version = poolLast[pid] \/ \E g \in P!Frame : OwnHot(g)' /\ poolFrame'[g].pid = pid
    OBVIOUS
  <2>1. CASE pid = poolFrame[f].pid
    BY <2>1 DEF PoolInv, LastKept
  <2>2. CASE pid # poolFrame[f].pid
    <3>1. poolSsd[pid].version = poolLast[pid] \/ \E g \in P!Frame : OwnHot(g) /\ poolFrame[g].pid = pid
      BY <2>2 DEF PoolInv, LastKept
    <3> QED
      BY <1>1, <2>2, <3>1
  <2> QED
    BY <2>1, <2>2
<1>5. LastKept'
  BY <1>1, <1>4 DEF PoolInv, LastKept
<1> QED
  BY <1>3, <1>5

(* A free frame is one. *)
LEMMA NoFrameTypes == P!NoFrame \in PoolFrameTypes
BY PoolAssumption DEF P!NoFrame, PoolFrameTypes, P!Pid

(* reclaimPage *)
LEMMA ReclaimPageKeeps ==
  ASSUME PoolInv, NEW f \in P!Frame, P!ReclaimPage(f)
  PROVE  PoolInv'
<1>1. /\ phase = "serve" /\ Hot(f) /\ poolFrame[f].latch = "no" /\ poolFrame[f].pid # 0
      /\ pageList' = [pageList EXCEPT ![poolFrame[f].page] = @ + 1]
      /\ pidList' = (IF poolFrame[f].own THEN [pidList EXCEPT ![poolFrame[f].pid] = @ + 1] ELSE pidList)
      /\ poolFrame' = [poolFrame EXCEPT ![f] = P!NoFrame]
      /\ UNCHANGED <<phase, cursor, poolSsd, retry, poolPc, version, poolLast, stillLatched>>
  BY DEF P!ReclaimPage, Hot
<1>2. OnlyPoolFrame(f, P!NoFrame) /\ poolFrame' \in [P!Frame -> PoolFrameTypes]
  BY <1>1, NoFrameTypes DEF PoolInv, PoolTypes, OnlyPoolFrame
<1>3. pageList' \in [P!Page -> {0, 1}]
  BY <1>1 DEF PoolInv, PoolTypes, PagesOnce
<1>4. CASE poolFrame[f].own
  <2>1. PICK pid \in P!Pid : pid = poolFrame[f].pid /\ pidList[pid] = 0
    BY <1>1, <1>4 DEF PoolInv, PoolTypes, PoolFrameTypes, PidsOnce, OwnHot
  <2>2. /\ pidList' \in [P!Pid -> {0, 1}] /\ pidList'[pid] = 1 /\ \A q \in P!Pid : q # pid => pidList'[q] = pidList[q]
    BY <1>1, <1>4, <2>1 DEF PoolInv, PoolTypes
  <2>3. pidList'[0] = 0
    <3>1. 0 \in P!Pid
      BY PoolAssumption DEF P!Pid
    <3> QED
      BY <1>1, <2>1, <2>2, <3>1 DEF PoolInv, PidsOnce
  <2>4. PidsOnce' /\ LastKept'
    BY <1>1, <1>2, <1>4, <2>1, <2>2, <2>3, LeaveKeeps DEF OwnHot
  <2>5. PoolTypes'
    BY <1>1, <1>2, <1>3, <2>2 DEF PoolInv, PoolTypes
  <2> QED
    BY <1>1, <1>2, <2>4, <2>5, GiveKeeps
<1>5. CASE ~ poolFrame[f].own
  <2>1. /\ ~ OwnHot(f)' /\ ~ OwnHot(f)
        /\ \A g \in P!Frame : g # f => (OwnHot(g)' <=> OwnHot(g)) /\ poolFrame'[g] = poolFrame[g]
    BY <1>2, <1>5 DEF OwnHot, Hot, OnlyPoolFrame, P!NoFrame
  <2>2. PidsOnce' /\ LastKept'
    BY <1>1, <1>5, <2>1 DEF PoolInv, PidsOnce, LastKept
  <2>3. PoolTypes'
    BY <1>1, <1>2, <1>3, <1>5 DEF PoolInv, PoolTypes
  <2> QED
    BY <1>1, <1>2, <2>2, <2>3, GiveKeeps
<1> QED
  BY <1>4, <1>5

(* The page provider evicts a clean page. *)
LEMMA EvictPageKeeps ==
  ASSUME PoolInv, NEW f \in P!Frame, P!Evict(f)
  PROVE  PoolInv'
<1>1. /\ phase \in {"serve", "flush"} /\ OwnHot(f) /\ Hot(f) /\ poolFrame[f].latch = "no" /\ ~ poolFrame[f].dirty
      /\ pageList' = [pageList EXCEPT ![poolFrame[f].page] = @ + 1]
      /\ poolFrame' = [poolFrame EXCEPT ![f] = P!NoFrame]
      /\ UNCHANGED <<phase, cursor, pidList, poolSsd, retry, poolPc, version, poolLast, stillLatched>>
  BY DEF P!Evict, Hot, OwnHot
<1>2. OnlyPoolFrame(f, P!NoFrame) /\ poolFrame' \in [P!Frame -> PoolFrameTypes]
  BY <1>1, NoFrameTypes DEF PoolInv, PoolTypes, OnlyPoolFrame
<1>3. pageList' \in [P!Page -> {0, 1}]
  BY <1>1 DEF PoolInv, PoolTypes, PagesOnce
<1>4. PoolTypes'
  BY <1>1, <1>2, <1>3 DEF PoolInv, PoolTypes
<1>5. pidList'[0] = 0 /\ phase \notin {"pages", "catalog"}
  BY <1>1 DEF PoolInv, PidsOnce
<1>6. PidsOnce' /\ LastKept'
  BY <1>1, <1>2, <1>5, LeaveKeeps
<1> QED
  BY <1>1, <1>2, <1>4, <1>6, GiveKeeps

-----------------------------------------------------------------------------
(* Pages written and latched *)

(* Every frame keeps its page. *)
SameHolders ==
  \A g \in P!Frame : /\ poolFrame'[g].state = poolFrame[g].state /\ poolFrame'[g].own = poolFrame[g].own
                     /\ poolFrame'[g].pid = poolFrame[g].pid /\ poolFrame'[g].page = poolFrame[g].page

(* Steps that leave pages and pids where they are *)
LEMMA SameKeeps ==
  ASSUME PoolInv, SameHolders, UNCHANGED <<pageList, pidList>>, phase \notin {"pages", "catalog"},
         phase' \notin {"pages", "catalog"}
  PROVE  /\ PagesOnce' /\ PidsOnce' /\ PagesPushed'
         /\ \A g \in P!Frame : (Hot(g)' <=> Hot(g)) /\ (OwnHot(g)' <=> OwnHot(g))
<1>1. \A g \in P!Frame : (Hot(g)' <=> Hot(g)) /\ (OwnHot(g)' <=> OwnHot(g))
  BY DEF SameHolders, Hot, OwnHot
<1>2. PagesOnce' /\ PidsOnce'
  BY <1>1 DEF PoolInv, SameHolders, PagesOnce, PidsOnce
<1>3. PagesPushed'
  BY DEF PagesPushed
<1> QED
  BY <1>1, <1>2, <1>3

(* A page is written under its guard. *)
LEMMA WritePageKeeps ==
  ASSUME PoolInv, NEW f \in P!Frame, P!WritePage(f)
  PROVE  PoolInv'
<1>1. PICK v \in Nat : v = version + 1
  BY DEF PoolInv, PoolTypes
<1>2. /\ phase = "serve" /\ version' = v /\ Hot(f) /\ poolFrame[f].latch = "no"
      /\ poolFrame' = [poolFrame EXCEPT ![f].version = v, ![f].dirty = TRUE]
      /\ poolLast' = (IF poolFrame[f].own THEN [poolLast EXCEPT ![poolFrame[f].pid] = v] ELSE poolLast)
      /\ UNCHANGED <<phase, cursor, pageList, pidList, poolSsd, retry, poolPc, stillLatched>>
  BY <1>1 DEF P!WritePage, P!Bump, Hot
<1>3. poolFrame[f] \in PoolFrameTypes /\ poolFrame \in [P!Frame -> PoolFrameTypes]
  BY DEF PoolInv, PoolTypes
<1>4. PICK r : r = [poolFrame[f] EXCEPT !.version = v, !.dirty = TRUE]
  OBVIOUS
<1>5. /\ r \in PoolFrameTypes /\ r.state = poolFrame[f].state /\ r.own = poolFrame[f].own /\ r.pid = poolFrame[f].pid
      /\ r.page = poolFrame[f].page /\ r.latch = poolFrame[f].latch /\ r.version = v /\ r.dirty
  BY <1>3, <1>4 DEF PoolFrameTypes
<1>6. OnlyPoolFrame(f, r) /\ poolFrame' \in [P!Frame -> PoolFrameTypes]
  BY <1>2, <1>3, <1>4, <1>5 DEF OnlyPoolFrame
<1>7. poolLast' \in [P!Pid -> Nat]
  BY <1>2 DEF PoolInv, PoolTypes
<1>8. PoolTypes'
  BY <1>2, <1>6, <1>7 DEF PoolInv, PoolTypes
<1>9. SameHolders
  BY <1>5, <1>6 DEF OnlyPoolFrame, SameHolders
<1>10. /\ PagesOnce' /\ PidsOnce' /\ PagesPushed'
       /\ \A g \in P!Frame : (Hot(g)' <=> Hot(g)) /\ (OwnHot(g)' <=> OwnHot(g))
  BY <1>2, <1>9, SameKeeps
<1>11. \A g \in P!Frame : poolFrame[g].pid \in P!Pid
  BY DEF PoolInv, PoolTypes, PoolFrameTypes
<1>12. LastKept'
  <2>1. ASSUME NEW g \in P!Frame, OwnHot(g)
        PROVE  /\ poolFrame'[g].version = poolLast'[poolFrame'[g].pid]
               /\ ~ poolFrame'[g].dirty => poolSsd[poolFrame'[g].pid].version = poolFrame'[g].version
    <3>1. CASE g = f
      BY <1>2, <1>5, <1>6, <1>11, <2>1, <3>1 DEF OnlyPoolFrame, OwnHot, PoolInv, PoolTypes
    <3>2. CASE g # f
      <4>1. poolFrame'[g] = poolFrame[g] /\ poolLast'[poolFrame[g].pid] = poolLast[poolFrame[g].pid]
        BY <1>2, <1>6, <1>11, <2>1, <3>2 DEF OnlyPoolFrame, OwnHot, PoolInv, PoolTypes, PidsOnce
      <4> QED
        BY <2>1, <4>1 DEF PoolInv, LastKept
    <3> QED
      BY <3>1, <3>2
  <2>2. ASSUME NEW pid \in P!Pid, pidList[pid] = 0
        PROVE  poolSsd[pid].version = poolLast'[pid] \/ \E g \in P!Frame : OwnHot(g)' /\ poolFrame'[g].pid = pid
    <3>1. CASE OwnHot(f) /\ pid = poolFrame[f].pid
      BY <1>9, <1>10, <3>1 DEF SameHolders
    <3>2. CASE ~ (OwnHot(f) /\ pid = poolFrame[f].pid)
      <4>1. poolLast'[pid] = poolLast[pid]
        BY <1>2, <1>11, <3>2 DEF OwnHot, PoolInv, PoolTypes
      <4>2. poolSsd[pid].version = poolLast[pid] \/ \E g \in P!Frame : OwnHot(g) /\ poolFrame[g].pid = pid
        BY <2>2 DEF PoolInv, LastKept
      <4> QED
        BY <1>9, <1>10, <4>1, <4>2 DEF SameHolders
    <3> QED
      BY <3>1, <3>2
  <2> QED
    BY <1>2, <1>10, <2>1, <2>2 DEF PoolInv, LastKept
<1>13. LatchesKept'
  <2>1. \A t \in P!Thread : poolPc'[t] = 0 /\ retry'[t] = <<>>
    BY <1>2 DEF PoolInv, LatchesKept
  <2>2. \A g \in P!Frame : ~ Hot(g)' => ~ poolFrame'[g].dirty /\ poolFrame'[g].own
    BY <1>2, <1>6, <1>10 DEF PoolInv, LatchesKept, OnlyPoolFrame
  <2>3. \A g \in P!Frame : poolFrame'[g].latch = "shared" => OwnHot(g)'
    BY <1>5, <1>6, <1>10 DEF PoolInv, LatchesKept, OnlyPoolFrame
  <2>4. phase' = "serve" /\ \A t \in P!Thread : 1..Len(retry'[t]) = {}
    BY <1>2, <2>1
  <2> QED
    BY ONLY <2>1, <2>2, <2>3, <2>4 DEF LatchesKept
<1>14. FlushKept'
  BY <1>2 DEF FlushKept
<1> QED
  BY <1>8, <1>10, <1>12, <1>13, <1>14 DEF PoolInv

(* The frames that writeAllPages retries *)
LEMMA RetryFrames ==
  ASSUME PoolInv
  PROVE  \A t \in P!Thread : \A i \in 1..Len(retry[t]) : retry[t][i] \in P!Frame /\ poolFrame[retry[t][i]].own
<1> SUFFICES ASSUME NEW t \in P!Thread, NEW i \in 1..Len(retry[t])
             PROVE  retry[t][i] \in P!Frame /\ poolFrame[retry[t][i]].own
  OBVIOUS
<1>1. retry[t] \in Seq(P!Frame)
  BY DEF PoolInv, PoolTypes
<1> QED
  BY <1>1 DEF PoolInv, LatchesKept

(* A frame gets another latch. *)
LEMMA LatchKeeps ==
  ASSUME PoolInv, NEW f \in P!Frame, NEW l \in {"no", "shared", "exclusive"},
         poolFrame' = [poolFrame EXCEPT ![f].latch = l],
         UNCHANGED <<pageList, pidList, poolSsd, poolLast>>, phase \notin {"pages", "catalog"},
         phase' \notin {"pages", "catalog"}
  PROVE  /\ poolFrame' \in [P!Frame -> PoolFrameTypes] /\ PagesPushed' /\ PagesOnce' /\ PidsOnce' /\ LastKept'
         /\ poolFrame'[f].latch = l /\ \A g \in P!Frame : g # f => poolFrame'[g].latch = poolFrame[g].latch
         /\ \A g \in P!Frame : /\ (Hot(g)' <=> Hot(g)) /\ (OwnHot(g)' <=> OwnHot(g))
                               /\ poolFrame'[g].own = poolFrame[g].own /\ poolFrame'[g].dirty = poolFrame[g].dirty
<1>1. poolFrame \in [P!Frame -> PoolFrameTypes]
  BY DEF PoolInv, PoolTypes
<1>2. /\ poolFrame' \in [P!Frame -> PoolFrameTypes] /\ poolFrame'[f].latch = l
      /\ \A g \in P!Frame : g # f => poolFrame'[g].latch = poolFrame[g].latch
      /\ SameHolders
      /\ \A g \in P!Frame : poolFrame'[g].dirty = poolFrame[g].dirty /\ poolFrame'[g].version = poolFrame[g].version
  BY <1>1 DEF PoolFrameTypes, SameHolders
<1>3. /\ PagesOnce' /\ PidsOnce' /\ PagesPushed'
      /\ \A g \in P!Frame : (Hot(g)' <=> Hot(g)) /\ (OwnHot(g)' <=> OwnHot(g))
  BY <1>2, SameKeeps
<1>4. LastKept'
  <2>1. \A g \in P!Frame : OwnHot(g)' =>
          /\ poolFrame'[g].version = poolLast[poolFrame'[g].pid]
          /\ ~ poolFrame'[g].dirty => poolSsd[poolFrame'[g].pid].version = poolFrame'[g].version
    BY <1>2, <1>3 DEF PoolInv, LastKept, SameHolders
  <2>2. \A pid \in P!Pid : pidList[pid] = 0 =>
          poolSsd[pid].version = poolLast[pid] \/ \E g \in P!Frame : OwnHot(g)' /\ poolFrame'[g].pid = pid
    BY <1>2, <1>3 DEF PoolInv, LastKept, SameHolders
  <2> QED
    BY <2>1, <2>2 DEF PoolInv, LastKept
<1> QED
  BY <1>2, <1>3, <1>4 DEF SameHolders

(* A page is written to the SSD, its frame gets clean and unlatched. *)
LEMMA CleanKeeps ==
  ASSUME PoolInv, NEW f \in P!Frame, OwnHot(f) \/ ~ poolFrame[f].dirty,
         poolFrame' = [poolFrame EXCEPT ![f].latch = "no", ![f].dirty = FALSE],
         poolSsd' = IF poolFrame[f].dirty \/ (OwnHot(f) /\ poolFrame[f].latch = "shared")
                    THEN [poolSsd EXCEPT ![poolFrame[f].pid] = P!Written(f)] ELSE poolSsd,
         UNCHANGED <<phase, pageList, pidList, poolLast>>, phase \notin {"pages", "catalog"}
  PROVE  /\ poolFrame' \in [P!Frame -> PoolFrameTypes] /\ poolSsd' \in [P!Pid -> [version : Nat, own : BOOLEAN]]
         /\ PagesPushed' /\ PagesOnce' /\ PidsOnce' /\ LastKept'
         /\ poolFrame'[f].latch = "no" /\ \A g \in P!Frame : g # f => poolFrame'[g].latch = poolFrame[g].latch
         /\ ~ poolFrame'[f].dirty
         /\ \A g \in P!Frame : /\ (Hot(g)' <=> Hot(g)) /\ (OwnHot(g)' <=> OwnHot(g))
                               /\ poolFrame'[g].own = poolFrame[g].own
                               /\ (g # f => poolFrame'[g].dirty = poolFrame[g].dirty)
<1>1. poolFrame \in [P!Frame -> PoolFrameTypes] /\ poolFrame[f] \in PoolFrameTypes
  BY DEF PoolInv, PoolTypes
<1>2. PICK r : r = [poolFrame[f] EXCEPT !.latch = "no", !.dirty = FALSE]
  OBVIOUS
<1>3. /\ r \in PoolFrameTypes /\ r.state = poolFrame[f].state /\ r.own = poolFrame[f].own /\ r.pid = poolFrame[f].pid
      /\ r.page = poolFrame[f].page /\ r.latch = "no" /\ r.version = poolFrame[f].version /\ ~ r.dirty
  BY <1>1, <1>2 DEF PoolFrameTypes
<1>4. OnlyPoolFrame(f, r) /\ poolFrame' \in [P!Frame -> PoolFrameTypes]
  BY <1>1, <1>2, <1>3 DEF OnlyPoolFrame
<1>5. /\ poolFrame'[f].latch = "no" /\ ~ poolFrame'[f].dirty
      /\ \A g \in P!Frame : g # f => poolFrame'[g] = poolFrame[g]
      /\ SameHolders
      /\ \A g \in P!Frame : poolFrame'[g].version = poolFrame[g].version
  BY <1>3, <1>4 DEF OnlyPoolFrame, SameHolders
<1>6. /\ PagesOnce' /\ PidsOnce' /\ PagesPushed'
      /\ \A g \in P!Frame : (Hot(g)' <=> Hot(g)) /\ (OwnHot(g)' <=> OwnHot(g))
  BY <1>5, SameKeeps
<1>7. \A g \in P!Frame : poolFrame[g].pid \in P!Pid /\ poolFrame[g].version \in Nat
  BY <1>1 DEF PoolFrameTypes
<1>8. /\ poolSsd' \in [P!Pid -> [version : Nat, own : BOOLEAN]]
      /\ \A pid \in P!Pid : poolSsd'[pid].own
      /\ OwnHot(f) => poolSsd'[poolFrame[f].pid].version = poolFrame[f].version
      /\ \A pid \in P!Pid : ~ (OwnHot(f) /\ pid = poolFrame[f].pid) => poolSsd'[pid] = poolSsd[pid]
  <2>1. CASE poolFrame[f].dirty \/ (OwnHot(f) /\ poolFrame[f].latch = "shared")
    <3>1. OwnHot(f) /\ poolSsd' = [poolSsd EXCEPT ![poolFrame[f].pid] = P!Written(f)]
      BY <2>1
    <3>2. /\ P!Written(f) \in [version : Nat, own : BOOLEAN] /\ P!Written(f).version = poolFrame[f].version
          /\ P!Written(f).own
      BY <1>1, <3>1 DEF P!Written, PoolFrameTypes, OwnHot
    <3>3. /\ poolSsd'[poolFrame[f].pid] = P!Written(f)
          /\ \A pid \in P!Pid : pid # poolFrame[f].pid => poolSsd'[pid] = poolSsd[pid]
          /\ poolSsd' \in [P!Pid -> [version : Nat, own : BOOLEAN]]
      BY <1>7, <3>1, <3>2 DEF PoolInv, PoolTypes
    <3> QED
      BY <3>1, <3>2, <3>3 DEF PoolInv, LastKept
  <2>2. CASE ~ (poolFrame[f].dirty \/ (OwnHot(f) /\ poolFrame[f].latch = "shared"))
    BY <2>2 DEF PoolInv, PoolTypes, LastKept
  <2> QED
    BY <2>1, <2>2
<1>9. LastKept'
  <2>1. ASSUME NEW g \in P!Frame, OwnHot(g)
        PROVE  /\ poolFrame'[g].version = poolLast[poolFrame'[g].pid]
               /\ ~ poolFrame'[g].dirty => poolSsd'[poolFrame'[g].pid].version = poolFrame'[g].version
    <3>1. poolFrame[g].version = poolLast[poolFrame[g].pid]
      BY <2>1 DEF PoolInv, LastKept
    <3>2. CASE g = f
      BY <1>5, <1>8, <2>1, <3>1, <3>2 DEF SameHolders
    <3>3. CASE g # f
      <4>1. ~ (OwnHot(f) /\ poolFrame[g].pid = poolFrame[f].pid)
        BY <2>1, <3>3 DEF PoolInv, PidsOnce
      <4>2. poolSsd'[poolFrame[g].pid] = poolSsd[poolFrame[g].pid]
        BY <1>7, <1>8, <4>1
      <4>3. poolFrame'[g] = poolFrame[g]
        BY <1>5, <3>3
      <4>4. ~ poolFrame[g].dirty => poolSsd[poolFrame[g].pid].version = poolFrame[g].version
        BY <2>1 DEF PoolInv, LastKept
      <4> QED
        BY ONLY <3>1, <4>2, <4>3, <4>4
    <3> QED
      BY <3>2, <3>3
  <2>2. ASSUME NEW pid \in P!Pid, pidList[pid] = 0
        PROVE  poolSsd'[pid].version = poolLast[pid] \/ \E g \in P!Frame : OwnHot(g)' /\ poolFrame'[g].pid = pid
    <3>1. CASE OwnHot(f) /\ pid = poolFrame[f].pid
      BY <1>5, <1>6, <3>1 DEF SameHolders
    <3>2. CASE ~ (OwnHot(f) /\ pid = poolFrame[f].pid)
      <4>1. poolSsd[pid].version = poolLast[pid] \/ \E g \in P!Frame : OwnHot(g) /\ poolFrame[g].pid = pid
        BY <2>2 DEF PoolInv, LastKept
      <4> QED
        BY <1>5, <1>6, <1>8, <3>2, <4>1 DEF SameHolders
    <3> QED
      BY <3>1, <3>2
  <2> QED
    BY <1>6, <1>8, <2>1, <2>2 DEF LastKept
<1> QED
  BY <1>4, <1>5, <1>6, <1>8, <1>9 DEF SameHolders

(* The page provider starts to write a dirty page, *)
LEMMA StartWriteKeeps ==
  ASSUME PoolInv, NEW f \in P!Frame, P!StartWrite(f)
  PROVE  PoolInv'
<1>1. /\ phase \in {"serve", "flush"} /\ OwnHot(f) /\ poolFrame[f].latch = "no"
      /\ poolFrame' = [poolFrame EXCEPT ![f].latch = "shared"]
      /\ UNCHANGED <<phase, cursor, pageList, pidList, poolSsd, retry, poolPc, version, poolLast, stillLatched>>
  BY DEF P!StartWrite, OwnHot, Hot
<1>2. /\ poolFrame' \in [P!Frame -> PoolFrameTypes] /\ PagesPushed' /\ PagesOnce' /\ PidsOnce' /\ LastKept'
      /\ \A g \in P!Frame : g # f => poolFrame'[g].latch = poolFrame[g].latch
      /\ \A g \in P!Frame : /\ (Hot(g)' <=> Hot(g)) /\ (OwnHot(g)' <=> OwnHot(g))
                            /\ poolFrame'[g].own = poolFrame[g].own /\ poolFrame'[g].dirty = poolFrame[g].dirty
  BY <1>1, LatchKeeps
<1>3. PoolTypes'
  BY <1>1, <1>2 DEF PoolInv, PoolTypes
<1>4. LatchesKept'
  BY <1>1, <1>2, RetryFrames DEF PoolInv, PoolTypes, LatchesKept
<1>5. FlushKept'
  BY <1>1, <1>2 DEF PoolInv, FlushKept, Ahead, ToRetry, AtWriteBack
<1> QED
  BY <1>2, <1>3, <1>4, <1>5 DEF PoolInv

(* and sees its write completed. *)
LEMMA FinishWriteKeeps ==
  ASSUME PoolInv, NEW f \in P!Frame, P!FinishWrite(f)
  PROVE  PoolInv'
<1>1. /\ poolFrame[f].latch = "shared" /\ poolSsd' = [poolSsd EXCEPT ![poolFrame[f].pid] = P!Written(f)]
      /\ poolFrame' = [poolFrame EXCEPT ![f].latch = "no", ![f].dirty = FALSE]
      /\ UNCHANGED <<phase, cursor, pageList, pidList, retry, poolPc, version, poolLast, stillLatched>>
  BY DEF P!FinishWrite
<1>2. OwnHot(f) /\ phase \notin {"pages", "catalog"}
  BY <1>1 DEF PoolInv, LatchesKept, OwnHot
<1>3. /\ poolFrame' \in [P!Frame -> PoolFrameTypes] /\ poolSsd' \in [P!Pid -> [version : Nat, own : BOOLEAN]]
      /\ PagesPushed' /\ PagesOnce' /\ PidsOnce' /\ LastKept'
      /\ poolFrame'[f].latch = "no" /\ \A g \in P!Frame : g # f => poolFrame'[g].latch = poolFrame[g].latch
      /\ ~ poolFrame'[f].dirty
      /\ \A g \in P!Frame : /\ (Hot(g)' <=> Hot(g)) /\ (OwnHot(g)' <=> OwnHot(g))
                            /\ poolFrame'[g].own = poolFrame[g].own
                            /\ (g # f => poolFrame'[g].dirty = poolFrame[g].dirty)
  BY <1>1, <1>2, CleanKeeps
<1>4. PoolTypes'
  BY <1>1, <1>3 DEF PoolInv, PoolTypes
<1>5. LatchesKept'
  <2>1. \A u \in P!Thread : poolPc[u] # 0 => poolFrame'[poolPc[u]].latch = "exclusive" /\ poolFrame'[poolPc[u]].own
    <3> SUFFICES ASSUME NEW u \in P!Thread, poolPc[u] # 0
                 PROVE  poolFrame'[poolPc[u]].latch = "exclusive" /\ poolFrame'[poolPc[u]].own
      OBVIOUS
    <3>1. poolPc[u] \in P!Frame /\ poolFrame[poolPc[u]].latch = "exclusive" /\ poolFrame[poolPc[u]].own
      BY DEF PoolInv, PoolTypes, LatchesKept
    <3>2. poolPc[u] # f
      BY <1>1, <3>1
    <3> QED
      BY <1>3, <3>1, <3>2
  <2>2. \A u, w \in P!Thread : poolPc[u] # 0 /\ poolPc[u] = poolPc[w] => u = w
    BY DEF PoolInv, LatchesKept
  <2>3. \A u \in P!Thread : \A i \in 1..Len(retry[u]) : poolFrame'[retry[u][i]].own
    BY <1>3, RetryFrames
  <2>4. \A g \in P!Frame : ~ Hot(g)' => ~ poolFrame'[g].dirty /\ poolFrame'[g].own
    <3>1. \A g \in P!Frame : ~ Hot(g) => ~ poolFrame[g].dirty /\ poolFrame[g].own
      BY DEF PoolInv, LatchesKept
    <3> QED
      BY <1>3, <3>1
  <2>5. \A g \in P!Frame : poolFrame'[g].latch = "shared" => OwnHot(g)'
    <3>1. \A g \in P!Frame : poolFrame[g].latch = "shared" => OwnHot(g)
      BY DEF PoolInv, LatchesKept
    <3> QED
      BY <1>3, <3>1
  <2>6. phase \notin {"flush", "done"} => \A u \in P!Thread : poolPc[u] = 0 /\ retry[u] = <<>>
    BY DEF PoolInv, LatchesKept
  <2>7. phase' = phase /\ retry' = retry /\ poolPc' = poolPc /\ phase \notin {"pages", "catalog"}
    BY <1>1, <1>2
  <2> QED
    BY ONLY <2>1, <2>2, <2>3, <2>4, <2>5, <2>6, <2>7 DEF LatchesKept
<1>6. FlushKept'
  <2>1. ASSUME NEW g \in P!Frame, OwnHot(g)', poolFrame'[g].dirty
        PROVE  OwnHot(g) /\ poolFrame[g].dirty
    BY <1>3, <2>1
  <2>2. (\A g \in P!Frame : (Ahead(g)' <=> Ahead(g)) /\ (ToRetry(g)' <=> ToRetry(g)) /\ (AtWriteBack(g)' <=> AtWriteBack(g)))
    BY <1>1 DEF Ahead, ToRetry, AtWriteBack
  <2>3. phase' = phase /\ stillLatched' = stillLatched
    BY <1>1
  <2>4. FlushKept
    BY DEF PoolInv
  <2> QED
    BY ONLY <2>1, <2>2, <2>3, <2>4 DEF FlushKept
<1> QED
  BY <1>3, <1>4, <1>5, <1>6 DEF PoolInv

-----------------------------------------------------------------------------
(* writeAllPages *)

(* writeAllPages gives every thread its block of frames. *)
LEMMA StartFlushKeeps ==
  ASSUME PoolInv, P!StartFlush
  PROVE  PoolInv'
<1>1. /\ phase = "serve" /\ phase' = "flush" /\ cursor' = [t \in P!Thread |-> t * P!Block(PoolFrames)]
      /\ UNCHANGED <<pageList, pidList, poolFrame, poolSsd, retry, poolPc, version, poolLast, stillLatched>>
  BY DEF P!StartFlush
<1>2. \A t \in P!Thread : cursor'[t] = Start(t, PoolFrames) /\ cursor'[t] \in Nat
  BY <1>1, BlockBounds, PoolAssumption DEF Start
<1>3. PoolTypes'
  <2>1. cursor' \in [P!Thread -> Nat]
    BY <1>1, <1>2
  <2> QED
    BY <1>1, <2>1 DEF PoolInv, PoolTypes
<1>4. ASSUME NEW f \in P!Frame PROVE Ahead(f)'
  <2>1. f - 1 \in 0..(PoolFrames - 1)
    BY PoolAssumption DEF P!Frame
  <2>2. PICK t \in P!Thread : InBlock(t, f - 1, PoolFrames)
    BY <2>1, BlocksCover, PoolAssumption
  <2> QED
    BY <1>2, <2>2 DEF InBlock, Ahead, P!BlockEnd, P!Block
<1>5. PagesPushed' /\ PagesOnce' /\ PidsOnce' /\ LastKept' /\ LatchesKept'
  BY <1>1 DEF PoolInv, PagesPushed, PagesOnce, PidsOnce, LastKept, LatchesKept, Hot, OwnHot
<1>6. FlushKept'
  BY <1>1, <1>4 DEF FlushKept
<1> QED
  BY <1>3, <1>5, <1>6 DEF PoolInv

(* All threads of writeAllPages have ended. *)
LEMMA EndFlushKeeps ==
  ASSUME PoolInv, P!EndFlush
  PROVE  PoolInv'
<1>1. /\ phase = "flush" /\ phase' = "done"
      /\ \A t \in P!Thread : cursor[t] = P!BlockEnd(t, PoolFrames) /\ retry[t] = <<>> /\ poolPc[t] = 0
      /\ UNCHANGED <<cursor, pageList, pidList, poolFrame, poolSsd, retry, poolPc, version, poolLast, stillLatched>>
  BY DEF P!EndFlush
<1>2. ASSUME NEW f \in P!Frame, OwnHot(f), poolFrame[f].dirty PROVE FALSE
  <2>1. Ahead(f) \/ ToRetry(f) \/ AtWriteBack(f)
    BY <1>1, <1>2 DEF PoolInv, FlushKept
  <2>2. ~ Ahead(f)
    <3> SUFFICES ASSUME NEW t \in P!Thread, cursor[t] <= f - 1, f - 1 < P!BlockEnd(t, PoolFrames) PROVE FALSE
      BY DEF Ahead
    <3>1. cursor[t] = P!BlockEnd(t, PoolFrames) /\ cursor[t] \in Nat /\ f - 1 \in Int
      BY <1>1 DEF PoolInv, PoolTypes, P!Frame
    <3> QED
      BY <3>1
  <2>3. ~ ToRetry(f)
    BY <1>1 DEF ToRetry
  <2>4. ~ AtWriteBack(f)
    BY <1>1 DEF AtWriteBack, P!Frame
  <2> QED
    BY <2>1, <2>2, <2>3, <2>4
<1>3. PoolTypes' /\ PagesPushed' /\ PagesOnce' /\ PidsOnce' /\ LastKept' /\ LatchesKept'
  BY <1>1 DEF PoolInv, PoolTypes, PagesPushed, PagesOnce, PidsOnce, LastKept, LatchesKept, Hot, OwnHot
<1>4. FlushKept'
  BY <1>1, <1>2 DEF FlushKept, OwnHot, Hot
<1> QED
  BY <1>3, <1>4 DEF PoolInv

(* pwrite and unlatch *)
LEMMA WriteBackKeeps ==
  ASSUME PoolInv, NEW t \in P!Thread, P!WriteBack(t)
  PROVE  PoolInv'
<1>1. PICK f : f = poolPc[t]
  OBVIOUS
<1>2. /\ phase = "flush" /\ f # 0
      /\ poolSsd' = (IF poolFrame[f].dirty THEN [poolSsd EXCEPT ![poolFrame[f].pid] = P!Written(f)] ELSE poolSsd)
      /\ poolFrame' = [poolFrame EXCEPT ![f].dirty = FALSE, ![f].latch = "no"] /\ poolPc' = [poolPc EXCEPT ![t] = 0]
      /\ UNCHANGED <<phase, cursor, pageList, pidList, retry, version, poolLast, stillLatched>>
  BY <1>1 DEF P!WriteBack
<1>3. f \in P!Frame /\ poolFrame[f].latch = "exclusive" /\ poolFrame[f].own
  BY <1>1, <1>2 DEF PoolInv, PoolTypes, LatchesKept
<1>4. OwnHot(f) \/ ~ poolFrame[f].dirty
  BY <1>3 DEF PoolInv, LatchesKept, OwnHot
<1>5. poolFrame' = [poolFrame EXCEPT ![f].latch = "no", ![f].dirty = FALSE]
  BY <1>2, <1>3 DEF PoolInv, PoolTypes, PoolFrameTypes
<1>6. poolSsd' = IF poolFrame[f].dirty \/ (OwnHot(f) /\ poolFrame[f].latch = "shared")
                 THEN [poolSsd EXCEPT ![poolFrame[f].pid] = P!Written(f)] ELSE poolSsd
  BY <1>2, <1>3
<1>7. /\ poolFrame' \in [P!Frame -> PoolFrameTypes] /\ poolSsd' \in [P!Pid -> [version : Nat, own : BOOLEAN]]
      /\ PagesPushed' /\ PagesOnce' /\ PidsOnce' /\ LastKept'
      /\ poolFrame'[f].latch = "no" /\ \A g \in P!Frame : g # f => poolFrame'[g].latch = poolFrame[g].latch
      /\ ~ poolFrame'[f].dirty
      /\ \A g \in P!Frame : /\ (Hot(g)' <=> Hot(g)) /\ (OwnHot(g)' <=> OwnHot(g))
                            /\ poolFrame'[g].own = poolFrame[g].own
                            /\ (g # f => poolFrame'[g].dirty = poolFrame[g].dirty)
  <2>1. UNCHANGED <<phase, pageList, pidList, poolLast>> /\ phase \notin {"pages", "catalog"}
    BY <1>2
  <2> QED
    BY <1>3, <1>4, <1>5, <1>6, <2>1, CleanKeeps
<1>8. /\ poolPc' \in [P!Thread -> P!Frame \cup {0}] /\ poolPc'[t] = 0
      /\ \A u \in P!Thread : u # t => poolPc'[u] = poolPc[u] /\ poolPc[u] # f
  BY <1>1, <1>2 DEF PoolInv, PoolTypes, LatchesKept
<1>9. PoolTypes'
  BY <1>2, <1>7, <1>8 DEF PoolInv, PoolTypes
<1>10. LatchesKept'
  <2>1. \A u \in P!Thread : poolPc'[u] # 0 => poolFrame'[poolPc'[u]].latch = "exclusive" /\ poolFrame'[poolPc'[u]].own
    <3> SUFFICES ASSUME NEW u \in P!Thread, poolPc'[u] # 0
                 PROVE  poolFrame'[poolPc'[u]].latch = "exclusive" /\ poolFrame'[poolPc'[u]].own
      OBVIOUS
    <3>1. u # t /\ poolPc'[u] = poolPc[u] /\ poolPc[u] # f
      BY <1>8
    <3>2. poolPc[u] \in P!Frame /\ poolFrame[poolPc[u]].latch = "exclusive" /\ poolFrame[poolPc[u]].own
      BY <3>1 DEF PoolInv, PoolTypes, LatchesKept
    <3> QED
      BY <1>7, <3>1, <3>2
  <2>2. \A u, w \in P!Thread : poolPc'[u] # 0 /\ poolPc'[u] = poolPc'[w] => u = w
    BY <1>8 DEF PoolInv, LatchesKept
  <2>3. \A u \in P!Thread : \A i \in 1..Len(retry[u]) : poolFrame'[retry[u][i]].own
    BY <1>7, RetryFrames DEF PoolInv
  <2>4. \A g \in P!Frame : ~ Hot(g)' => ~ poolFrame'[g].dirty /\ poolFrame'[g].own
    BY <1>7 DEF PoolInv, LatchesKept
  <2>5. \A g \in P!Frame : poolFrame'[g].latch = "shared" => OwnHot(g)'
    BY <1>7 DEF PoolInv, LatchesKept
  <2>6. phase' = "flush" /\ retry' = retry
    BY <1>2
  <2> QED
    BY ONLY <2>1, <2>2, <2>3, <2>4, <2>5, <2>6 DEF LatchesKept
<1>11. FlushKept'
  <2>1. ASSUME NEW g \in P!Frame, OwnHot(g)', poolFrame'[g].dirty PROVE Ahead(g)' \/ ToRetry(g)' \/ AtWriteBack(g)'
    <3>1. g # f /\ OwnHot(g) /\ poolFrame[g].dirty
      BY <1>7, <2>1
    <3>2. Ahead(g) \/ ToRetry(g) \/ AtWriteBack(g)
      BY <1>2, <3>1 DEF PoolInv, FlushKept
    <3>3. (Ahead(g)' <=> Ahead(g)) /\ (ToRetry(g)' <=> ToRetry(g))
      BY <1>2 DEF Ahead, ToRetry
    <3>4. AtWriteBack(g) => AtWriteBack(g)'
      BY <1>1, <1>8, <3>1 DEF AtWriteBack
    <3> QED
      BY <3>2, <3>3, <3>4
  <2>2. phase' = "flush"
    BY <1>2
  <2> QED
    BY ONLY <2>1, <2>2 DEF FlushKept
<1> QED
  BY <1>7, <1>9, <1>10, <1>11 DEF PoolInv

(* A thread of writeAllPages takes the latch of a frame of this node. *)
LEMMA TakeLatchKeeps ==
  ASSUME PoolInv, NEW t \in P!Thread, NEW f \in P!Frame, phase = "flush", poolPc[t] = 0,
         poolFrame[f].own, poolFrame[f].latch = "no",
         poolFrame' = [poolFrame EXCEPT ![f].latch = "exclusive"], poolPc' = [poolPc EXCEPT ![t] = f],
         UNCHANGED <<phase, pageList, pidList, poolSsd, version, poolLast, stillLatched>>,
         cursor' \in [P!Thread -> Nat], retry' \in [P!Thread -> Seq(P!Frame)],
         \A u \in P!Thread : \A i \in 1..Len(retry'[u]) : \E j \in 1..Len(retry[u]) : retry'[u][i] = retry[u][j],
         \A g \in P!Frame : g # f => (Ahead(g) => Ahead(g)') /\ (ToRetry(g) => ToRetry(g)')
  PROVE  PoolInv'
<1>1. /\ poolFrame' \in [P!Frame -> PoolFrameTypes] /\ PagesPushed' /\ PagesOnce' /\ PidsOnce' /\ LastKept'
      /\ poolFrame'[f].latch = "exclusive"
      /\ \A g \in P!Frame : g # f => poolFrame'[g].latch = poolFrame[g].latch
      /\ \A g \in P!Frame : /\ (Hot(g)' <=> Hot(g)) /\ (OwnHot(g)' <=> OwnHot(g))
                            /\ poolFrame'[g].own = poolFrame[g].own /\ poolFrame'[g].dirty = poolFrame[g].dirty
  <2>1. /\ UNCHANGED <<pageList, pidList, poolSsd, poolLast>> /\ phase \notin {"pages", "catalog"}
        /\ phase' \notin {"pages", "catalog"}
    OBVIOUS
  <2> QED
    BY <2>1, LatchKeeps
<1>2. /\ poolPc' \in [P!Thread -> P!Frame \cup {0}] /\ poolPc'[t] = f /\ f # 0
      /\ \A u \in P!Thread : u # t => poolPc'[u] = poolPc[u]
  BY DEF PoolInv, PoolTypes, P!Frame
<1>3. \A u \in P!Thread : poolPc[u] # 0 =>
        poolPc[u] \in P!Frame /\ poolFrame[poolPc[u]].latch = "exclusive" /\ poolFrame[poolPc[u]].own /\ poolPc[u] # f
  BY DEF PoolInv, PoolTypes, LatchesKept
<1>4. PoolTypes'
  BY <1>1, <1>2 DEF PoolInv, PoolTypes
<1>5. LatchesKept'
  <2>1. \A u \in P!Thread : poolPc'[u] # 0 => poolFrame'[poolPc'[u]].latch = "exclusive" /\ poolFrame'[poolPc'[u]].own
    <3> SUFFICES ASSUME NEW u \in P!Thread, poolPc'[u] # 0
                 PROVE  poolFrame'[poolPc'[u]].latch = "exclusive" /\ poolFrame'[poolPc'[u]].own
      OBVIOUS
    <3>1. CASE u = t
      BY <1>1, <1>2, <3>1
    <3>2. CASE u # t
      BY <1>1, <1>2, <1>3, <3>2
    <3> QED
      BY <3>1, <3>2
  <2>2. \A u, w \in P!Thread : poolPc[u] # 0 /\ poolPc[u] = poolPc[w] => u = w
    BY DEF PoolInv, LatchesKept
  <2>3. \A u, w \in P!Thread : poolPc'[u] # 0 /\ poolPc'[u] = poolPc'[w] => u = w
    BY <1>2, <1>3, <2>2
  <2>4. \A u \in P!Thread : \A i \in 1..Len(retry'[u]) : poolFrame'[retry'[u][i]].own
    BY <1>1, RetryFrames
  <2>5. \A g \in P!Frame : ~ Hot(g) => ~ poolFrame[g].dirty /\ poolFrame[g].own
    BY DEF PoolInv, LatchesKept
  <2>6. \A g \in P!Frame : ~ Hot(g)' => ~ poolFrame'[g].dirty /\ poolFrame'[g].own
    BY <1>1, <2>5
  <2>7. \A g \in P!Frame : poolFrame[g].latch = "shared" => OwnHot(g)
    BY DEF PoolInv, LatchesKept
  <2>8. \A g \in P!Frame : poolFrame'[g].latch = "shared" => OwnHot(g)'
    <3> SUFFICES ASSUME NEW g \in P!Frame, poolFrame'[g].latch = "shared" PROVE OwnHot(g)'
      OBVIOUS
    <3>1. g # f
      BY <1>1
    <3> QED
      BY <1>1, <2>7, <3>1
  <2>9. phase' = "flush"
    OBVIOUS
  <2> QED
    BY ONLY <2>1, <2>3, <2>4, <2>6, <2>8, <2>9 DEF LatchesKept
<1>6. FlushKept'
  <2>1. ASSUME NEW g \in P!Frame, OwnHot(g)', poolFrame'[g].dirty PROVE Ahead(g)' \/ ToRetry(g)' \/ AtWriteBack(g)'
    <3>1. CASE g = f
      BY <1>2, <3>1 DEF AtWriteBack
    <3>2. CASE g # f
      <4>1. Ahead(g) \/ ToRetry(g) \/ AtWriteBack(g)
        BY <1>1, <2>1 DEF PoolInv, FlushKept
      <4>2. AtWriteBack(g) => AtWriteBack(g)'
        BY <1>2 DEF AtWriteBack, P!Frame
      <4> QED
        BY <3>2, <4>1, <4>2
    <3> QED
      BY <3>1, <3>2
  <2>2. phase' = "flush"
    OBVIOUS
  <2> QED
    BY ONLY <2>1, <2>2 DEF FlushKept
<1> QED
  BY <1>1, <1>4, <1>5, <1>6 DEF PoolInv

(* The first loop of writeAllPages *)
LEMMA TryLatchKeeps ==
  ASSUME PoolInv, NEW t \in P!Thread, P!TryLatch(t)
  PROVE  PoolInv'
<1>1. PICK f : f = cursor[t] + 1
  OBVIOUS
<1>2. /\ phase = "flush" /\ poolPc[t] = 0 /\ cursor[t] < P!BlockEnd(t, PoolFrames)
      /\ cursor' = [cursor EXCEPT ![t] = @ + 1]
      /\ UNCHANGED <<phase, pageList, pidList, poolSsd, version, poolLast, stillLatched>>
      /\ \/ /\ poolFrame[f].own /\ poolFrame[f].latch = "no" /\ poolPc' = [poolPc EXCEPT ![t] = f]
            /\ poolFrame' = [poolFrame EXCEPT ![f].latch = "exclusive"] /\ retry' = retry
         \/ /\ OwnHot(f) /\ retry' = [retry EXCEPT ![t] = Append(@, f)] /\ UNCHANGED <<poolFrame, poolPc>>
         \/ /\ ~ OwnHot(f) /\ retry' = [retry EXCEPT ![t] = @] /\ UNCHANGED <<poolFrame, poolPc>>
  BY <1>1 DEF P!TryLatch, P!AtFrame, OwnHot, Hot
<1>3. cursor[t] \in Nat /\ P!BlockEnd(t, PoolFrames) \in Nat /\ P!BlockEnd(t, PoolFrames) <= PoolFrames
  BY BlockBounds, PoolAssumption DEF PoolInv, PoolTypes
<1>4. f \in P!Frame
  BY <1>1, <1>2, <1>3, PoolAssumption DEF P!Frame
<1>5. /\ cursor' \in [P!Thread -> Nat] /\ cursor'[t] = cursor[t] + 1
      /\ \A u \in P!Thread : u # t => cursor'[u] = cursor[u]
  BY <1>2, <1>3 DEF PoolInv, PoolTypes
<1>6. retry \in [P!Thread -> Seq(P!Frame)]
  BY DEF PoolInv, PoolTypes
<1>7. ASSUME NEW g \in P!Frame, g # f, Ahead(g) PROVE Ahead(g)'
  <2>1. PICK u \in P!Thread : cursor[u] <= g - 1 /\ g - 1 < P!BlockEnd(u, PoolFrames)
    BY <1>7 DEF Ahead
  <2>2. cursor'[u] <= g - 1
    <3>1. CASE u = t
      BY <1>1, <1>3, <1>5, <1>7, <2>1, <3>1 DEF P!Frame
    <3>2. CASE u # t
      BY <1>5, <2>1, <3>2
    <3> QED
      BY <3>1, <3>2
  <2> QED
    BY <2>1, <2>2 DEF Ahead, P!BlockEnd, P!Block
<1>8. CASE /\ poolFrame[f].own /\ poolFrame[f].latch = "no" /\ poolPc' = [poolPc EXCEPT ![t] = f]
           /\ poolFrame' = [poolFrame EXCEPT ![f].latch = "exclusive"] /\ retry' = retry
  <2>1. \A u \in P!Thread : \A i \in 1..Len(retry'[u]) : \E j \in 1..Len(retry[u]) : retry'[u][i] = retry[u][j]
    BY <1>8
  <2>2. \A g \in P!Frame : g # f => (Ahead(g) => Ahead(g)') /\ (ToRetry(g) => ToRetry(g)')
    BY <1>7, <1>8 DEF ToRetry
  <2>3. retry' \in [P!Thread -> Seq(P!Frame)]
    BY <1>6, <1>8
  <2> QED
    BY <1>2, <1>4, <1>5, <1>8, <2>1, <2>2, <2>3, TakeLatchKeeps
<1>9. CASE /\ UNCHANGED <<poolFrame, poolPc>>
           /\ \/ OwnHot(f) /\ retry' = [retry EXCEPT ![t] = Append(@, f)]
              \/ ~ OwnHot(f) /\ retry' = [retry EXCEPT ![t] = @]
  <2>1. /\ retry' \in [P!Thread -> Seq(P!Frame)] /\ \A u \in P!Thread : u # t => retry'[u] = retry[u]
        /\ \/ OwnHot(f) /\ retry'[t] = Append(retry[t], f)
           \/ ~ OwnHot(f) /\ retry'[t] = retry[t]
    <3>1. CASE OwnHot(f) /\ retry' = [retry EXCEPT ![t] = Append(@, f)]
      <4>1. Append(retry[t], f) \in Seq(P!Frame) /\ retry' = [retry EXCEPT ![t] = Append(retry[t], f)]
        BY <1>4, <1>6, <3>1
      <4> QED
        BY <1>6, <3>1, <4>1
    <3>2. CASE ~ OwnHot(f) /\ retry' = [retry EXCEPT ![t] = @]
      BY <1>6, <3>2
    <3> QED
      BY <1>9, <3>1, <3>2
  <2>2. \A g \in P!Frame : ToRetry(g) => ToRetry(g)'
    <3> SUFFICES ASSUME NEW g \in P!Frame, NEW u \in P!Thread, NEW i \in 1..Len(retry[u]), retry[u][i] = g PROVE ToRetry(g)'
      BY DEF ToRetry
    <3>1. retry[u] \in Seq(P!Frame) /\ retry[t] \in Seq(P!Frame)
      BY <1>6
    <3>2. i \in 1..Len(retry'[u]) /\ retry'[u][i] = g
      <4>1. CASE u = t
        <5>1. CASE retry'[t] = retry[t]
          BY <4>1, <5>1
        <5>2. CASE retry'[t] = Append(retry[t], f)
          BY <1>4, <3>1, <4>1, <5>2
        <5> QED
          BY <2>1, <5>1, <5>2
      <4>2. CASE u # t
        BY <2>1, <4>2
      <4> QED
        BY <4>1, <4>2
    <3> QED
      BY <3>2 DEF ToRetry
  <2>3. OwnHot(f) => ToRetry(f)'
    <3> SUFFICES ASSUME OwnHot(f) PROVE ToRetry(f)'
      OBVIOUS
    <3>1. retry'[t] = Append(retry[t], f) /\ retry[t] \in Seq(P!Frame)
      BY <1>6, <2>1
    <3>2. Len(retry'[t]) \in 1..Len(retry'[t]) /\ retry'[t][Len(retry'[t])] = f
      BY <1>4, <3>1
    <3> QED
      BY <3>2 DEF ToRetry
  <2>4. \A u \in P!Thread : \A i \in 1..Len(retry'[u]) : poolFrame[retry'[u][i]].own
    <3> SUFFICES ASSUME NEW u \in P!Thread, NEW i \in 1..Len(retry'[u]) PROVE poolFrame[retry'[u][i]].own
      OBVIOUS
    <3>1. CASE u # t
      BY <2>1, <3>1, RetryFrames
    <3>2. CASE u = t /\ retry'[t] = retry[t]
      BY <3>2, RetryFrames
    <3>3. CASE u = t /\ OwnHot(f) /\ retry'[t] = Append(retry[t], f)
      <4>1. retry[t] \in Seq(P!Frame)
        BY <1>6
      <4>2. i \in 1..Len(retry[t]) \/ retry'[t][i] = f
        BY <1>4, <3>3, <4>1
      <4>3. i \in 1..Len(retry[t]) => retry'[t][i] = retry[t][i]
        BY <1>4, <3>3, <4>1
      <4> QED
        BY <3>3, <4>2, <4>3, RetryFrames DEF OwnHot
    <3> QED
      BY <2>1, <3>1, <3>2, <3>3
  <2>5. PoolTypes'
    BY <1>2, <1>5, <1>9, <2>1 DEF PoolInv, PoolTypes
  <2>6. phase = "flush" /\ phase' = "flush" /\ UNCHANGED <<pageList, pidList, poolFrame, poolSsd, poolPc, poolLast>>
    BY <1>2, <1>9
  <2>7. PagesPushed' /\ PagesOnce' /\ PidsOnce' /\ LastKept'
    BY <2>6 DEF PoolInv, PagesPushed, PagesOnce, PidsOnce, LastKept, Hot, OwnHot
  <2>8. LatchesKept'
    BY <2>4, <2>6 DEF PoolInv, LatchesKept, Hot, OwnHot
  <2>9. FlushKept'
    <3>1. ASSUME NEW g \in P!Frame, OwnHot(g)', poolFrame'[g].dirty
          PROVE  Ahead(g)' \/ ToRetry(g)' \/ AtWriteBack(g)'
      <4>1. OwnHot(g) /\ poolFrame[g].dirty
        BY <2>6, <3>1 DEF OwnHot, Hot
      <4>2. Ahead(g) \/ ToRetry(g) \/ AtWriteBack(g)
        BY <2>6, <4>1 DEF PoolInv, FlushKept
      <4>3. AtWriteBack(g) => AtWriteBack(g)'
        BY <2>6 DEF AtWriteBack
      <4> QED
        BY <1>7, <2>2, <2>3, <4>1, <4>2, <4>3
    <3> QED
      BY ONLY <2>6, <3>1 DEF FlushKept
  <2> QED
    BY <2>5, <2>7, <2>8, <2>9 DEF PoolInv
<1> QED
  BY <1>2, <1>8, <1>9

(* The second loop of writeAllPages *)
LEMMA RetryKeeps ==
  ASSUME PoolInv, NEW t \in P!Thread, P!Retry(t)
  PROVE  PoolInv'
<1>1. PICK f : f = Head(retry[t])
  OBVIOUS
<1>2. /\ phase = "flush" /\ poolPc[t] = 0 /\ retry[t] # <<>> /\ retry' = [retry EXCEPT ![t] = Tail(@)]
      /\ UNCHANGED <<cursor, pageList, pidList, poolSsd, version, poolLast>>
      /\ \/ /\ poolFrame[f].latch = "no" /\ poolPc' = [poolPc EXCEPT ![t] = f]
            /\ poolFrame' = [poolFrame EXCEPT ![f].latch = "exclusive"] /\ UNCHANGED <<phase, stillLatched>>
         \/ /\ stillLatched' = TRUE /\ phase' = "done" /\ UNCHANGED <<poolFrame, poolPc>>
  BY <1>1 DEF P!Retry
<1>3. retry \in [P!Thread -> Seq(P!Frame)] /\ retry[t] \in Seq(P!Frame) /\ cursor \in [P!Thread -> Nat]
  BY DEF PoolInv, PoolTypes
<1>4. /\ 1 \in 1..Len(retry[t]) /\ f = retry[t][1] /\ Tail(retry[t]) \in Seq(P!Frame)
      /\ Len(Tail(retry[t])) = Len(retry[t]) - 1
      /\ \A i \in 1..Len(Tail(retry[t])) : Tail(retry[t])[i] = retry[t][i + 1]
  BY <1>1, <1>2, <1>3
<1>5. f \in P!Frame /\ poolFrame[f].own
  BY <1>4, RetryFrames
<1>6. /\ retry' \in [P!Thread -> Seq(P!Frame)] /\ retry'[t] = Tail(retry[t])
      /\ \A u \in P!Thread : u # t => retry'[u] = retry[u]
  BY <1>2, <1>3, <1>4
<1>7. \A u \in P!Thread : \A i \in 1..Len(retry'[u]) : \E j \in 1..Len(retry[u]) : retry'[u][i] = retry[u][j]
  <2> SUFFICES ASSUME NEW u \in P!Thread, NEW i \in 1..Len(retry'[u]) PROVE \E j \in 1..Len(retry[u]) : retry'[u][i] = retry[u][j]
    OBVIOUS
  <2>1. CASE u = t
    <3>1. i + 1 \in 1..Len(retry[t]) /\ retry'[t][i] = retry[t][i + 1]
      BY <1>3, <1>4, <1>6, <2>1
    <3> QED
      BY <2>1, <3>1
  <2>2. CASE u # t
    BY <1>6, <2>2
  <2> QED
    BY <2>1, <2>2
<1>8. CASE /\ poolFrame[f].latch = "no" /\ poolPc' = [poolPc EXCEPT ![t] = f]
           /\ poolFrame' = [poolFrame EXCEPT ![f].latch = "exclusive"] /\ UNCHANGED <<phase, stillLatched>>
  <2>1. ASSUME NEW g \in P!Frame, g # f, ToRetry(g) PROVE ToRetry(g)'
    <3>1. PICK u \in P!Thread : \E i \in 1..Len(retry[u]) : retry[u][i] = g
      BY <2>1 DEF ToRetry
    <3>0. PICK i \in 1..Len(retry[u]) : retry[u][i] = g
      BY <3>1
    <3>2. CASE u = t
      <4>1. i # 1
        BY <1>4, <2>1, <3>0, <3>2
      <4>2. PICK j \in 1..Len(Tail(retry[t])) : i = j + 1
        BY <1>3, <1>4, <3>0, <3>2, <4>1
      <4>3. retry'[t][j] = g /\ j \in 1..Len(retry'[t])
        BY <1>4, <1>6, <3>0, <3>2, <4>2
      <4> QED
        BY <4>3 DEF ToRetry
    <3>3. CASE u # t
      BY <1>6, <3>0, <3>3 DEF ToRetry
    <3> QED
      BY <3>2, <3>3
  <2>2. \A g \in P!Frame : Ahead(g) => Ahead(g)'
    BY <1>2 DEF Ahead, P!BlockEnd, P!Block
  <2>3. \A g \in P!Frame : g # f => (Ahead(g) => Ahead(g)') /\ (ToRetry(g) => ToRetry(g)')
    BY <2>1, <2>2
  <2>4. cursor' \in [P!Thread -> Nat]
    BY <1>2, <1>3
  <2> QED
    BY <1>2, <1>5, <1>6, <1>7, <1>8, <2>3, <2>4, TakeLatchKeeps
<1>9. CASE stillLatched' = TRUE /\ phase' = "done" /\ UNCHANGED <<poolFrame, poolPc>>
  <2>1. PoolTypes'
    BY <1>2, <1>6, <1>9 DEF PoolInv, PoolTypes
  <2>2. phase = "flush" /\ phase' = "done" /\ UNCHANGED <<pageList, pidList, poolFrame, poolSsd, poolPc, poolLast>>
    BY <1>2, <1>9
  <2>3. PagesPushed' /\ PagesOnce' /\ PidsOnce' /\ LastKept'
    BY <2>2 DEF PoolInv, PagesPushed, PagesOnce, PidsOnce, LastKept, Hot, OwnHot
  <2>4. \A u \in P!Thread : \A i \in 1..Len(retry'[u]) : poolFrame[retry'[u][i]].own
    BY <1>7, RetryFrames
  <2>5. LatchesKept'
    BY <2>2, <2>4 DEF PoolInv, LatchesKept, Hot, OwnHot
  <2>6. FlushKept'
    BY <1>9 DEF FlushKept
  <2> QED
    BY <2>1, <2>3, <2>5, <2>6 DEF PoolInv
<1> QED
  BY <1>2, <1>8, <1>9

(* Every step keeps the invariant of the buffer pool. *)
LEMMA PoolStep == PoolInv /\ [P!Next]_poolVars => PoolInv'
<1> SUFFICES ASSUME PoolInv, [P!Next]_poolVars PROVE PoolInv'
  OBVIOUS
<1>1. CASE P!PushPids \/ P!StartFlush \/ P!EndFlush
  BY <1>1, PushPidsKeeps, StartFlushKeeps, EndFlushKeeps
<1>2. ASSUME NEW t \in P!Thread, P!PushPage(t) \/ P!TryLatch(t) \/ P!WriteBack(t) \/ P!Retry(t)
      PROVE  PoolInv'
  BY <1>2, PushPageKeeps, TryLatchKeeps, WriteBackKeeps, RetryKeeps
<1>3. ASSUME NEW f \in P!Frame, P!WritePage(f) \/ P!ReclaimPage(f) \/ P!StartWrite(f) \/ P!FinishWrite(f) \/ P!Evict(f)
      PROVE  PoolInv'
  BY <1>3, WritePageKeeps, ReclaimPageKeeps, StartWriteKeeps, FinishWriteKeeps, EvictPageKeeps
<1>4. ASSUME NEW f \in P!Frame, NEW p \in P!Page, P!CreateCatalogPage(f, p) PROVE PoolInv'
  BY <1>4, CatalogKeeps
<1>5. ASSUME NEW f \in P!Frame, NEW p \in P!Page, NEW pid \in P!Pid \ {0},
             P!NewPage(f, p, pid) \/ P!NewRemotePage(f, p, pid)
      PROVE  PoolInv'
  BY <1>5, NewPageKeeps, NewRemotePageKeeps
<1>6. ASSUME NEW f \in P!Frame, NEW p \in P!Page, NEW pid \in P!Pid, P!LoadPage(f, p, pid) PROVE PoolInv'
  BY <1>6, LoadPageKeeps
<1>7. CASE UNCHANGED poolVars
  BY <1>7 DEF poolVars, PoolInv, PoolTypes, PagesPushed, PagesOnce, PidsOnce, LastKept, LatchesKept, FlushKept,
              Hot, OwnHot, Ahead, ToRetry, AtWriteBack
<1> QED
  BY <1>1, <1>2, <1>3, <1>4, <1>5, <1>6, <1>7 DEF P!Next

-----------------------------------------------------------------------------
(* The free lists *)

(* a sequence without repetition *)
Distinct(q) == \A i, j \in 1..Len(q) : q[i] = q[j] => i = j

(* A batch is put in front of a list, *)
LEMMA InFront ==
  ASSUME NEW X, NEW q \in Seq(X), NEW b \in X, Distinct(q), b \notin Elems(q)
  PROVE  <<b>> \o q \in Seq(X) /\ Distinct(<<b>> \o q) /\ Elems(<<b>> \o q) = Elems(q) \cup {b}
<1> DEFINE new == <<b>> \o q
<1>1. /\ new \in Seq(X) /\ Len(new) = Len(q) + 1 /\ new[1] = b /\ Len(q) \in Nat
      /\ \A i \in 1..Len(q) : new[i + 1] = q[i]
  OBVIOUS
<1> HIDE DEF new
<1>2. \A i \in 1..Len(new) : i = 1 \/ \E j \in 1..Len(q) : i = j + 1
  <2> SUFFICES ASSUME NEW i \in 1..Len(new), i # 1 PROVE i - 1 \in 1..Len(q) /\ i = (i - 1) + 1
    OBVIOUS
  <2> QED
    BY <1>1
<1>3. \A j \in 1..Len(q) : q[j] # b /\ j + 1 \in 1..Len(new) /\ 1 \in 1..Len(new)
  BY <1>1 DEF Elems
<1>4. 1 \in 1..Len(new)
  BY <1>1
<1>5. Distinct(new)
  <2> SUFFICES ASSUME NEW i \in 1..Len(new), NEW j \in 1..Len(new), new[i] = new[j] PROVE i = j
    BY DEF Distinct
  <2>1. ASSUME NEW k \in 1..Len(q) PROVE new[k + 1] # new[1]
    BY <1>1, <1>3
  <2>3. CASE i = 1 \/ j = 1
    BY <1>2, <2>1, <2>3
  <2>2. CASE i # 1 /\ j # 1
    <3>1. PICK k \in 1..Len(q), l \in 1..Len(q) : i = k + 1 /\ j = l + 1
      BY <1>2, <2>2
    <3>2. q[k] = q[l]
      BY <1>1, <3>1
    <3> QED
      BY <3>1, <3>2 DEF Distinct
  <2> QED
    BY <2>2, <2>3
<1>6. Elems(new) = Elems(q) \cup {b}
  <2>1. ASSUME NEW x \in Elems(new) PROVE x \in Elems(q) \cup {b}
    <3>1. PICK i \in 1..Len(new) : x = new[i]
      BY DEF Elems
    <3>2. CASE i = 1
      BY <1>1, <3>1, <3>2
    <3>3. CASE i # 1
      BY <1>1, <1>2, <3>1, <3>3 DEF Elems
    <3> QED
      BY <3>2, <3>3
  <2>2. ASSUME NEW x \in Elems(q) PROVE x \in Elems(new)
    BY <1>1, <1>3 DEF Elems
  <2>3. b \in Elems(new)
    BY <1>1, <1>4 DEF Elems
  <2> QED
    BY <2>1, <2>2, <2>3
<1> QED
  BY <1>1, <1>5, <1>6 DEF new

(* and taken from there. *)
LEMMA FromFront ==
  ASSUME NEW X, NEW q \in Seq(X), Distinct(q), q # <<>>
  PROVE  /\ Head(q) \in X /\ Tail(q) \in Seq(X) /\ Distinct(Tail(q)) /\ Head(q) \in Elems(q)
         /\ Elems(Tail(q)) = Elems(q) \ {Head(q)}
<1> DEFINE new == Tail(q)
<1>1. /\ new \in Seq(X) /\ Len(new) = Len(q) - 1 /\ Head(q) = q[1] /\ Len(q) \in Nat \ {0}
      /\ \A i \in 1..(Len(q) - 1) : new[i] = q[i + 1]
  OBVIOUS
<1> HIDE DEF new
<1>2. 1 \in 1..Len(q) /\ \A i \in 1..Len(q) : i = 1 \/ \E j \in 1..Len(new) : i = j + 1
  <2> SUFFICES ASSUME NEW i \in 1..Len(q), i # 1 PROVE i - 1 \in 1..Len(new) /\ i = (i - 1) + 1
    BY <1>1
  <2> QED
    BY <1>1
<1>3. \A j \in 1..Len(new) : j + 1 \in 1..Len(q) /\ j + 1 # 1 /\ new[j] = q[j + 1]
  BY <1>1
<1>4. Distinct(new)
  <2> SUFFICES ASSUME NEW i \in 1..Len(new), NEW j \in 1..Len(new), new[i] = new[j] PROVE i = j
    BY DEF Distinct
  <2>1. i + 1 = j + 1
    BY <1>3 DEF Distinct
  <2> QED
    BY <2>1, <1>1
<1>5. Elems(new) = Elems(q) \ {Head(q)}
  <2>1. ASSUME NEW x \in Elems(new) PROVE x \in Elems(q) \ {Head(q)}
    <3>1. PICK j \in 1..Len(new) : x = new[j]
      BY DEF Elems
    <3>2. q[j + 1] # q[1]
      BY <1>2, <1>3 DEF Distinct
    <3> QED
      BY <1>1, <1>3, <3>1, <3>2 DEF Elems
  <2>2. ASSUME NEW x \in Elems(q) \ {Head(q)} PROVE x \in Elems(new)
    <3>1. PICK i \in 1..Len(q) : x = q[i]
      BY DEF Elems
    <3>2. i # 1
      BY <1>1, <3>1
    <3> QED
      BY <1>2, <1>3, <3>1, <3>2 DEF Elems
  <2> QED
    BY <2>1, <2>2
<1>6. Head(q) \in Elems(q) /\ Head(q) \in X
  BY <1>1, <1>2 DEF Elems
<1> QED
  BY <1>1, <1>4, <1>5, <1>6 DEF new

-----------------------------------------------------------------------------
(* the type of the free lists' state *)
Ops == [pc : {"rest", "push", "pushMore", "pushScan", "pop", "popMore", "popScan"},
        e : Element \cup {Nobody}, scan : Nat]
BatchTypes ==
  /\ content \in [F!Batch -> Seq(Element)] /\ \A b \in F!Batch : Len(content[b]) <= BatchSize
  /\ elements \in [F!Partition -> Nat] /\ handle \in [ListThread -> F!Batch \cup {Nobody}] /\ exits \in Nat

(* Between two calls a thread has no element, and no batch while it looks for one. *)
OpsKept ==
  /\ op \in [ListThread -> Ops] /\ out \subseteq Element
  /\ \A t \in ListThread : op[t].e # Nobody <=> op[t].pc \in {"push", "pushMore", "pushScan"}
  /\ \A t \in ListThread : op[t].pc \in {"pushMore", "pushScan", "popMore", "popScan"} => handle[t] = Nobody
  /\ \A t \in ListThread : op[t].pc \in {"pushScan", "popScan"} => op[t].scan \in F!Partition

(* A list has batches of its partition, each once. *)
Proper(list) ==
  /\ list \in [F!Partition -> Seq(F!Batch)]
  /\ \A p \in F!Partition : Distinct(list[p]) /\ \A b \in Elems(list[p]) : F!Queue(b) = p

(* where a batch can be *)
Listed(list, b) == b \in Elems(list[F!Queue(b)])
Held(b) == \E t \in ListThread : handle[t] = b

(* A batch is in one place, and full or empty where it should be. *)
BatchKept(b) ==
  /\ ~ (Listed(full, b) /\ Listed(empty, b)) /\ (Held(b) => ~ Listed(full, b) /\ ~ Listed(empty, b))
  /\ Listed(full, b) \/ Listed(empty, b) \/ Held(b)
  /\ Listed(full, b) => content[b] # <<>> /\ (exits = 0 => Len(content[b]) = BatchSize)
  /\ Listed(empty, b) => content[b] = <<>>
HandlesApart == \A t, u \in ListThread : handle[t] = handle[u] /\ handle[t] # Nobody => t = u

(* places in the full batches of a partition *)
CellsOf(A, c) == {x \in A \X (1..BatchSize) : x[2] <= Len(c[x[1]])}
Cells(p) == CellsOf(Elems(full[p]), content)
CountKept == \A p \in F!Partition : IsFiniteSet(Cells(p)) /\ elements[p] = Cardinality(Cells(p))

BatchesKept == Proper(full) /\ Proper(empty) /\ (\A b \in F!Batch : BatchKept(b)) /\ HandlesApart /\ CountKept

(* An element is in one place. *)
InBatch(e) == \E b \in F!Batch : \E i \in 1..Len(content[b]) : content[b][i] = e
Pushing(e) == \E t \in ListThread : op[t].e = e
ElementKept(e) ==
  /\ e \in out \/ Pushing(e) \/ InBatch(e)
  /\ e \in out => ~ Pushing(e) /\ ~ InBatch(e)
  /\ Pushing(e) => ~ InBatch(e)
OpsApart == \A t, u \in ListThread : op[t].e = op[u].e /\ op[t].e # Nobody => t = u
ContentApart ==
  \A b, c \in F!Batch : \A i \in 1..Len(content[b]), j \in 1..Len(content[c]) :
    content[b][i] = content[c][j] => b = c /\ i = j
ElementsKept == (\A e \in Element : ElementKept(e)) /\ OpsApart /\ ContentApart

ListInv == BatchTypes /\ OpsKept /\ BatchesKept /\ ElementsKept

(* A batch knows its partition. *)
LEMMA BatchParts == \A b \in F!Batch : F!Queue(b) \in F!Partition
BY DEF F!Batch, F!Queue

(* All batches are empty, all elements still to be pushed. *)
LEMMA ListInit == F!Init => ListInv
<1> SUFFICES ASSUME F!Init PROVE ListInv
  OBVIOUS
<1>1. /\ content = [b \in F!Batch |-> <<>>] /\ full = [p \in F!Partition |-> <<>>]
      /\ empty = [p \in F!Partition |-> [i \in 1..Batches |-> <<p, i>>]] /\ elements = [p \in F!Partition |-> 0]
      /\ handle = [t \in ListThread |-> Nobody] /\ out = Element /\ op = [t \in ListThread |-> F!Rest] /\ exits = 0
  BY DEF F!Init
<1>2. /\ F!Rest \in Ops /\ F!Rest.e = Nobody /\ F!Rest.pc = "rest"
  BY DEF F!Rest, Ops
<1>3. \A b \in F!Batch : content[b] = <<>> /\ Len(content[b]) = 0
  BY <1>1
<1>4. BatchTypes
  <2>1. content \in [F!Batch -> Seq(Element)] /\ elements \in [F!Partition -> Nat] /\ handle \in [ListThread -> F!Batch \cup {Nobody}]
    BY <1>1
  <2> QED
    BY <1>1, <1>3, <2>1, ListAssumption DEF BatchTypes
<1>5. OpsKept
  BY <1>1, <1>2 DEF OpsKept
<1>6. Proper(full) /\ \A p \in F!Partition : Elems(full[p]) = {}
  BY <1>1 DEF Proper, Distinct, Elems
<1>7. ASSUME NEW p \in F!Partition
      PROVE  /\ empty[p] \in Seq(F!Batch) /\ Len(empty[p]) = Batches /\ \A i \in 1..Batches : empty[p][i] = <<p, i>>
  BY <1>1, ListAssumption DEF F!Batch
<1>8. Proper(empty)
  <2>1. empty \in [F!Partition -> Seq(F!Batch)]
    BY <1>1, <1>7
  <2>2. \A p \in F!Partition : Distinct(empty[p]) /\ \A b \in Elems(empty[p]) : F!Queue(b) = p
    BY <1>7 DEF Distinct, Elems, F!Queue
  <2> QED
    BY <2>1, <2>2 DEF Proper
<1>9. ASSUME NEW b \in F!Batch PROVE BatchKept(b)
  <2>1. PICK p \in F!Partition, i \in 1..Batches : b = <<p, i>>
    BY DEF F!Batch
  <2>2. F!Queue(b) = p
    BY <2>1 DEF F!Queue
  <2>3. Listed(empty, b)
    BY <1>7, <2>1, <2>2 DEF Listed, Elems
  <2>4. ~ Listed(full, b)
    BY <1>6, <2>2 DEF Listed
  <2>5. ~ Held(b)
    BY <1>1, ListAssumption DEF Held
  <2> QED
    BY <1>3, <2>3, <2>4, <2>5 DEF BatchKept
<1>10. HandlesApart
  BY <1>1 DEF HandlesApart
<1>11. CountKept
  <2> SUFFICES ASSUME NEW p \in F!Partition PROVE IsFiniteSet(Cells(p)) /\ elements[p] = Cardinality(Cells(p))
    BY DEF CountKept
  <2>1. Cells(p) = {}
    BY <1>6 DEF Cells, CellsOf
  <2> QED
    BY <1>1, <2>1, FS_EmptySet
<1>12. \A e \in Element : ElementKept(e)
  BY <1>1, <1>2, <1>3, ListAssumption DEF ElementKept, Pushing, InBatch
<1>13. OpsApart /\ ContentApart
  BY <1>1, <1>2, <1>3 DEF OpsApart, ContentApart
<1> QED
  BY <1>4, <1>5, <1>6, <1>8, <1>9, <1>10, <1>11, <1>12, <1>13 DEF ListInv, BatchesKept, ElementsKept

-----------------------------------------------------------------------------
(* What the properties say *)

(* A set with at most one member is counted by whether it has one. *)
LEMMA AtMostOne ==
  ASSUME NEW A, \A x, y \in A : x = y
  PROVE  F!Cardinality(A) = IF A = {} THEN 0 ELSE 1
<1>1. F!Cardinality(A) = Cardinality(A)
  BY DEF F!Cardinality, Cardinality
<1>2. CASE A = {}
  BY <1>1, <1>2, FS_EmptySet
<1>3. CASE A # {}
  <2>1. PICK x : A = {x}
    BY <1>3
  <2> QED
    BY <1>1, <1>3, <2>1, FS_Singleton
<1> QED
  BY <1>2, <1>3

(* A list is not longer than its partition has batches. *)
LEMMA ListBound ==
  ASSUME NEW list, Proper(list), NEW p \in F!Partition
  PROVE  Len(list[p]) <= Batches /\ Len(list[p]) \in Nat
<1>1. PICK q \in Seq(F!Batch) : q = list[p]
  BY DEF Proper
<1>2. Distinct(q) /\ \A b \in Elems(q) : b \in F!Batch /\ F!Queue(b) = p
  BY <1>1 DEF Proper, Elems
<1>3. Len(q) \in Nat /\ q \in [1..Len(q) -> Elems(q)]
  BY DEF Elems
<1>4. Counts(q, 1, Len(q), Elems(q))
  BY <1>2, <1>3 DEF Counts, Distinct, Elems
<1>5. IsFiniteSet(Elems(q)) /\ Cardinality(Elems(q)) = Len(q) - 1 + 1
  BY <1>4, Counted, Zenon
<1>6. IsFiniteSet({p}) /\ Cardinality({p}) = 1 /\ IsFiniteSet(1..Batches) /\ Cardinality(1..Batches) = Batches
  <2>1. IsFiniteSet(1..Batches) /\ Cardinality(1..Batches) = IF 1 > Batches THEN 0 ELSE Batches - 1 + 1
    BY FS_Interval, ListAssumption
  <2>2. IsFiniteSet({p}) /\ Cardinality({p}) = 1
    BY FS_Singleton
  <2>3. Cardinality(1..Batches) = Batches
    BY <2>1, ListAssumption
  <2> QED
    BY <2>1, <2>2, <2>3
<1>7. IsFiniteSet({p} \X (1..Batches)) /\ Cardinality({p} \X (1..Batches)) = 1 * Batches
  BY <1>6, FS_Product
<1>8. Elems(q) \in SUBSET ({p} \X (1..Batches))
  BY <1>2 DEF F!Batch, F!Queue
<1>9. Cardinality(Elems(q)) <= Cardinality({p} \X (1..Batches))
  BY <1>7, <1>8, FS_Subset
<1> QED
  BY <1>1, <1>3, <1>5, <1>7, <1>9, ListAssumption

(* InLists says whether the batch is in its list. *)
LEMMA InListsIsListed ==
  ASSUME NEW list, Proper(list), NEW b \in F!Batch
  PROVE  F!InLists(list, b) = IF Listed(list, b) THEN 1 ELSE 0
<1> DEFINE A == {x \in F!Partition \X (1..Batches) : x[2] <= Len(list[x[1]]) /\ list[x[1]][x[2]] = b}
<1>1. \A p \in F!Partition : Distinct(list[p]) /\ Len(list[p]) <= Batches /\ Len(list[p]) \in Nat
  BY ListBound DEF Proper
<1>2. ASSUME NEW x \in A
      PROVE  x[1] = F!Queue(b) /\ x[2] \in 1..Len(list[F!Queue(b)]) /\ list[F!Queue(b)][x[2]] = b
             /\ x = <<x[1], x[2]>>
  <2>1. x[1] \in F!Partition /\ x[2] \in 1..Batches /\ x = <<x[1], x[2]>> /\ x[2] <= Len(list[x[1]]) /\ list[x[1]][x[2]] = b
    OBVIOUS
  <2>2. x[2] \in 1..Len(list[x[1]])
    BY <1>1, <2>1
  <2>3. b \in Elems(list[x[1]])
    BY <2>1, <2>2 DEF Elems
  <2>4. F!Queue(b) = x[1]
    BY <2>1, <2>3 DEF Proper
  <2> QED
    BY <2>1, <2>2, <2>4
<1>3. \A x, y \in A : x = y
  <2> SUFFICES ASSUME NEW x \in A, NEW y \in A PROVE x = y
    OBVIOUS
  <2>1. x[2] = y[2]
    BY <1>1, <1>2, BatchParts DEF Distinct
  <2> QED
    BY <1>2, <2>1
<1>4. A # {} <=> Listed(list, b)
  <2>1. ASSUME NEW x \in A PROVE Listed(list, b)
    BY <1>2, <2>1 DEF Listed, Elems
  <2>2. ASSUME Listed(list, b) PROVE A # {}
    <3>1. PICK i \in 1..Len(list[F!Queue(b)]) : list[F!Queue(b)][i] = b
      BY <2>2 DEF Listed, Elems
    <3>2. i \in 1..Batches /\ F!Queue(b) \in F!Partition
      BY <1>1, <3>1, BatchParts, ListAssumption
    <3>3. <<F!Queue(b), i>> \in A
      BY <3>1, <3>2
    <3> QED
      BY <3>3
  <2> QED
    BY <2>1, <2>2
<1>5. F!InLists(list, b) = F!Cardinality(A)
  BY DEF F!InLists
<1> HIDE DEF A
<1>6. F!Cardinality(A) = IF A = {} THEN 0 ELSE 1
  BY <1>3, AtMostOne, Zenon
<1> QED
  BY <1>4, <1>5, <1>6

(* Each batch is in one list or in one handle. *)
LEMMA BatchesDeliver ==
  ASSUME ListInv
  PROVE  F!BatchesConserved
<1> SUFFICES ASSUME NEW b \in F!Batch
             PROVE  /\ F!InLists(full, b) + F!InLists(empty, b) + F!Cardinality({t \in ListThread : handle[t] = b}) = 1
                    /\ \A p \in F!Partition \ {F!Queue(b)} : \A i \in 1..Len(full[p]) : full[p][i] # b
                    /\ F!InLists(full, b) = 1 => content[b] # <<>>
                    /\ F!InLists(empty, b) = 1 => content[b] = <<>>
  BY DEF F!BatchesConserved
<1> DEFINE H == {t \in ListThread : handle[t] = b}
<1>1. Proper(full) /\ Proper(empty) /\ BatchKept(b) /\ HandlesApart
  BY DEF ListInv, BatchesKept
<1>2. F!InLists(full, b) = IF Listed(full, b) THEN 1 ELSE 0
  BY <1>1, InListsIsListed
<1>3. F!InLists(empty, b) = IF Listed(empty, b) THEN 1 ELSE 0
  BY <1>1, InListsIsListed
<1>4. F!Cardinality(H) = IF H = {} THEN 0 ELSE 1
  <2>1. \A t, u \in H : t = u
    BY <1>1, ListAssumption DEF HandlesApart
  <2> HIDE DEF H
  <2> QED
    BY <2>1, AtMostOne, Zenon
<1>5. H # {} <=> Held(b)
  BY DEF Held
<1>6. \A p \in F!Partition \ {F!Queue(b)} : \A i \in 1..Len(full[p]) : full[p][i] # b
  BY <1>1 DEF Proper, Elems
<1> HIDE DEF H
<1>7. F!InLists(full, b) + F!InLists(empty, b) + F!Cardinality(H) = 1
  BY <1>1, <1>2, <1>3, <1>4, <1>5 DEF BatchKept
<1> QED
  BY <1>1, <1>2, <1>3, <1>6, <1>7 DEF BatchKept, H

(* Each element is in use, on its way, or in one batch. *)
LEMMA ElementsDeliver ==
  ASSUME ListInv
  PROVE  F!ElementsConserved
<1> SUFFICES ASSUME NEW e \in Element PROVE F!Places(e) = 1
  BY DEF F!ElementsConserved
<1> DEFINE T == {t \in ListThread : op[t].e = e}
           B == {x \in F!Batch \X (1..BatchSize) : x[2] <= Len(content[x[1]]) /\ content[x[1]][x[2]] = e}
<1>1. ElementKept(e) /\ OpsApart /\ ContentApart /\ BatchTypes
  BY DEF ListInv, ElementsKept
<1>2. F!Cardinality(T) = IF T = {} THEN 0 ELSE 1
  <2>1. \A t, u \in T : t = u
    BY <1>1, ListAssumption DEF OpsApart
  <2> HIDE DEF T
  <2> QED
    BY <2>1, AtMostOne, Zenon
<1>3. T # {} <=> Pushing(e)
  BY DEF Pushing
<1>4. \A b \in F!Batch : Len(content[b]) \in Nat /\ Len(content[b]) <= BatchSize
  BY <1>1 DEF BatchTypes
<1>5. \A x \in B : /\ x[1] \in F!Batch /\ x[2] \in 1..Len(content[x[1]]) /\ content[x[1]][x[2]] = e
                    /\ x = <<x[1], x[2]>>
  BY <1>4
<1>6. F!Cardinality(B) = IF B = {} THEN 0 ELSE 1
  <2>1. \A x, y \in B : x = y
    <3> SUFFICES ASSUME NEW x \in B, NEW y \in B PROVE x = y
      OBVIOUS
    <3>1. x[1] = y[1] /\ x[2] = y[2]
      BY <1>1, <1>5 DEF ContentApart
    <3> QED
      BY <1>5, <3>1
  <2> HIDE DEF B
  <2> QED
    BY <2>1, AtMostOne, Zenon
<1>7. B # {} <=> InBatch(e)
  <2>1. ASSUME NEW x \in B PROVE InBatch(e)
    BY <1>5, <2>1 DEF InBatch
  <2>2. ASSUME NEW b \in F!Batch, NEW i \in 1..Len(content[b]), content[b][i] = e PROVE B # {}
    <3>1. i \in 1..BatchSize /\ i <= Len(content[b])
      BY <1>4, ListAssumption
    <3>2. <<b, i>> \in B
      BY <2>2, <3>1
    <3> QED
      BY <3>2
  <2> QED
    BY <2>1, <2>2 DEF InBatch
<1>8. F!Places(e) = (IF e \in out THEN 1 ELSE 0) + F!Cardinality(T) + F!Cardinality(B)
  BY DEF F!Places
<1> HIDE DEF T, B
<1> QED
  BY <1>1, <1>2, <1>3, <1>6, <1>7, <1>8 DEF ElementKept

(* The count of a partition is the number of the places in its full batches. *)
LEMMA CounterDelivers ==
  ASSUME ListInv
  PROVE  F!CounterIsExact
<1> SUFFICES ASSUME NEW p \in F!Partition
             PROVE  elements[p] = F!Cardinality({x \in (1..Len(full[p])) \X (1..BatchSize) : x[2] <= Len(content[full[p][x[1]]])})
  BY DEF F!CounterIsExact
<1> DEFINE A == {x \in (1..Len(full[p])) \X (1..BatchSize) : x[2] <= Len(content[full[p][x[1]]])}
           f == [x \in A |-> <<full[p][x[1]], x[2]>>]
<1>1. Distinct(full[p]) /\ IsFiniteSet(Cells(p)) /\ elements[p] = Cardinality(Cells(p))
  BY DEF ListInv, BatchesKept, Proper, CountKept
<1>2. \A x \in A : /\ x[1] \in 1..Len(full[p]) /\ x[2] \in 1..BatchSize /\ x = <<x[1], x[2]>>
                    /\ x[2] <= Len(content[full[p][x[1]]])
  OBVIOUS
<1>3. ASSUME NEW x \in A PROVE f[x] \in Cells(p) /\ f[x][1] = full[p][x[1]] /\ f[x][2] = x[2]
  <2>1. f[x] = <<full[p][x[1]], x[2]>>
    OBVIOUS
  <2>2. full[p][x[1]] \in Elems(full[p])
    BY <1>2 DEF Elems
  <2> HIDE DEF f
  <2> QED
    BY <1>2, <2>1, <2>2 DEF Cells, CellsOf
<1>4. ASSUME NEW x \in A, NEW y \in A, f[x] = f[y] PROVE x = y
  <2> HIDE DEF f
  <2>1. full[p][x[1]] = full[p][y[1]] /\ x[2] = y[2]
    BY <1>3, <1>4
  <2>2. x[1] = y[1]
    BY <1>1, <1>2, <2>1 DEF Distinct
  <2> QED
    BY <1>2, <2>1, <2>2
<1>5. ASSUME NEW c \in Cells(p) PROVE \E x \in A : f[x] = c
  <2>1. c[1] \in Elems(full[p]) /\ c[2] \in 1..BatchSize /\ c = <<c[1], c[2]>> /\ c[2] <= Len(content[c[1]])
    BY DEF Cells, CellsOf
  <2>2. PICK i \in 1..Len(full[p]) : full[p][i] = c[1]
    BY <2>1 DEF Elems
  <2>3. <<i, c[2]>> \in A
    BY <2>1, <2>2
  <2>4. f[<<i, c[2]>>] = <<full[p][i], c[2]>>
    BY <2>3
  <2> QED
    BY <2>1, <2>2, <2>3, <2>4
<1>6. f \in [A -> Cells(p)] /\ DOMAIN f = A
  BY <1>3
<1> HIDE DEF f
<1>7. f \in Injection(A, Cells(p)) /\ f \in Surjection(A, Cells(p))
  BY <1>4, <1>5, <1>6 DEF Injection, Surjection, IsInjective
<1> HIDE DEF A
<1>8. Cardinality(A) = Cardinality(Cells(p))
  BY <1>1, <1>7, FS_Injection
<1>9. F!Cardinality(A) = Cardinality(A)
  BY DEF F!Cardinality, Cardinality
<1> QED
  BY <1>1, <1>8, <1>9 DEF A

(* Threads hold one batch at most each, *)
LEMMA HeldBound ==
  ASSUME ListInv, NEW t \in ListThread, handle[t] = Nobody
  PROVE  LET H == {b \in F!Batch : Held(b)}
         IN  IsFiniteSet(H) /\ Cardinality(H) <= Cardinality(ListThread) - 1
<1> DEFINE H == {b \in F!Batch : Held(b)}
           f == [b \in H |-> CHOOSE u \in ListThread : handle[u] = b]
<1>1. \A b \in H : f[b] \in ListThread /\ handle[f[b]] = b
  BY DEF Held
<1>2. f \in [H -> ListThread \ {t}] /\ DOMAIN f = H
  BY <1>1, ListAssumption
<1> HIDE DEF f
<1>3. f \in Injection(H, ListThread \ {t})
  BY <1>1, <1>2 DEF Injection, IsInjective
<1>4. IsFiniteSet(ListThread \ {t}) /\ Cardinality(ListThread \ {t}) = Cardinality(ListThread) - 1
  BY FS_RemoveElement, ListAssumption
<1> HIDE DEF H
<1>5. IsFiniteSet(H) /\ Cardinality(H) <= Cardinality(ListThread \ {t})
  BY <1>3, <1>4, FS_Injection
<1> QED
  BY <1>4, <1>5 DEF H

(* and before a thread has ended the full batches are full: there are not  *)
(* more of them than there are elements for.                               *)
LEMMA FullBound ==
  ASSUME ListInv, exits = 0
  PROVE  LET X == {b \in F!Batch : Listed(full, b)}
         IN  IsFiniteSet(X) /\ Cardinality(X) * BatchSize <= Cardinality(Element)
<1> DEFINE X == {b \in F!Batch : Listed(full, b)}
           C == X \X (1..BatchSize)
           f == [x \in C |-> content[x[1]][x[2]]]
<1>1. IsFiniteSet(F!Batch)
  <2>1. IsFiniteSet(1..Partitions) /\ IsFiniteSet(1..Batches)
    BY FS_Interval, ListAssumption
  <2> QED
    BY <2>1, FS_Product DEF F!Batch, F!Partition
<1>2. IsFiniteSet(X)
  BY <1>1, FS_Subset
<1>3. IsFiniteSet(1..BatchSize) /\ Cardinality(1..BatchSize) = BatchSize
  <2>1. IsFiniteSet(1..BatchSize) /\ Cardinality(1..BatchSize) = IF 1 > BatchSize THEN 0 ELSE BatchSize - 1 + 1
    BY FS_Interval, ListAssumption
  <2> QED
    BY <2>1, ListAssumption
<1>4. \A b \in X : Len(content[b]) = BatchSize /\ content[b] \in Seq(Element)
  BY DEF ListInv, BatchesKept, BatchKept, BatchTypes
<1>5. \A x \in C : x[1] \in X /\ x[2] \in 1..BatchSize /\ x = <<x[1], x[2]>>
  OBVIOUS
<1>6. \A x \in C : f[x] = content[x[1]][x[2]] /\ f[x] \in Element
  BY <1>4, <1>5
<1>7. f \in [C -> Element] /\ DOMAIN f = C
  BY <1>6
<1> HIDE DEF f
<1>8. ASSUME NEW x \in C, NEW y \in C, f[x] = f[y] PROVE x = y
  <2>1. /\ x[1] \in F!Batch /\ y[1] \in F!Batch /\ x[2] \in 1..Len(content[x[1]]) /\ y[2] \in 1..Len(content[y[1]])
        /\ content[x[1]][x[2]] = content[y[1]][y[2]]
    BY <1>4, <1>5, <1>6, <1>8
  <2>2. x[1] = y[1] /\ x[2] = y[2]
    BY <2>1 DEF ListInv, ElementsKept, ContentApart
  <2> QED
    BY <1>5, <2>2
<1>9. f \in Injection(C, Element)
  BY <1>7, <1>8 DEF Injection, IsInjective
<1>10. Cardinality(C) = Cardinality(X) * BatchSize
  <2> HIDE DEF X
  <2>1. Cardinality(C) = Cardinality(X) * Cardinality(1..BatchSize)
    BY <1>2, <1>3, FS_Product
  <2> QED
    BY <1>3, <2>1
<1> HIDE DEF C
<1>11. Cardinality(C) <= Cardinality(Element)
  BY <1>9, FS_Injection, ListAssumption
<1> QED
  BY <1>2, <1>10, <1>11 DEF X

(* So some batch is in neither place. *)
LEMMA RoomDelivers ==
  ASSUME ListInv
  PROVE  F!RoomForPush
<1> SUFFICES ASSUME exits = 0, NEW t \in ListThread, handle[t] = Nobody, \A p \in F!Partition : empty[p] = <<>>
             PROVE  FALSE
  BY DEF F!RoomForPush
<1> DEFINE X == {b \in F!Batch : Listed(full, b)}
           H == {b \in F!Batch : Held(b)}
<1>1. F!Batch = X \cup H
  <2> SUFFICES ASSUME NEW b \in F!Batch PROVE Listed(full, b) \/ Held(b)
    OBVIOUS
  <2>1. ~ Listed(empty, b)
    BY BatchParts DEF Listed, Elems
  <2> QED
    BY <2>1 DEF ListInv, BatchesKept, BatchKept
<1>2. IsFiniteSet(X) /\ Cardinality(X) * BatchSize <= Cardinality(Element)
  BY FullBound
<1>3. IsFiniteSet(H) /\ Cardinality(H) <= Cardinality(ListThread) - 1
  BY HeldBound
<1>4. Cardinality(F!Batch) = Partitions * Batches
  <2>1. IsFiniteSet(1..Partitions) /\ Cardinality(1..Partitions) = IF 1 > Partitions THEN 0 ELSE Partitions - 1 + 1
    BY FS_Interval, ListAssumption
  <2>2. IsFiniteSet(1..Batches) /\ Cardinality(1..Batches) = IF 1 > Batches THEN 0 ELSE Batches - 1 + 1
    BY FS_Interval, ListAssumption
  <2>3. Cardinality(1..Partitions) = Partitions /\ Cardinality(1..Batches) = Batches
    BY <2>1, <2>2, ListAssumption
  <2>4. Cardinality((1..Partitions) \X (1..Batches)) = Cardinality(1..Partitions) * Cardinality(1..Batches)
    BY <2>1, <2>2, FS_Product
  <2> QED
    BY <2>3, <2>4 DEF F!Batch, F!Partition
<1> HIDE DEF X, H
<1>5. PICK x \in Nat, h \in Nat, e \in Nat, n \in Nat :
        x = Cardinality(X) /\ h = Cardinality(H) /\ e = Cardinality(Element) /\ n = Cardinality(ListThread)
  BY <1>2, <1>3, FS_CardinalityType, ListAssumption
<1>6. Cardinality(X \cup H) <= x + h
  <2>1. Cardinality(X \cup H) = Cardinality(X) + Cardinality(H) - Cardinality(X \cap H)
    BY <1>2, <1>3, FS_Union
  <2>2. IsFiniteSet(X \cap H)
    BY <1>2, FS_Intersection
  <2>3. Cardinality(X \cap H) \in Nat
    BY <2>2, FS_CardinalityType
  <2> QED
    BY <1>5, <2>1, <2>3
<1>7. PICK k \in Nat : k = Partitions * Batches
  BY ListAssumption
<1>8. PICK s \in Nat \ {0} : s = BatchSize
  BY ListAssumption
<1>9. k <= x + h /\ h + 1 <= n /\ x * s <= e /\ e + n * s <= k * s
  BY <1>1, <1>2, <1>3, <1>4, <1>5, <1>6, <1>7, <1>8, RoomAssumption
<1>10. k * s <= (x + h) * s /\ k * s \in Nat /\ (x + h) * s \in Nat
  BY <1>9, Products
<1>11. (h + 1) * s <= n * s /\ (h + 1) * s = h * s + s /\ n * s \in Nat /\ h * s \in Nat
  BY <1>9, Products
<1>12. (x + h) * s = x * s + h * s
  BY SMT
<1>13. PICK c \in Nat, d \in Nat, g \in Nat, j \in Nat : c = k * s /\ d = x * s /\ g = h * s /\ j = n * s
  BY <1>10, <1>11, Products
<1> QED
  BY ONLY <1>8, <1>9, <1>10, <1>11, <1>12, <1>13

(* What the properties say follows. *)
LEMMA ListDelivers == ListInv => F!ElementsConserved /\ F!BatchesConserved /\ F!CounterIsExact /\ F!RoomForPush
BY ElementsDeliver, BatchesDeliver, CounterDelivers, RoomDelivers

-----------------------------------------------------------------------------
(* Batches move *)

(* What is said of the lists after the step is said of the new lists. *)
LEMMA NewLists ==
  /\ \A b : (Listed(full, b)' <=> Listed(full', b)) /\ (Listed(empty, b)' <=> Listed(empty', b))
  /\ (Proper(full)' <=> Proper(full')) /\ (Proper(empty)' <=> Proper(empty'))
  /\ \A p : Cells(p)' = CellsOf(Elems(full'[p]), content')
BY DEF Listed, Proper, Elems, Distinct, F!Queue, F!Partition, F!Batch, Cells, CellsOf

(* what is needed to take the first batch b of a list, and what it leaves *)
PopsFrom(list, new, p, b) == list[p] # <<>> /\ new = [list EXCEPT ![p] = Tail(@)] /\ b = Head(list[p])
Popped(list, new, p, b) ==
  /\ Proper(new) /\ b \in F!Batch /\ F!Queue(b) = p /\ Listed(list, b)
  /\ \A c \in F!Batch : Listed(new, c) <=> Listed(list, c) /\ c # b
  /\ Elems(new[p]) = Elems(list[p]) \ {b} /\ \A q \in F!Partition : q # p => new[q] = list[q]

(* The first batch of a list is taken, *)
LEMMA ListPops ==
  ASSUME NEW list, NEW new, NEW p \in F!Partition, NEW b, Proper(list), PopsFrom(list, new, p, b)
  PROVE  Popped(list, new, p, b)
<1> USE DEF PopsFrom
<1>1. /\ Head(list[p]) \in F!Batch /\ Tail(list[p]) \in Seq(F!Batch) /\ Distinct(Tail(list[p]))
      /\ Head(list[p]) \in Elems(list[p]) /\ Elems(Tail(list[p])) = Elems(list[p]) \ {Head(list[p])}
  <2>1. list[p] \in Seq(F!Batch) /\ Distinct(list[p])
    BY DEF Proper
  <2> QED
    BY <2>1, FromFront
<1>2. /\ new \in [F!Partition -> Seq(F!Batch)] /\ new[p] = Tail(list[p])
      /\ \A q \in F!Partition : q # p => new[q] = list[q]
  BY <1>1 DEF Proper
<1>3. F!Queue(Head(list[p])) = p
  BY <1>1 DEF Proper
<1>4. Proper(new)
  <2> SUFFICES ASSUME NEW q \in F!Partition PROVE Distinct(new[q]) /\ \A c \in Elems(new[q]) : F!Queue(c) = q
    BY <1>2 DEF Proper
  <2>1. Distinct(list[q]) /\ \A c \in Elems(list[q]) : F!Queue(c) = q
    BY DEF Proper
  <2>2. CASE q = p
    BY <1>1, <1>2, <2>1, <2>2
  <2>3. CASE q # p
    BY <1>2, <2>1, <2>3
  <2> QED
    BY <2>2, <2>3
<1>5. \A c \in F!Batch : Listed(new, c) <=> Listed(list, c) /\ c # Head(list[p])
  BY <1>1, <1>2, <1>3, BatchParts DEF Listed
<1> QED
  BY <1>1, <1>2, <1>3, <1>4, <1>5 DEF Listed, Popped

(* the same for a batch that comes back *)
PushesTo(list, new, b) == ~ Listed(list, b) /\ new = [list EXCEPT ![F!Queue(b)] = <<b>> \o @]
PushedTo(list, new, b) ==
  /\ Proper(new) /\ \A c \in F!Batch : Listed(new, c) <=> Listed(list, c) \/ c = b
  /\ Elems(new[F!Queue(b)]) = Elems(list[F!Queue(b)]) \cup {b}
  /\ \A q \in F!Partition : q # F!Queue(b) => new[q] = list[q]

(* or a batch comes back to the list that it is from. *)
LEMMA ListPushes ==
  ASSUME NEW list, NEW new, NEW b \in F!Batch, Proper(list), PushesTo(list, new, b)
  PROVE  PushedTo(list, new, b)
<1> USE DEF PushesTo
<1>1. PICK p \in F!Partition : p = F!Queue(b)
  BY BatchParts
<1>2. /\ <<b>> \o list[p] \in Seq(F!Batch) /\ Distinct(<<b>> \o list[p])
      /\ Elems(<<b>> \o list[p]) = Elems(list[p]) \cup {b}
  <2>1. list[p] \in Seq(F!Batch) /\ Distinct(list[p]) /\ b \notin Elems(list[p])
    BY <1>1 DEF Proper, Listed
  <2> QED
    BY <2>1, InFront
<1>3. /\ new \in [F!Partition -> Seq(F!Batch)] /\ new[p] = <<b>> \o list[p]
      /\ \A q \in F!Partition : q # p => new[q] = list[q]
  BY <1>1, <1>2 DEF Proper
<1>4. Proper(new)
  <2> SUFFICES ASSUME NEW q \in F!Partition PROVE Distinct(new[q]) /\ \A c \in Elems(new[q]) : F!Queue(c) = q
    BY <1>3 DEF Proper
  <2>1. Distinct(list[q]) /\ \A c \in Elems(list[q]) : F!Queue(c) = q
    BY DEF Proper
  <2>2. CASE q = p
    BY <1>1, <1>2, <1>3, <2>1, <2>2
  <2>3. CASE q # p
    BY <1>3, <2>1, <2>3
  <2> QED
    BY <2>2, <2>3
<1>5. \A c \in F!Batch : Listed(new, c) <=> Listed(list, c) \/ c = b
  BY <1>1, <1>2, <1>3, BatchParts DEF Listed
<1> QED
  BY <1>1, <1>2, <1>3, <1>4, <1>5 DEF PushedTo

(* One more batch has so many more places. *)
LEMMA CellsAdd ==
  ASSUME NEW A, NEW b, b \notin A, NEW c, Len(c[b]) \in 0..BatchSize, IsFiniteSet(CellsOf(A, c))
  PROVE  /\ IsFiniteSet(CellsOf(A \cup {b}, c))
         /\ Cardinality(CellsOf(A \cup {b}, c)) = Cardinality(CellsOf(A, c)) + Len(c[b])
<1>1. PICK n \in Nat : n = Len(c[b]) /\ n <= BatchSize
  BY ListAssumption
<1>2. PICK D : D = {b} \X (1..n)
  OBVIOUS
<1>3. CellsOf(A \cup {b}, c) = CellsOf(A, c) \cup D
  BY <1>1, <1>2, ListAssumption DEF CellsOf
<1>4. CellsOf(A, c) \cap D = {}
  BY <1>2 DEF CellsOf
<1>5. IsFiniteSet({b}) /\ Cardinality({b}) = 1
  BY FS_Singleton
<1>6. IsFiniteSet(1..n) /\ Cardinality(1..n) = n
  <2>1. IsFiniteSet(1..n) /\ Cardinality(1..n) = IF 1 > n THEN 0 ELSE n - 1 + 1
    BY FS_Interval
  <2> QED
    BY <2>1
<1>7. IsFiniteSet(D) /\ Cardinality(D) = 1 * n
  <2>1. /\ IsFiniteSet({b} \X (1..n))
        /\ Cardinality({b} \X (1..n)) = Cardinality({b}) * Cardinality(1..n)
    BY <1>5, <1>6, FS_Product
  <2> QED
    BY <1>2, <1>5, <1>6, <2>1
<1>8. PICK C : C = CellsOf(A, c)
  OBVIOUS
<1>9. IsFiniteSet(C) /\ C \cap D = {}
  BY <1>4, <1>8
<1>10. /\ IsFiniteSet(C \cup D)
       /\ Cardinality(C \cup D) = Cardinality(C) + Cardinality(D) - Cardinality(C \cap D)
  BY <1>7, <1>9, FS_Union
<1>11. Cardinality(C) \in Nat /\ Cardinality(C \cap D) = 0
  BY <1>9, FS_CardinalityType, FS_EmptySet
<1>12. Cardinality(C \cup D) = Cardinality(C) + n
  BY <1>7, <1>10, <1>11
<1> QED
  BY <1>1, <1>3, <1>8, <1>10, <1>12

(* The handle of thread t changes. *)
LEMMA HandleMoves ==
  ASSUME ListInv, NEW t \in ListThread, NEW h \in F!Batch \cup {Nobody}, handle' = [handle EXCEPT ![t] = h]
  PROVE  /\ handle' \in [ListThread -> F!Batch \cup {Nobody}] /\ handle'[t] = h
         /\ \A u \in ListThread : u # t => handle'[u] = handle[u]
BY DEF ListInv, BatchTypes

(* Thread t takes a batch out of a list, *)
LEMMA TakesBatch ==
  ASSUME ListInv, NEW t \in ListThread, handle[t] = Nobody, NEW b \in F!Batch, ~ Held(b),
         handle' = [handle EXCEPT ![t] = b],
         \A c \in F!Batch : c # b => (Listed(full', c) <=> Listed(full, c)) /\ (Listed(empty', c) <=> Listed(empty, c)),
         ~ Listed(full', b), ~ Listed(empty', b), UNCHANGED <<content, exits>>
  PROVE  HandlesApart' /\ \A c \in F!Batch : BatchKept(c)'
<1>1. /\ handle'[t] = b /\ \A u \in ListThread : u # t => handle'[u] = handle[u]
  BY HandleMoves
<1>2. HandlesApart'
  BY <1>1 DEF HandlesApart, Held, ListInv, BatchesKept
<1>3. Held(b)' /\ \A c \in F!Batch : c # b => (Held(c)' <=> Held(c))
  BY <1>1, ListAssumption DEF Held
<1>4. \A c \in F!Batch : BatchKept(c)
  BY DEF ListInv, BatchesKept
<1>5. ASSUME NEW c \in F!Batch PROVE BatchKept(c)'
  <2>1. (Listed(full, c)' <=> Listed(full', c)) /\ (Listed(empty, c)' <=> Listed(empty', c))
    BY NewLists
  <2>2. CASE c = b
    BY <1>3, <2>1, <2>2 DEF BatchKept
  <2>3. CASE c # b
    BY <1>3, <1>4, <2>1, <2>3 DEF BatchKept
  <2> QED
    BY <2>2, <2>3
<1> QED
  BY <1>2, <1>5

(* or gives its batch to a list. *)
LEMMA GivesBatch ==
  ASSUME ListInv, NEW t \in ListThread, NEW b \in F!Batch, handle[t] = b, handle' = [handle EXCEPT ![t] = Nobody],
         \A c \in F!Batch : c # b => (Listed(full', c) <=> Listed(full, c)) /\ (Listed(empty', c) <=> Listed(empty, c)),
         \/ Listed(full', b) /\ ~ Listed(empty', b) /\ content[b] # <<>> /\ (exits' = 0 => Len(content[b]) = BatchSize)
         \/ ~ Listed(full', b) /\ Listed(empty', b) /\ content[b] = <<>>,
         content' = content, exits' = 0 => exits = 0
  PROVE  HandlesApart' /\ \A c \in F!Batch : BatchKept(c)'
<1>1. /\ handle'[t] = Nobody /\ \A u \in ListThread : u # t => handle'[u] = handle[u]
  BY HandleMoves
<1>2. HandlesApart
  BY DEF ListInv, BatchesKept
<1>3. HandlesApart'
  BY <1>1, <1>2 DEF HandlesApart
<1>4. ~ Held(b)' /\ \A c \in F!Batch : c # b => (Held(c)' <=> Held(c))
  BY <1>1, <1>2, ListAssumption DEF Held, HandlesApart
<1>5. \A c \in F!Batch : BatchKept(c)
  BY DEF ListInv, BatchesKept
<1>6. ASSUME NEW c \in F!Batch PROVE BatchKept(c)'
  <2>1. (Listed(full, c)' <=> Listed(full', c)) /\ (Listed(empty, c)' <=> Listed(empty', c))
    BY NewLists
  <2>2. CASE c = b
    BY <1>4, <2>1, <2>2 DEF BatchKept
  <2>3. CASE c # b
    BY <1>4, <1>5, <2>1, <2>3 DEF BatchKept
  <2> QED
    BY <2>2, <2>3
<1> QED
  BY <1>3, <1>6

(* try_pop_empty *)
LEMMA PopEmptyKeeps ==
  ASSUME ListInv, NEW t \in ListThread, NEW p \in F!Partition, handle[t] = Nobody, F!PopEmpty(t, p),
         UNCHANGED <<content, exits>>
  PROVE  BatchTypes' /\ BatchesKept' /\ \A u \in ListThread : u # t => handle'[u] = handle[u]
<1>1. PICK b : b = Head(empty[p])
  OBVIOUS
<1>2. /\ empty[p] # <<>> /\ handle' = [handle EXCEPT ![t] = b] /\ empty' = [empty EXCEPT ![p] = Tail(@)]
      /\ full' = full /\ elements' = elements
  BY <1>1 DEF F!PopEmpty
<1>3. Proper(full) /\ Proper(empty) /\ CountKept /\ \A c \in F!Batch : BatchKept(c)
  BY DEF ListInv, BatchesKept
<1>4. /\ Proper(empty') /\ b \in F!Batch /\ Listed(empty, b)
      /\ \A c \in F!Batch : Listed(empty', c) <=> Listed(empty, c) /\ c # b
  <2>1. PopsFrom(empty, empty', p, b)
    BY <1>1, <1>2 DEF PopsFrom
  <2>2. Popped(empty, empty', p, b)
    BY <1>3, <2>1, ListPops, Zenon
  <2> QED
    BY <2>2 DEF Popped
<1>5. ~ Held(b) /\ ~ Listed(full', b) /\ ~ Listed(empty', b)
  BY <1>2, <1>3, <1>4 DEF BatchKept
<1>6. \A c \in F!Batch : c # b => (Listed(full', c) <=> Listed(full, c)) /\ (Listed(empty', c) <=> Listed(empty, c))
  BY <1>2, <1>4
<1>7. HandlesApart' /\ \A c \in F!Batch : BatchKept(c)'
  BY <1>2, <1>4, <1>5, <1>6, TakesBatch
<1>8. CountKept'
  BY <1>2, <1>3 DEF CountKept, Cells
<1>9. Proper(full)' /\ Proper(empty)'
  BY <1>2, <1>3, <1>4, NewLists
<1>10. handle' \in [ListThread -> F!Batch \cup {Nobody}] /\ \A u \in ListThread : u # t => handle'[u] = handle[u]
  BY <1>2, <1>4, HandleMoves
<1>11. BatchTypes'
  BY <1>2, <1>10 DEF ListInv, BatchTypes
<1> QED
  BY <1>7, <1>8, <1>9, <1>10, <1>11 DEF BatchesKept

(* The lengths of the batches are known. *)
LEMMA Lengths ==
  ASSUME ListInv
  PROVE  \A b \in F!Batch : Len(content[b]) \in 0..BatchSize
BY ListAssumption DEF ListInv, BatchTypes

(* try_pop_full *)
LEMMA PopFullKeeps ==
  ASSUME ListInv, NEW t \in ListThread, NEW p \in F!Partition, handle[t] = Nobody, F!PopFull(t, p),
         UNCHANGED <<content, exits>>
  PROVE  BatchTypes' /\ BatchesKept' /\ \A u \in ListThread : u # t => handle'[u] = handle[u]
<1>1. PICK b : b = Head(full[p])
  OBVIOUS
<1>2. /\ full[p] # <<>> /\ handle' = [handle EXCEPT ![t] = b] /\ full' = [full EXCEPT ![p] = Tail(@)]
      /\ elements' = [elements EXCEPT ![p] = @ - Len(content[b])] /\ empty' = empty
  BY <1>1 DEF F!PopFull
<1>3. Proper(full) /\ Proper(empty) /\ CountKept /\ \A c \in F!Batch : BatchKept(c)
  BY DEF ListInv, BatchesKept
<1>4. /\ Proper(full') /\ b \in F!Batch /\ F!Queue(b) = p /\ Listed(full, b)
      /\ \A c \in F!Batch : Listed(full', c) <=> Listed(full, c) /\ c # b
      /\ Elems(full'[p]) = Elems(full[p]) \ {b} /\ \A q \in F!Partition : q # p => full'[q] = full[q]
  <2>1. PopsFrom(full, full', p, b)
    BY <1>1, <1>2 DEF PopsFrom
  <2>2. Popped(full, full', p, b)
    BY <1>3, <2>1, ListPops, Zenon
  <2> QED
    BY <2>2 DEF Popped
<1>5. ~ Held(b) /\ ~ Listed(full', b) /\ ~ Listed(empty', b)
  BY <1>2, <1>3, <1>4 DEF BatchKept
<1>6. \A c \in F!Batch : c # b => (Listed(full', c) <=> Listed(full, c)) /\ (Listed(empty', c) <=> Listed(empty, c))
  BY <1>2, <1>4
<1>7. HandlesApart' /\ \A c \in F!Batch : BatchKept(c)'
  BY <1>2, <1>4, <1>5, <1>6, TakesBatch
<1>8. \A q : Cells(q)' = CellsOf(Elems(full'[q]), content)
  BY NewLists
<1>9. PICK n \in 0..BatchSize : n = Len(content[b])
  BY <1>4, Lengths
<1>10. /\ IsFiniteSet(Cells(p)') /\ Cardinality(Cells(p)') \in Nat
       /\ Cardinality(Cells(p)) = Cardinality(Cells(p)') + n
  <2>1. PICK A : A = Elems(full'[p])
    OBVIOUS
  <2>2. b \notin A /\ A \cup {b} = Elems(full[p])
    BY <1>4, <2>1 DEF Listed
  <2>3. IsFiniteSet(Cells(p)) /\ Cells(p) = CellsOf(A \cup {b}, content) /\ Cells(p)' = CellsOf(A, content)
    BY <1>3, <1>8, <2>1, <2>2 DEF CountKept, Cells
  <2>4. CellsOf(A, content) \subseteq CellsOf(A \cup {b}, content)
    BY DEF CellsOf
  <2>5. IsFiniteSet(CellsOf(A, content))
    BY <2>3, <2>4, FS_Subset
  <2>6. Len(content[b]) \in 0..BatchSize
    BY <1>9
  <2>7. Cardinality(CellsOf(A \cup {b}, content)) = Cardinality(CellsOf(A, content)) + Len(content[b])
    BY <2>2, <2>5, <2>6, CellsAdd
  <2> QED
    BY <1>9, <2>3, <2>5, <2>7, FS_CardinalityType
<1>11. /\ elements'[p] = Cardinality(Cells(p)') /\ elements' \in [F!Partition -> Nat]
       /\ \A q \in F!Partition : q # p => elements'[q] = elements[q]
  <2>1. elements \in [F!Partition -> Nat] /\ elements[p] = Cardinality(Cells(p))
    BY <1>3 DEF ListInv, BatchTypes, CountKept
  <2>2. elements[p] - Len(content[b]) = Cardinality(Cells(p)')
    BY <1>9, <1>10, <2>1
  <2> QED
    BY <1>2, <1>10, <2>1, <2>2
<1>12. CountKept'
  <2> SUFFICES ASSUME NEW q \in F!Partition PROVE IsFiniteSet(Cells(q)') /\ elements'[q] = Cardinality(Cells(q)')
    BY DEF CountKept, F!Partition
  <2>1. CASE q = p
    BY <1>10, <1>11, <2>1
  <2>2. CASE q # p
    BY <1>3, <1>4, <1>8, <1>11, <2>2 DEF CountKept, Cells
  <2> QED
    BY <2>1, <2>2
<1>13. Proper(full)' /\ Proper(empty)'
  BY <1>2, <1>3, <1>4, NewLists
<1>14. handle' \in [ListThread -> F!Batch \cup {Nobody}] /\ \A u \in ListThread : u # t => handle'[u] = handle[u]
  BY <1>2, <1>4, HandleMoves
<1>15. BatchTypes'
  BY <1>2, <1>11, <1>14 DEF ListInv, BatchTypes
<1> QED
  BY <1>7, <1>12, <1>13, <1>14, <1>15 DEF BatchesKept

(* push_empty *)
LEMMA PushEmptyKeeps ==
  ASSUME ListInv, NEW t \in ListThread, NEW b \in F!Batch, handle[t] = b, F!PushEmpty(b),
         handle' = [handle EXCEPT ![t] = Nobody], content[b] = <<>>, content' = content, exits' \in Nat,
         exits' = 0 => exits = 0
  PROVE  BatchTypes' /\ BatchesKept' /\ handle'[t] = Nobody /\ \A u \in ListThread : u # t => handle'[u] = handle[u]
<1>1. /\ empty' = [empty EXCEPT ![F!Queue(b)] = <<b>> \o @] /\ full' = full /\ elements' = elements
  BY DEF F!PushEmpty
<1>2. Proper(full) /\ Proper(empty) /\ CountKept /\ \A c \in F!Batch : BatchKept(c)
  BY DEF ListInv, BatchesKept
<1>3. ~ Listed(full, b) /\ ~ Listed(empty, b)
  BY <1>2 DEF BatchKept, Held
<1>4. Proper(empty') /\ \A c \in F!Batch : Listed(empty', c) <=> Listed(empty, c) \/ c = b
  <2>1. PushesTo(empty, empty', b)
    BY <1>1, <1>3 DEF PushesTo
  <2>2. PushedTo(empty, empty', b)
    BY <1>2, <2>1, ListPushes, Zenon
  <2> QED
    BY <2>2 DEF PushedTo
<1>5. \A c \in F!Batch : c # b => (Listed(full', c) <=> Listed(full, c)) /\ (Listed(empty', c) <=> Listed(empty, c))
  BY <1>1, <1>4
<1>6. ~ Listed(full', b) /\ Listed(empty', b)
  BY <1>1, <1>3, <1>4
<1>7. HandlesApart' /\ \A c \in F!Batch : BatchKept(c)'
  BY <1>5, <1>6, GivesBatch
<1>8. CountKept'
  BY <1>1, <1>2 DEF CountKept, Cells
<1>9. Proper(full)' /\ Proper(empty)'
  BY <1>1, <1>2, <1>4, NewLists
<1>10. /\ handle' \in [ListThread -> F!Batch \cup {Nobody}] /\ handle'[t] = Nobody
       /\ \A u \in ListThread : u # t => handle'[u] = handle[u]
  BY HandleMoves
<1>11. BatchTypes'
  BY <1>1, <1>10 DEF ListInv, BatchTypes
<1> QED
  BY <1>7, <1>8, <1>9, <1>10, <1>11 DEF BatchesKept

(* push_full *)
LEMMA PushFullKeeps ==
  ASSUME ListInv, NEW t \in ListThread, NEW b \in F!Batch, handle[t] = b, F!PushFull(b),
         handle' = [handle EXCEPT ![t] = Nobody], content[b] # <<>>, content' = content, exits' \in Nat,
         exits' = 0 => exits = 0 /\ Len(content[b]) = BatchSize
  PROVE  BatchTypes' /\ BatchesKept' /\ handle'[t] = Nobody /\ \A u \in ListThread : u # t => handle'[u] = handle[u]
<1>1. /\ full' = [full EXCEPT ![F!Queue(b)] = <<b>> \o @] /\ empty' = empty
      /\ elements' = [elements EXCEPT ![F!Queue(b)] = @ + Len(content[b])]
  BY DEF F!PushFull
<1>2. Proper(full) /\ Proper(empty) /\ CountKept /\ \A c \in F!Batch : BatchKept(c)
  BY DEF ListInv, BatchesKept
<1>3. ~ Listed(full, b) /\ ~ Listed(empty, b)
  BY <1>2 DEF BatchKept, Held
<1>4. PICK p \in F!Partition : p = F!Queue(b)
  BY BatchParts
<1>5. /\ Proper(full') /\ \A c \in F!Batch : Listed(full', c) <=> Listed(full, c) \/ c = b
      /\ Elems(full'[p]) = Elems(full[p]) \cup {b} /\ \A q \in F!Partition : q # p => full'[q] = full[q]
  <2>1. PushesTo(full, full', b)
    BY <1>1, <1>3 DEF PushesTo
  <2>2. PushedTo(full, full', b)
    BY <1>2, <2>1, ListPushes, Zenon
  <2> QED
    BY <1>4, <2>2 DEF PushedTo
<1>6. \A c \in F!Batch : c # b => (Listed(full', c) <=> Listed(full, c)) /\ (Listed(empty', c) <=> Listed(empty, c))
  BY <1>1, <1>5
<1>7. Listed(full', b) /\ ~ Listed(empty', b)
  BY <1>1, <1>3, <1>5
<1>8. HandlesApart' /\ \A c \in F!Batch : BatchKept(c)'
  BY <1>6, <1>7, GivesBatch
<1>9. \A q : Cells(q)' = CellsOf(Elems(full'[q]), content)
  BY NewLists
<1>10. PICK n \in 0..BatchSize : n = Len(content[b])
  BY Lengths
<1>11. IsFiniteSet(Cells(p)') /\ Cardinality(Cells(p)') = Cardinality(Cells(p)) + n /\ Cardinality(Cells(p)) \in Nat
  <2>1. PICK A : A = Elems(full[p])
    OBVIOUS
  <2>2. b \notin A /\ Len(content[b]) \in 0..BatchSize
    BY <1>3, <1>4, <1>10, <2>1 DEF Listed
  <2>3. IsFiniteSet(CellsOf(A, content)) /\ Cells(p) = CellsOf(A, content) /\ Cells(p)' = CellsOf(A \cup {b}, content)
    BY <1>2, <1>5, <1>9, <2>1 DEF CountKept, Cells
  <2>4. /\ IsFiniteSet(CellsOf(A \cup {b}, content))
        /\ Cardinality(CellsOf(A \cup {b}, content)) = Cardinality(CellsOf(A, content)) + Len(content[b])
    BY <2>2, <2>3, CellsAdd
  <2> QED
    BY <1>10, <2>3, <2>4, FS_CardinalityType
<1>12. /\ elements'[p] = Cardinality(Cells(p)') /\ elements' \in [F!Partition -> Nat]
       /\ \A q \in F!Partition : q # p => elements'[q] = elements[q]
  <2>1. elements \in [F!Partition -> Nat] /\ elements[p] = Cardinality(Cells(p))
    BY <1>2 DEF ListInv, BatchTypes, CountKept
  <2>2. elements[p] + Len(content[b]) = Cardinality(Cells(p)') /\ elements[p] + Len(content[b]) \in Nat
    BY <1>10, <1>11, <2>1, ListAssumption
  <2> QED
    BY <1>1, <1>4, <2>1, <2>2
<1>13. CountKept'
  <2> SUFFICES ASSUME NEW q \in F!Partition PROVE IsFiniteSet(Cells(q)') /\ elements'[q] = Cardinality(Cells(q)')
    BY DEF CountKept, F!Partition
  <2>1. CASE q = p
    BY <1>11, <1>12, <2>1
  <2>2. CASE q # p
    BY <1>2, <1>5, <1>9, <1>12, <2>2 DEF CountKept, Cells
  <2> QED
    BY <2>1, <2>2
<1>14. Proper(full)' /\ Proper(empty)'
  BY <1>1, <1>2, <1>5, NewLists
<1>15. /\ handle' \in [ListThread -> F!Batch \cup {Nobody}] /\ handle'[t] = Nobody
       /\ \A u \in ListThread : u # t => handle'[u] = handle[u]
  BY HandleMoves
<1>16. BatchTypes'
  BY <1>12, <1>15 DEF ListInv, BatchTypes
<1> QED
  BY <1>8, <1>13, <1>14, <1>15, <1>16 DEF BatchesKept

(* A batch in a handle may change, the lists do not notice. *)
LEMMA ContentKeeps ==
  ASSUME ListInv, NEW t \in ListThread, NEW b \in F!Batch, handle[t] = b,
         NEW q \in Seq(Element), Len(q) <= BatchSize, content' = [content EXCEPT ![b] = q],
         UNCHANGED <<full, empty, elements, handle, exits>>
  PROVE  BatchTypes' /\ BatchesKept'
<1>1. /\ content' \in [F!Batch -> Seq(Element)] /\ content'[b] = q
      /\ \A c \in F!Batch : c # b => content'[c] = content[c]
  BY DEF ListInv, BatchTypes
<1>2. BatchTypes'
  BY <1>1 DEF ListInv, BatchTypes
<1>3. Proper(full) /\ Proper(empty) /\ HandlesApart /\ CountKept /\ \A c \in F!Batch : BatchKept(c)
  BY DEF ListInv, BatchesKept
<1>4. ~ Listed(full, b) /\ ~ Listed(empty, b)
  BY <1>3 DEF BatchKept, Held
<1>5. \A c \in F!Batch : BatchKept(c)'
  <2> SUFFICES ASSUME NEW c \in F!Batch PROVE BatchKept(c)'
    BY DEF F!Batch
  <2>1. /\ (Listed(full, c)' <=> Listed(full, c)) /\ (Listed(empty, c)' <=> Listed(empty, c))
        /\ (Held(c)' <=> Held(c)) /\ BatchKept(c)
    BY <1>3, NewLists DEF Held
  <2>2. CASE c = b
    BY <1>4, <2>1, <2>2 DEF BatchKept
  <2>3. CASE c # b
    BY <1>1, <2>1, <2>3 DEF BatchKept
  <2> QED
    BY <2>2, <2>3
<1>6. ASSUME NEW p \in F!Partition PROVE Cells(p)' = Cells(p)
  <2>1. ASSUME NEW c \in Elems(full[p]) PROVE c \in F!Batch /\ c # b
    <3>1. F!Queue(c) = p /\ full[p] \in Seq(F!Batch)
      BY <1>3 DEF Proper
    <3>2. PICK i \in 1..Len(full[p]) : c = full[p][i]
      BY DEF Elems
    <3> QED
      BY <1>4, <3>1, <3>2 DEF Listed
  <2>2. \A c \in Elems(full[p]) : content'[c] = content[c]
    BY <1>1, <2>1
  <2>3. Cells(p)' = CellsOf(Elems(full[p]), content')
    BY NewLists
  <2> QED
    BY <2>2, <2>3 DEF Cells, CellsOf
<1>7. CountKept'
  BY <1>3, <1>6 DEF CountKept, F!Partition
<1>8. Proper(full)' /\ Proper(empty)'
  BY <1>3, NewLists
<1>9. HandlesApart'
  BY <1>3 DEF HandlesApart
<1> QED
  BY <1>2, <1>5, <1>7, <1>8, <1>9 DEF BatchesKept

-----------------------------------------------------------------------------
(* Elements move *)

(* Thread t goes on with o. *)
OpMoves(t, o) ==
  /\ op' = [op EXCEPT ![t] = o] /\ o \in Ops /\ out' \subseteq Element
  /\ o.e # Nobody <=> o.pc \in {"push", "pushMore", "pushScan"}
  /\ o.pc \in {"pushMore", "pushScan", "popMore", "popScan"} => handle'[t] = Nobody
  /\ o.pc \in {"pushScan", "popScan"} => o.scan \in F!Partition
  /\ \A u \in ListThread : u # t => handle'[u] = handle[u]

(* The other threads go on with what they do. *)
LEMMA OpMoved ==
  ASSUME ListInv, NEW t \in ListThread, NEW o, OpMoves(t, o)
  PROVE  OpsKept' /\ op'[t] = o /\ \A u \in ListThread : u # t => op'[u] = op[u]
<1>1. /\ op' \in [ListThread -> Ops] /\ op'[t] = o /\ \A u \in ListThread : u # t => op'[u] = op[u]
  BY DEF OpMoves, ListInv, OpsKept
<1>2. /\ out' \subseteq Element
      /\ \A u \in ListThread : op'[u].e # Nobody <=> op'[u].pc \in {"push", "pushMore", "pushScan"}
  BY <1>1 DEF OpMoves, ListInv, OpsKept
<1>3. \A u \in ListThread : op'[u].pc \in {"pushMore", "pushScan", "popMore", "popScan"} => handle'[u] = Nobody
  BY <1>1 DEF OpMoves, ListInv, OpsKept
<1>4. \A u \in ListThread : op'[u].pc \in {"pushScan", "popScan"} => op'[u].scan \in F!Partition
  BY <1>1 DEF OpMoves, ListInv, OpsKept
<1>5. OpsKept'
  BY ONLY <1>1, <1>2, <1>3, <1>4 DEF OpsKept, Ops, F!Partition
<1> QED
  BY <1>1, <1>5

(* The elements stay where they are. *)
LEMMA SameElements ==
  ASSUME ListInv, UNCHANGED <<content, out>>, \A t \in ListThread : op'[t].e = op[t].e
  PROVE  ElementsKept'
<1>1. \A e : (InBatch(e)' <=> InBatch(e)) /\ (Pushing(e)' <=> Pushing(e))
  BY DEF InBatch, Pushing
<1>2. \A e \in Element : ElementKept(e)'
  BY <1>1 DEF ListInv, ElementsKept, ElementKept
<1>3. OpsApart' /\ ContentApart'
  BY DEF ListInv, ElementsKept, OpsApart, ContentApart
<1> QED
  BY <1>2, <1>3 DEF ElementsKept

(* Thread t goes on, the batches are where they should be. *)
LEMMA GoesOn ==
  ASSUME ListInv, BatchTypes', BatchesKept', NEW t \in ListThread, NEW o, OpMoves(t, o), o.e = op[t].e,
         UNCHANGED <<content, out>>
  PROVE  ListInv'
<1>1. OpsKept' /\ op'[t] = o /\ \A u \in ListThread : u # t => op'[u] = op[u]
  BY OpMoved
<1>2. \A u \in ListThread : op'[u].e = op[u].e
  BY <1>1
<1>3. ElementsKept'
  BY <1>2, SameElements
<1> QED
  BY <1>1, <1>3 DEF ListInv

(* What thread t is doing, and the record of a thread that rests *)
LEMMA OpTypes ==
  ASSUME ListInv, NEW t \in ListThread
  PROVE  /\ op[t] \in Ops /\ (op[t].e # Nobody <=> op[t].pc \in {"push", "pushMore", "pushScan"})
         /\ (op[t].pc \in {"pushMore", "pushScan", "popMore", "popScan"} => handle[t] = Nobody)
         /\ (op[t].pc \in {"pushScan", "popScan"} => op[t].scan \in F!Partition)
         /\ F!Rest \in Ops /\ F!Rest.e = Nobody /\ F!Rest.pc = "rest" /\ out \subseteq Element
         /\ handle[t] \in F!Batch \cup {Nobody}
BY DEF ListInv, OpsKept, BatchTypes, F!Rest, Ops

(* No list, batch and handle is touched. *)
LEMMA SameBatches ==
  ASSUME ListInv, UNCHANGED <<content, full, empty, elements, handle, exits>>
  PROVE  BatchTypes' /\ BatchesKept'
<1>1. BatchTypes'
  BY DEF ListInv, BatchTypes
<1>2. Proper(full)' /\ Proper(empty)'
  BY NewLists DEF ListInv, BatchesKept
<1>3. \A b \in F!Batch : BatchKept(b)'
  <2> SUFFICES ASSUME NEW b \in F!Batch PROVE BatchKept(b)'
    BY DEF F!Batch
  <2>1. /\ (Listed(full, b)' <=> Listed(full, b)) /\ (Listed(empty, b)' <=> Listed(empty, b))
        /\ (Held(b)' <=> Held(b)) /\ BatchKept(b)
    BY NewLists DEF Held, ListInv, BatchesKept
  <2> QED
    BY <2>1 DEF BatchKept
<1>4. HandlesApart' /\ CountKept'
  BY DEF ListInv, BatchesKept, HandlesApart, CountKept, Cells, F!Partition
<1> QED
  BY <1>1, <1>2, <1>3, <1>4 DEF BatchesKept

(* try_push is called. *)
LEMMA PushElementKeeps ==
  ASSUME ListInv, NEW t \in ListThread, NEW e \in Element, F!Push(t, e)
  PROVE  ListInv'
<1>1. PICK o : o = [F!Rest EXCEPT !.pc = "push", !.e = e]
  OBVIOUS
<1>2. o \in Ops /\ o.pc = "push" /\ o.e = e
  BY <1>1 DEF F!Rest, Ops
<1>3. /\ op[t] = F!Rest /\ e \in out /\ out' = out \ {e} /\ op' = [op EXCEPT ![t] = o]
      /\ UNCHANGED <<content, full, empty, elements, handle, exits>>
  BY <1>1 DEF F!Push
<1>4. OpsKept' /\ op'[t] = o /\ \A u \in ListThread : u # t => op'[u] = op[u]
  <2>1. OpMoves(t, o)
    BY <1>2, <1>3, OpTypes, ListAssumption DEF OpMoves
  <2> QED
    BY <2>1, OpMoved
<1>5. BatchTypes' /\ BatchesKept'
  BY <1>3, SameBatches
<1>6. op[t].e = Nobody
  BY <1>3, OpTypes
<1>7. ~ Pushing(e) /\ ~ InBatch(e) /\ OpsApart /\ ContentApart /\ \A x \in Element : ElementKept(x)
  BY <1>3 DEF ListInv, ElementsKept, ElementKept
<1>8. \A x \in Element : (InBatch(x)' <=> InBatch(x)) /\ (Pushing(x)' <=> Pushing(x) \/ x = e)
  <2>1. \A x \in Element : InBatch(x)' <=> InBatch(x)
    BY <1>3 DEF InBatch
  <2>2. \A x \in Element : Pushing(x)' <=> Pushing(x) \/ x = e
    BY <1>2, <1>4, <1>6, ListAssumption DEF Pushing
  <2> QED
    BY <2>1, <2>2
<1>9. \A x \in Element : ElementKept(x)'
  BY <1>3, <1>7, <1>8 DEF ElementKept
<1>10. OpsApart'
  BY <1>2, <1>4, <1>7 DEF OpsApart, Pushing
<1>11. ContentApart'
  BY <1>3, <1>7 DEF ContentApart
<1> QED
  BY <1>4, <1>5, <1>9, <1>10, <1>11 DEF ListInv, ElementsKept

(* An element comes to the end of a batch, *)
LEMMA PutContent ==
  ASSUME ListInv, NEW b \in F!Batch, NEW e \in Element, ~ InBatch(e),
         content' = [content EXCEPT ![b] = Append(content[b], e)]
  PROVE  ContentApart' /\ \A x \in Element : InBatch(x)' <=> InBatch(x) \/ x = e
<1>1. content[b] \in Seq(Element) /\ \A c \in F!Batch : content[c] \in Seq(Element)
  BY DEF ListInv, BatchTypes
<1>2. PICK n \in Nat : n = Len(content[b])
  BY <1>1
<1>3. /\ Len(content'[b]) = n + 1 /\ content'[b][n + 1] = e /\ \A i \in 1..n : content'[b][i] = content[b][i]
      /\ \A c \in F!Batch : c # b => content'[c] = content[c]
  <2>1. content'[b] = Append(content[b], e) /\ \A c \in F!Batch : c # b => content'[c] = content[c]
    BY DEF ListInv, BatchTypes
  <2> QED
    BY <1>1, <1>2, <2>1
<1>4. ASSUME NEW c \in F!Batch, NEW i \in 1..Len(content'[c])
      PROVE  (i \in 1..Len(content[c]) /\ content'[c][i] = content[c][i]) \/ (c = b /\ i = n + 1 /\ content'[c][i] = e)
  <2>1. CASE c = b
    BY <1>2, <1>3, <2>1
  <2>2. CASE c # b
    BY <1>3, <2>2
  <2> QED
    BY <2>1, <2>2
<1>5. ASSUME NEW c \in F!Batch, NEW i \in 1..Len(content[c])
      PROVE  i \in 1..Len(content'[c]) /\ content'[c][i] = content[c][i] /\ content[c][i] # e
  <2>1. content[c][i] # e
    BY DEF InBatch
  <2>2. CASE c = b
    BY <1>2, <1>3, <2>1, <2>2
  <2>3. CASE c # b
    BY <1>3, <2>1, <2>3
  <2> QED
    BY <2>2, <2>3
<1>6. \A x \in Element : InBatch(x)' <=> InBatch(x) \/ x = e
  <2>1. ASSUME NEW x \in Element, InBatch(x)' PROVE InBatch(x) \/ x = e
    <3>1. PICK c \in F!Batch : \E i \in 1..Len(content'[c]) : content'[c][i] = x
      BY <2>1 DEF InBatch, F!Batch
    <3> QED
      BY <1>4, <3>1 DEF InBatch
  <2>2. ASSUME NEW x \in Element, InBatch(x) PROVE InBatch(x)'
    BY <1>5, <2>2 DEF InBatch, F!Batch
  <2>3. InBatch(e)'
    <3>1. n + 1 \in 1..Len(content'[b]) /\ content'[b][n + 1] = e
      BY <1>3
    <3> QED
      BY <3>1 DEF InBatch, F!Batch
  <2> QED
    BY <2>1, <2>2, <2>3
<1>7. ContentApart
  BY DEF ListInv, ElementsKept
<1>8. ASSUME NEW c \in F!Batch, NEW d \in F!Batch, NEW i \in 1..Len(content'[c]), NEW j \in 1..Len(content'[d]),
             content'[c][i] = content'[d][j]
      PROVE  c = d /\ i = j
  BY <1>4, <1>5, <1>7, <1>8 DEF ContentApart
<1>9. ContentApart'
  BY <1>8 DEF ContentApart, F!Batch
<1> QED
  BY <1>6, <1>9

(* and leaves it there. *)
LEMMA TakeContent ==
  ASSUME ListInv, NEW b \in F!Batch, content[b] # <<>>,
         content' = [content EXCEPT ![b] = SubSeq(content[b], 1, Len(content[b]) - 1)]
  PROVE  /\ ContentApart' /\ content[b][Len(content[b])] \in Element /\ InBatch(content[b][Len(content[b])])
         /\ \A x \in Element : InBatch(x)' <=> InBatch(x) /\ x # content[b][Len(content[b])]
<1>1. content[b] \in Seq(Element)
  BY DEF ListInv, BatchTypes
<1>2. PICK n \in Nat : n + 1 = Len(content[b])
  BY <1>1
<1>3. PICK e : e = content[b][n + 1]
  OBVIOUS
<1>4. /\ Len(content'[b]) = n /\ \A i \in 1..n : content'[b][i] = content[b][i]
      /\ \A c \in F!Batch : c # b => content'[c] = content[c]
  <2>1. content'[b] = SubSeq(content[b], 1, n) /\ \A c \in F!Batch : c # b => content'[c] = content[c]
    BY <1>2 DEF ListInv, BatchTypes
  <2> QED
    BY <1>1, <1>2, <2>1
<1>5. ContentApart
  BY DEF ListInv, ElementsKept
<1>6. n + 1 \in 1..Len(content[b]) /\ e \in Element
  BY <1>1, <1>2, <1>3
<1>7. ASSUME NEW c \in F!Batch, NEW i \in 1..Len(content'[c])
      PROVE  i \in 1..Len(content[c]) /\ content'[c][i] = content[c][i] /\ content[c][i] # e
  <2>1. CASE c = b
    <3>1. i \in 1..n /\ i \in 1..Len(content[b]) /\ i # n + 1
      BY <1>2, <1>4, <2>1
    <3>2. content[b][i] # e
      BY <1>3, <1>5, <1>6, <3>1 DEF ContentApart
    <3> QED
      BY <1>4, <2>1, <3>1, <3>2
  <2>2. CASE c # b
    BY <1>3, <1>4, <1>5, <1>6, <2>2 DEF ContentApart
  <2> QED
    BY <2>1, <2>2
<1>8. ASSUME NEW c \in F!Batch, NEW i \in 1..Len(content[c]), content[c][i] # e
      PROVE  i \in 1..Len(content'[c]) /\ content'[c][i] = content[c][i]
  <2>1. CASE c = b
    <3>1. i # n + 1
      BY <1>3, <1>8, <2>1
    <3>2. i \in 1..n
      BY <1>2, <2>1, <3>1
    <3> QED
      BY <1>4, <2>1, <3>2
  <2>2. CASE c # b
    BY <1>4, <2>2
  <2> QED
    BY <2>1, <2>2
<1>9. \A x \in Element : InBatch(x)' <=> InBatch(x) /\ x # e
  <2>1. ASSUME NEW x \in Element, InBatch(x)' PROVE InBatch(x) /\ x # e
    <3>1. PICK c \in F!Batch : \E i \in 1..Len(content'[c]) : content'[c][i] = x
      BY <2>1 DEF InBatch, F!Batch
    <3> QED
      BY <1>7, <3>1 DEF InBatch
  <2>2. ASSUME NEW x \in Element, InBatch(x), x # e PROVE InBatch(x)'
    BY <1>8, <2>2 DEF InBatch, F!Batch
  <2> QED
    BY <2>1, <2>2
<1>10. ASSUME NEW c \in F!Batch, NEW d \in F!Batch, NEW i \in 1..Len(content'[c]), NEW j \in 1..Len(content'[d]),
             content'[c][i] = content'[d][j]
      PROVE  c = d /\ i = j
  BY <1>5, <1>7, <1>10 DEF ContentApart
<1>11. ContentApart'
  BY <1>10 DEF ContentApart, F!Batch
<1>12. InBatch(e)
  BY <1>3, <1>6 DEF InBatch
<1> QED
  BY <1>2, <1>3, <1>6, <1>9, <1>11, <1>12

-----------------------------------------------------------------------------
(* The steps of try_push and try_pop *)

(* The element goes into the batch of the thread. *)
LEMMA PutElementKeeps ==
  ASSUME ListInv, NEW t \in ListThread, F!Put(t)
  PROVE  ListInv'
<1>1. PICK b, e : b = handle[t] /\ e = op[t].e
  OBVIOUS
<1>2. /\ op[t].pc = "push" /\ b # Nobody /\ Len(content[b]) < BatchSize
      /\ content' = [content EXCEPT ![b] = Append(content[b], e)] /\ op' = [op EXCEPT ![t] = F!Rest]
      /\ UNCHANGED <<full, empty, elements, handle, out, exits>>
  BY <1>1 DEF F!Put, F!Done
<1>3. b \in F!Batch /\ e \in Element /\ op[t].e = e
  BY <1>1, <1>2, OpTypes DEF Ops
<1>4. Append(content[b], e) \in Seq(Element) /\ Len(Append(content[b], e)) <= BatchSize
  <2>1. content[b] \in Seq(Element)
    BY <1>3 DEF ListInv, BatchTypes
  <2> QED
    BY <1>2, <1>3, <2>1, ListAssumption
<1>5. BatchTypes' /\ BatchesKept'
  BY <1>1, <1>2, <1>3, <1>4, ContentKeeps
<1>6. OpsKept' /\ op'[t] = F!Rest /\ \A u \in ListThread : u # t => op'[u] = op[u]
  <2>1. OpMoves(t, F!Rest)
    BY <1>2, OpTypes DEF OpMoves
  <2> QED
    BY <2>1, OpMoved
<1>7. OpsApart /\ Pushing(e) /\ ~ InBatch(e) /\ e \notin out /\ \A x \in Element : ElementKept(x)
  BY <1>3 DEF ListInv, ElementsKept, ElementKept, Pushing
<1>8. ContentApart' /\ \A x \in Element : InBatch(x)' <=> InBatch(x) \/ x = e
  BY <1>2, <1>3, <1>7, PutContent
<1>9. F!Rest.e = Nobody
  BY OpTypes
<1>10. \A x \in Element : Pushing(x)' <=> Pushing(x) /\ x # e
  BY <1>3, <1>6, <1>7, <1>9, ListAssumption DEF Pushing, OpsApart
<1>11. \A x \in Element : ElementKept(x)'
  BY <1>2, <1>7, <1>8, <1>10 DEF ElementKept
<1>12. OpsApart'
  BY <1>6, <1>7, <1>9 DEF OpsApart
<1> QED
  BY <1>5, <1>6, <1>8, <1>11, <1>12 DEF ListInv, ElementsKept

(* An element is taken from it. *)
LEMMA TakeElementKeeps ==
  ASSUME ListInv, NEW t \in ListThread, F!Take(t)
  PROVE  ListInv'
<1>1. PICK b, e : b = handle[t] /\ e = content[b][Len(content[b])]
  OBVIOUS
<1>2. /\ op[t].pc = "pop" /\ b # Nobody /\ content[b] # <<>> /\ out' = out \cup {e}
      /\ content' = [content EXCEPT ![b] = SubSeq(content[b], 1, Len(content[b]) - 1)]
      /\ op' = [op EXCEPT ![t] = F!Rest] /\ UNCHANGED <<full, empty, elements, handle, exits>>
  BY <1>1 DEF F!Take, F!Done
<1>3. b \in F!Batch /\ op[t].e = Nobody
  BY <1>1, <1>2, OpTypes
<1>4. /\ SubSeq(content[b], 1, Len(content[b]) - 1) \in Seq(Element)
      /\ Len(SubSeq(content[b], 1, Len(content[b]) - 1)) <= BatchSize
  <2>1. content[b] \in Seq(Element) /\ Len(content[b]) \in 0..BatchSize
    BY <1>3, Lengths DEF ListInv, BatchTypes
  <2> QED
    BY <1>2, <2>1, ListAssumption
<1>5. BatchTypes' /\ BatchesKept'
  BY <1>1, <1>2, <1>3, <1>4, ContentKeeps
<1>6. /\ ContentApart' /\ e \in Element /\ InBatch(e) /\ \A x \in Element : InBatch(x)' <=> InBatch(x) /\ x # e
  BY <1>1, <1>2, <1>3, TakeContent
<1>7. OpsKept' /\ op'[t] = F!Rest /\ \A u \in ListThread : u # t => op'[u] = op[u]
  <2>1. OpMoves(t, F!Rest)
    BY <1>2, <1>6, OpTypes DEF OpMoves
  <2> QED
    BY <2>1, OpMoved
<1>8. \A u \in ListThread : op'[u].e = op[u].e
  BY <1>3, <1>7, OpTypes
<1>9. \A x \in Element : (Pushing(x)' <=> Pushing(x)) /\ ElementKept(x)
  BY <1>8 DEF Pushing, ListInv, ElementsKept
<1>10. \A x \in Element : ElementKept(x)'
  BY <1>2, <1>6, <1>9 DEF ElementKept
<1>11. OpsApart'
  BY <1>8 DEF ListInv, ElementsKept, OpsApart
<1> QED
  BY <1>5, <1>6, <1>7, <1>10, <1>11 DEF ListInv, ElementsKept

(* The batch of the thread is full, *)
LEMMA GiveFullKeeps ==
  ASSUME ListInv, NEW t \in ListThread, F!GiveFull(t)
  PROVE  ListInv'
<1>1. PICK b, o : b = handle[t] /\ o = [op[t] EXCEPT !.pc = "pushMore"]
  OBVIOUS
<1>2. /\ op[t].pc = "push" /\ b # Nobody /\ Len(content[b]) = BatchSize /\ F!PushFull(b)
      /\ handle' = [handle EXCEPT ![t] = Nobody] /\ op' = [op EXCEPT ![t] = o] /\ UNCHANGED <<content, out, exits>>
  BY <1>1 DEF F!GiveFull, F!Goto
<1>3. b \in F!Batch /\ content[b] # <<>> /\ exits \in Nat
  BY <1>1, <1>2, OpTypes, ListAssumption DEF ListInv, BatchTypes
<1>4. BatchTypes' /\ BatchesKept' /\ handle'[t] = Nobody /\ \A u \in ListThread : u # t => handle'[u] = handle[u]
  BY <1>1, <1>2, <1>3, PushFullKeeps
<1>5. o \in Ops /\ o.pc = "pushMore" /\ o.e = op[t].e /\ o.e # Nobody
  BY <1>1, <1>2, OpTypes DEF Ops
<1>6. OpMoves(t, o)
  BY <1>2, <1>4, <1>5, OpTypes DEF OpMoves
<1> QED
  BY <1>2, <1>4, <1>5, <1>6, GoesOn

(* or empty. *)
LEMMA GiveEmptyKeeps ==
  ASSUME ListInv, NEW t \in ListThread, F!GiveEmpty(t)
  PROVE  ListInv'
<1>1. PICK b, o : b = handle[t] /\ o = [op[t] EXCEPT !.pc = "popMore"]
  OBVIOUS
<1>2. /\ op[t].pc = "pop" /\ b # Nobody /\ content[b] = <<>> /\ F!PushEmpty(b)
      /\ handle' = [handle EXCEPT ![t] = Nobody] /\ op' = [op EXCEPT ![t] = o] /\ UNCHANGED <<content, out, exits>>
  BY <1>1 DEF F!GiveEmpty, F!Goto
<1>3. b \in F!Batch /\ exits \in Nat
  BY <1>1, <1>2, OpTypes DEF ListInv, BatchTypes
<1>4. BatchTypes' /\ BatchesKept' /\ handle'[t] = Nobody /\ \A u \in ListThread : u # t => handle'[u] = handle[u]
  BY <1>1, <1>2, <1>3, PushEmptyKeeps
<1>5. o \in Ops /\ o.pc = "popMore" /\ o.e = op[t].e /\ o.e = Nobody
  BY <1>1, <1>2, OpTypes DEF Ops
<1>6. OpMoves(t, o)
  BY <1>2, <1>4, <1>5, OpTypes DEF OpMoves
<1> QED
  BY <1>2, <1>4, <1>5, <1>6, GoesOn

(* The thread has found a batch and goes on with pc, *)
LEMMA Finds ==
  ASSUME ListInv, NEW t \in ListThread, NEW p \in F!Partition, handle[t] = Nobody, UNCHANGED <<content, out, exits>>,
         NEW o, op' = [op EXCEPT ![t] = o], o \in Ops, o.e = op[t].e,
         \/ F!PopEmpty(t, p) /\ o.pc = "push" /\ o.e # Nobody
         \/ F!PopFull(t, p) /\ o.pc = "pop" /\ o.e = Nobody
  PROVE  ListInv'
<1>1. BatchTypes' /\ BatchesKept' /\ \A u \in ListThread : u # t => handle'[u] = handle[u]
  BY PopEmptyKeeps, PopFullKeeps
<1>2. OpMoves(t, o)
  BY <1>1, OpTypes DEF OpMoves
<1> QED
  BY <1>1, <1>2, GoesOn

(* or has to look on. *)
LEMMA LooksOn ==
  ASSUME ListInv, NEW t \in ListThread, UNCHANGED <<content, full, empty, elements, handle, out, exits>>,
         NEW o, op' = [op EXCEPT ![t] = o], o \in Ops, o.e = op[t].e,
         o.e # Nobody <=> o.pc \in {"push", "pushMore", "pushScan"},
         o.pc \in {"pushMore", "pushScan", "popMore", "popScan"} => handle[t] = Nobody,
         o.pc \in {"pushScan", "popScan"} => o.scan \in F!Partition
  PROVE  ListInv'
<1>1. BatchTypes' /\ BatchesKept'
  BY SameBatches
<1>2. OpMoves(t, o)
  BY OpTypes DEF OpMoves
<1> QED
  BY <1>1, <1>2, GoesOn

(* try_push without a batch *)
LEMMA PushFirstKeeps ==
  ASSUME ListInv, NEW t \in ListThread, F!PushFirst(t)
  PROVE  ListInv'
<1>1. PICK p \in F!Partition : F!PopEmpty(t, p)
  BY DEF F!PushFirst
<1>2. /\ op[t].pc = "push" /\ handle[t] = Nobody /\ UNCHANGED <<content, out, op, exits>>
  BY DEF F!PushFirst
<1>3. op' = [op EXCEPT ![t] = op[t]] /\ op[t] \in Ops /\ op[t].e # Nobody
  BY <1>2, OpTypes DEF ListInv, OpsKept
<1> QED
  BY <1>1, <1>2, <1>3, Finds

(* A push without a batch tries a partition at random, *)
LEMMA PushMoreKeeps ==
  ASSUME ListInv, NEW t \in ListThread, F!PushMore(t)
  PROVE  ListInv'
<1>1. PICK p \in F!Partition :
        \/ F!PopEmpty(t, p) /\ F!Goto(t, "push")
        \/ /\ empty[p] = <<>> /\ op' = [op EXCEPT ![t].pc = "pushScan", ![t].scan = 1]
           /\ UNCHANGED <<full, empty, elements, handle>>
  BY DEF F!PushMore
<1>2. op[t].pc = "pushMore" /\ UNCHANGED <<content, out, exits>>
  BY DEF F!PushMore
<1>3. op[t] \in Ops /\ op[t].e # Nobody /\ handle[t] = Nobody /\ op \in [ListThread -> Ops]
  BY <1>2, OpTypes DEF ListInv, OpsKept
<1>4. CASE F!PopEmpty(t, p) /\ F!Goto(t, "push")
  <2>1. PICK o : o = [op[t] EXCEPT !.pc = "push"]
    OBVIOUS
  <2>2. o \in Ops /\ o.pc = "push" /\ o.e = op[t].e /\ op' = [op EXCEPT ![t] = o]
    BY <1>3, <1>4, <2>1 DEF Ops, F!Goto
  <2> QED
    BY <1>2, <1>3, <1>4, <2>2, Finds
<1>5. CASE op' = [op EXCEPT ![t].pc = "pushScan", ![t].scan = 1] /\ UNCHANGED <<full, empty, elements, handle>>
  <2>1. PICK o : o = [op[t] EXCEPT !.pc = "pushScan", !.scan = 1]
    OBVIOUS
  <2>2. o \in Ops /\ o.pc = "pushScan" /\ o.e = op[t].e /\ o.scan = 1 /\ op' = [op EXCEPT ![t] = o]
    BY <1>3, <1>5, <2>1 DEF Ops
  <2>3. 1 \in F!Partition
    BY <1>1, ListAssumption DEF F!Partition
  <2> QED
    BY <1>2, <1>3, <1>5, <2>2, <2>3, LooksOn
<1> QED
  BY <1>1, <1>4, <1>5

(* All partitions are tried in turn. *)
LEMMA NextPartitionKeeps ==
  ASSUME ListInv, NEW t \in ListThread, NEW pc, NEW end, F!NextPartition(t, pc, end), UNCHANGED <<content, out, exits>>,
         op[t].pc = pc, (pc = "pushScan" /\ end = "push") \/ (pc = "popScan" /\ end = "rest")
  PROVE  ListInv'
<1>1. /\ op[t] \in Ops /\ handle[t] = Nobody /\ op \in [ListThread -> Ops] /\ op[t].scan \in F!Partition
      /\ op[t].e # Nobody <=> pc = "pushScan"
  BY OpTypes DEF ListInv, OpsKept
<1>2. PICK o : o = op'[t]
  OBVIOUS
<1>3. /\ o = IF op[t].scan < Partitions THEN [op[t] EXCEPT !.pc = pc, !.scan = op[t].scan + 1]
            ELSE IF end = "rest" THEN F!Rest ELSE [op[t] EXCEPT !.pc = end, !.scan = 0]
      /\ op' = [op EXCEPT ![t] = o] /\ UNCHANGED <<full, empty, elements, handle>>
  BY <1>1, <1>2 DEF F!NextPartition
<1>4. CASE op[t].scan < Partitions
  <2>1. o = [op[t] EXCEPT !.pc = pc, !.scan = op[t].scan + 1]
    BY <1>3, <1>4
  <2>2. op[t].scan + 1 \in F!Partition /\ op[t].scan + 1 \in Nat
    BY <1>1, <1>4, ListAssumption DEF F!Partition
  <2>3. o \in Ops /\ o.pc = pc /\ o.scan = op[t].scan + 1 /\ o.e = op[t].e
    BY <1>1, <2>1, <2>2 DEF Ops
  <2> QED
    BY <1>1, <1>3, <2>2, <2>3, LooksOn
<1>5. CASE ~ (op[t].scan < Partitions) /\ end = "rest"
  <2>1. o = F!Rest
    BY <1>3, <1>5
  <2>2. o \in Ops /\ o.pc = "rest" /\ o.e = op[t].e /\ o.e = Nobody
    BY <1>1, <1>5, <2>1, OpTypes
  <2> QED
    BY <1>3, <2>2, LooksOn
<1>6. CASE ~ (op[t].scan < Partitions) /\ end = "push"
  <2>1. o = [op[t] EXCEPT !.pc = "push", !.scan = 0]
    BY <1>3, <1>6
  <2>2. o \in Ops /\ o.pc = "push" /\ o.e = op[t].e /\ o.e # Nobody
    BY <1>1, <1>6, <2>1 DEF Ops
  <2> QED
    BY <1>3, <2>2, LooksOn
<1> QED
  BY <1>4, <1>5, <1>6

(* and for a push until one has an empty batch. *)
LEMMA PushScanKeeps ==
  ASSUME ListInv, NEW t \in ListThread, F!PushScan(t)
  PROVE  ListInv'
<1>1. PICK p : p = op[t].scan
  OBVIOUS
<1>2. /\ op[t].pc = "pushScan" /\ UNCHANGED <<content, out, exits>>
      /\ \/ F!PopEmpty(t, p) /\ op' = [op EXCEPT ![t].pc = "push", ![t].scan = 0]
         \/ F!NextPartition(t, "pushScan", "push")
  BY <1>1 DEF F!PushScan
<1>3. op[t] \in Ops /\ op[t].e # Nobody /\ handle[t] = Nobody /\ op \in [ListThread -> Ops] /\ p \in F!Partition
  BY <1>1, <1>2, OpTypes DEF ListInv, OpsKept
<1>4. CASE F!PopEmpty(t, p) /\ op' = [op EXCEPT ![t].pc = "push", ![t].scan = 0]
  <2>1. PICK o : o = [op[t] EXCEPT !.pc = "push", !.scan = 0]
    OBVIOUS
  <2>2. o \in Ops /\ o.pc = "push" /\ o.e = op[t].e /\ op' = [op EXCEPT ![t] = o]
    BY <1>3, <1>4, <2>1 DEF Ops
  <2>3. F!PopEmpty(t, p) /\ o.pc = "push" /\ o.e # Nobody
    BY <1>3, <1>4, <2>2
  <2> QED
    BY ONLY ListInv, <1>2, <1>3, <2>2, <2>3, Finds
<1>5. CASE F!NextPartition(t, "pushScan", "push")
  BY <1>2, <1>5, NextPartitionKeeps
<1> QED
  BY <1>2, <1>4, <1>5

(* try_pop is called. *)
LEMMA PopElementKeeps ==
  ASSUME ListInv, NEW t \in ListThread, F!Pop(t)
  PROVE  ListInv'
<1>1. PICK o : o = [op[t] EXCEPT !.pc = "pop"]
  OBVIOUS
<1>2. op[t] = F!Rest /\ op' = [op EXCEPT ![t] = o] /\ UNCHANGED <<content, full, empty, elements, handle, out, exits>>
  BY <1>1 DEF F!Pop, F!Goto
<1>3. o \in Ops /\ o.pc = "pop" /\ o.e = op[t].e /\ o.e = Nobody
  BY <1>1, <1>2, OpTypes DEF Ops
<1> QED
  BY <1>2, <1>3, LooksOn

(* A pop without a batch tries a partition at random and gives up, *)
LEMMA PopFirstKeeps ==
  ASSUME ListInv, NEW t \in ListThread, F!PopFirst(t)
  PROVE  ListInv'
<1>1. PICK p \in F!Partition :
        \/ F!PopFull(t, p) /\ UNCHANGED op
        \/ F!PopFullFails(t, p) /\ F!Done(t) /\ UNCHANGED <<full, empty, elements, handle>>
  BY DEF F!PopFirst
<1>2. op[t].pc = "pop" /\ handle[t] = Nobody /\ UNCHANGED <<content, out, exits>>
  BY DEF F!PopFirst
<1>3. op[t] \in Ops /\ op[t].e = Nobody /\ op \in [ListThread -> Ops]
  BY <1>2, OpTypes DEF ListInv, OpsKept
<1>4. CASE F!PopFull(t, p) /\ UNCHANGED op
  <2>1. op' = [op EXCEPT ![t] = op[t]]
    BY <1>3, <1>4
  <2> QED
    BY <1>2, <1>3, <1>4, <2>1, Finds
<1>5. CASE F!Done(t) /\ UNCHANGED <<full, empty, elements, handle>>
  <2>1. op' = [op EXCEPT ![t] = F!Rest] /\ F!Rest \in Ops /\ F!Rest.e = op[t].e /\ F!Rest.e = Nobody /\ F!Rest.pc = "rest"
    BY <1>3, <1>5, OpTypes DEF F!Done
  <2> QED
    BY <1>2, <1>5, <2>1, LooksOn
<1> QED
  BY <1>1, <1>4, <1>5

(* one that has emptied its batch tries another partition, *)
LEMMA PopMoreKeeps ==
  ASSUME ListInv, NEW t \in ListThread, F!PopMore(t)
  PROVE  ListInv'
<1>1. PICK p \in F!Partition :
        \/ F!PopFull(t, p) /\ F!Goto(t, "pop")
        \/ /\ F!PopFullFails(t, p) /\ op' = [op EXCEPT ![t].pc = "popScan", ![t].scan = 1]
           /\ UNCHANGED <<full, empty, elements, handle>>
  BY DEF F!PopMore
<1>2. op[t].pc = "popMore" /\ UNCHANGED <<content, out, exits>>
  BY DEF F!PopMore
<1>3. op[t] \in Ops /\ op[t].e = Nobody /\ handle[t] = Nobody /\ op \in [ListThread -> Ops]
  BY <1>2, OpTypes DEF ListInv, OpsKept
<1>4. CASE F!PopFull(t, p) /\ F!Goto(t, "pop")
  <2>1. PICK o : o = [op[t] EXCEPT !.pc = "pop"]
    OBVIOUS
  <2>2. o \in Ops /\ o.pc = "pop" /\ o.e = op[t].e /\ op' = [op EXCEPT ![t] = o]
    BY <1>3, <1>4, <2>1 DEF Ops, F!Goto
  <2> QED
    BY <1>2, <1>3, <1>4, <2>2, Finds
<1>5. CASE op' = [op EXCEPT ![t].pc = "popScan", ![t].scan = 1] /\ UNCHANGED <<full, empty, elements, handle>>
  <2>1. PICK o : o = [op[t] EXCEPT !.pc = "popScan", !.scan = 1]
    OBVIOUS
  <2>2. o \in Ops /\ o.pc = "popScan" /\ o.e = op[t].e /\ o.scan = 1 /\ op' = [op EXCEPT ![t] = o]
    BY <1>3, <1>5, <2>1 DEF Ops
  <2>3. 1 \in F!Partition
    BY <1>1, ListAssumption DEF F!Partition
  <2>4. o.e = Nobody /\ o.scan \in F!Partition
    BY <1>3, <2>2, <2>3
  <2> QED
    BY ONLY ListInv, <1>2, <1>3, <1>5, <2>2, <2>4, LooksOn
<1> QED
  BY <1>1, <1>4, <1>5

(* and then all of them. *)
LEMMA PopScanKeeps ==
  ASSUME ListInv, NEW t \in ListThread, F!PopScan(t)
  PROVE  ListInv'
<1>1. PICK p : p = op[t].scan
  OBVIOUS
<1>2. /\ op[t].pc = "popScan" /\ UNCHANGED <<content, out, exits>>
      /\ \/ F!PopFull(t, p) /\ op' = [op EXCEPT ![t].pc = "pop", ![t].scan = 0]
         \/ F!NextPartition(t, "popScan", "rest")
  BY <1>1 DEF F!PopScan
<1>3. op[t] \in Ops /\ op[t].e = Nobody /\ handle[t] = Nobody /\ op \in [ListThread -> Ops] /\ p \in F!Partition
  BY <1>1, <1>2, OpTypes DEF ListInv, OpsKept
<1>4. CASE F!PopFull(t, p) /\ op' = [op EXCEPT ![t].pc = "pop", ![t].scan = 0]
  <2>1. PICK o : o = [op[t] EXCEPT !.pc = "pop", !.scan = 0]
    OBVIOUS
  <2>2. o \in Ops /\ o.pc = "pop" /\ o.e = op[t].e /\ op' = [op EXCEPT ![t] = o]
    BY <1>3, <1>4, <2>1 DEF Ops
  <2>3. F!PopFull(t, p) /\ o.pc = "pop" /\ o.e = Nobody
    BY <1>3, <1>4, <2>2
  <2> QED
    BY ONLY ListInv, <1>2, <1>3, <2>2, <2>3, Finds
<1>5. CASE F!NextPartition(t, "popScan", "rest")
  BY <1>2, <1>5, NextPartitionKeeps
<1> QED
  BY <1>2, <1>4, <1>5

(* ~BatchHandle: the thread ends and gives its batch back as it is. *)
LEMMA ExitKeeps ==
  ASSUME ListInv, NEW t \in ListThread, F!Exit(t)
  PROVE  ListInv'
<1>1. PICK b : b = handle[t]
  OBVIOUS
<1>2. /\ op[t] = F!Rest /\ b # Nobody /\ handle' = [handle EXCEPT ![t] = Nobody] /\ exits' = exits + 1
      /\ UNCHANGED <<content, out, op>>
      /\ \/ content[b] = <<>> /\ F!PushEmpty(b)
         \/ content[b] # <<>> /\ F!PushFull(b)
  BY <1>1 DEF F!Exit
<1>3. b \in F!Batch /\ exits' \in Nat /\ exits' # 0 /\ op' = [op EXCEPT ![t] = op[t]]
  BY <1>1, <1>2, OpTypes DEF ListInv, BatchTypes, OpsKept
<1>4. BatchTypes' /\ BatchesKept' /\ handle'[t] = Nobody /\ \A u \in ListThread : u # t => handle'[u] = handle[u]
  <2>1. CASE content[b] = <<>> /\ F!PushEmpty(b)
    BY <1>1, <1>2, <1>3, <2>1, PushEmptyKeeps
  <2>2. CASE content[b] # <<>> /\ F!PushFull(b)
    BY <1>1, <1>2, <1>3, <2>2, PushFullKeeps
  <2> QED
    BY <1>2, <2>1, <2>2
<1>5. OpMoves(t, op[t])
  BY <1>2, <1>3, <1>4, OpTypes DEF OpMoves
<1> QED
  BY <1>2, <1>4, <1>5, GoesOn

(* Every step keeps the invariant of the free lists. *)
LEMMA ListStep == ListInv /\ [F!Next]_listVars => ListInv'
<1> SUFFICES ASSUME ListInv, [F!Next]_listVars PROVE ListInv'
  OBVIOUS
<1>1. ASSUME NEW t \in ListThread, NEW e \in Element, F!Push(t, e) PROVE ListInv'
  BY <1>1, PushElementKeeps
<1>2. ASSUME NEW t \in ListThread,
             F!PushFirst(t) \/ F!Put(t) \/ F!GiveFull(t) \/ F!PushMore(t) \/ F!PushScan(t)
      PROVE  ListInv'
  BY <1>2, PushFirstKeeps, PutElementKeeps, GiveFullKeeps, PushMoreKeeps, PushScanKeeps
<1>3. ASSUME NEW t \in ListThread,
             F!Pop(t) \/ F!PopFirst(t) \/ F!Take(t) \/ F!GiveEmpty(t) \/ F!PopMore(t) \/ F!PopScan(t) \/ F!Exit(t)
      PROVE  ListInv'
  BY <1>3, PopElementKeeps, PopFirstKeeps, TakeElementKeeps, GiveEmptyKeeps, PopMoreKeeps, PopScanKeeps, ExitKeeps
<1>4. CASE UNCHANGED listVars
  <2>1. UNCHANGED <<content, full, empty, elements, handle, out, op, exits>>
    BY <1>4 DEF listVars
  <2>2. BatchTypes' /\ BatchesKept'
    BY <2>1, SameBatches
  <2>3. ElementsKept'
    BY <2>1, SameElements
  <2>4. OpsKept'
    BY <2>1 DEF ListInv, OpsKept
  <2> QED
    BY <2>2, <2>3, <2>4 DEF ListInv
<1> QED
  BY <1>1, <1>2, <1>3, <1>4 DEF F!Next

-----------------------------------------------------------------------------
(* The memory of the network cards *)

(* the type of its state *)
Requests == [pc : {"idle", "locked", "aligned"}, bytes : Nat, alignment : Nat \ {0}]
MemoryTypes ==
  /\ bufferPosition \in Nat /\ sizeLeft \in Nat /\ bufferPosition + sizeLeft = bufferSize
  /\ request \in [MemoryThreads -> Requests]

(* Who has the mutex has moved the position to its alignment, and the piece fits. *)
OneAligns ==
  /\ \A t \in MemoryThreads : request[t].pc # "idle" => mutex = {t}
  /\ \A t \in MemoryThreads : request[t].pc = "aligned" =>
       bufferPosition % request[t].alignment = 0 /\ request[t].bytes <= sizeLeft

(* The pieces lie before the position, each behind the other. *)
Behind(b) == b.at \in Nat /\ b.bytes \in Nat /\ b.at + b.bytes <= bufferPosition /\ b.at % b.alignment = 0
MemoryInv == MemoryTypes /\ OneAligns /\ (\A b \in blocks : Behind(b)) /\ M!BlocksAreDisjoint

(* std::align *)
LEMMA Padding ==
  ASSUME NEW p \in Nat, NEW a \in Nat \ {0}
  PROVE  (-p) % a \in Nat /\ (p + ((-p) % a)) % a = 0
<1>1. PICK x \in Int : x = -p
  OBVIOUS
<1>2. x % a \in 0..(a - 1)
  BY SMT
<1>3. PICK m \in 0..(a - 1) : m = x % a
  BY <1>2
<1>4. x \div a \in Int
  BY SMT
<1>5. PICK d \in Int : d = x \div a
  BY <1>4
<1>6. x = a * d + m
  BY <1>3, <1>5, SMT
<1>7. p + m = a * (-d)
  BY <1>1, <1>6, SMT
<1>8. (a * (-d)) % a = 0
  BY SMT
<1> QED
  BY <1>1, <1>3, <1>7, <1>8

(* Nothing is given out when the constructor has the memory. *)
LEMMA MemoryInit == M!Init => MemoryInv
BY MemoryAssumption DEF M!Init, M!NoRequest, MemoryInv, MemoryTypes, Requests, OneAligns, M!BlocksAreDisjoint

(* No piece has left the memory. *)
LEMMA MemoryDelivers == MemoryInv => M!BlocksAreDisjoint /\ M!BlocksAreInside
<1> SUFFICES ASSUME MemoryInv, NEW b \in blocks PROVE b.at % b.alignment = 0 /\ b.at + b.bytes <= bufferSize
  BY DEF MemoryInv, M!BlocksAreInside
<1>1. Behind(b) /\ bufferPosition \in Nat /\ sizeLeft \in Nat /\ bufferPosition + sizeLeft = bufferSize
  BY DEF MemoryInv, MemoryTypes
<1> QED
  BY <1>1, MemoryAssumption DEF Behind

(* A thread takes the mutex. *)
LEMMA LockKeeps ==
  ASSUME MemoryInv, NEW t \in MemoryThreads, NEW n \in Sizes, NEW a \in Alignments, M!Lock(t, n, a)
  PROVE  MemoryInv'
<1>1. PICK r : r = [pc |-> "locked", bytes |-> n, alignment |-> a]
  OBVIOUS
<1>2. r \in Requests /\ r.pc = "locked"
  BY <1>1, MemoryAssumption DEF Requests
<1>3. /\ mutex = {} /\ mutex' = {t} /\ request' = [request EXCEPT ![t] = r]
      /\ UNCHANGED <<bufferPosition, sizeLeft, blocks>>
  BY <1>1 DEF M!Lock
<1>4. /\ request' \in [MemoryThreads -> Requests] /\ request'[t] = r
      /\ \A u \in MemoryThreads : u # t => request'[u] = request[u]
  BY <1>2, <1>3 DEF MemoryInv, MemoryTypes
<1>5. MemoryTypes'
  BY <1>3, <1>4 DEF MemoryInv, MemoryTypes
<1>6. \A u \in MemoryThreads : request[u].pc = "idle"
  BY <1>3 DEF MemoryInv, OneAligns
<1>7. OneAligns'
  BY <1>2, <1>3, <1>4, <1>6 DEF OneAligns
<1> QED
  BY <1>3, <1>5, <1>7 DEF MemoryInv, Behind, M!BlocksAreDisjoint, M!Bytes

(* std::align moves the position of the thread that has the mutex. *)
LEMMA AlignKeeps ==
  ASSUME MemoryInv, NEW t \in MemoryThreads, M!Align(t)
  PROVE  MemoryInv'
<1>1. PICK a \in Nat \ {0}, n \in Nat : a = request[t].alignment /\ n = request[t].bytes
  BY DEF MemoryInv, MemoryTypes, Requests
<1>2. PICK pad \in Nat : pad = (-bufferPosition) % a /\ (bufferPosition + pad) % a = 0
  BY <1>1, Padding DEF MemoryInv, MemoryTypes
<1>3. /\ request[t].pc = "locked" /\ sizeLeft >= n + pad /\ bufferPosition' = bufferPosition + pad
      /\ sizeLeft' = sizeLeft - pad /\ request' = [request EXCEPT ![t].pc = "aligned"] /\ UNCHANGED <<mutex, blocks>>
  BY <1>1, <1>2 DEF M!Align
<1>4. /\ bufferPosition \in Nat /\ sizeLeft \in Nat /\ bufferPosition + sizeLeft = bufferSize
      /\ request \in [MemoryThreads -> Requests]
  BY DEF MemoryInv, MemoryTypes
<1>5. /\ bufferPosition' \in Nat /\ sizeLeft' \in Nat /\ bufferPosition' + sizeLeft' = bufferSize
      /\ n <= sizeLeft' /\ bufferPosition <= bufferPosition'
  BY <1>3, <1>4
<1>6. /\ request' \in [MemoryThreads -> Requests] /\ request'[t].alignment = a /\ request'[t].bytes = n
      /\ \A u \in MemoryThreads : u # t => request'[u] = request[u]
  BY <1>1, <1>3, <1>4 DEF Requests
<1>7. MemoryTypes'
  BY <1>5, <1>6 DEF MemoryTypes
<1>8. mutex = {t} /\ \A u \in MemoryThreads : u # t => request[u].pc = "idle"
  BY <1>3 DEF MemoryInv, OneAligns
<1>9. bufferPosition' % a = 0
  BY <1>2, <1>3
<1>10. OneAligns'
  BY <1>3, <1>5, <1>6, <1>8, <1>9 DEF OneAligns
<1>11. \A b \in blocks' : Behind(b)'
  BY <1>3, <1>4, <1>5 DEF MemoryInv, Behind
<1> QED
  BY <1>3, <1>7, <1>10, <1>11 DEF MemoryInv, M!BlocksAreDisjoint, M!Bytes

(* The request of thread t has ended. *)
LEMMA RequestEnds ==
  ASSUME MemoryInv, NEW t \in MemoryThreads, request[t].pc # "idle",
         request' = [request EXCEPT ![t] = M!NoRequest], mutex' = mutex \ {t},
         bufferPosition' \in Nat, sizeLeft' \in Nat, bufferPosition' + sizeLeft' = bufferSize
  PROVE  MemoryTypes' /\ OneAligns'
<1>1. M!NoRequest \in Requests /\ M!NoRequest.pc = "idle"
  BY DEF M!NoRequest, Requests
<1>2. /\ request' \in [MemoryThreads -> Requests] /\ request'[t] = M!NoRequest
      /\ \A u \in MemoryThreads : u # t => request'[u] = request[u]
  BY <1>1 DEF MemoryInv, MemoryTypes
<1>3. \A u \in MemoryThreads : u # t => request[u].pc = "idle"
  BY DEF MemoryInv, OneAligns
<1>4. \A u \in MemoryThreads : request'[u].pc = "idle"
  BY <1>1, <1>2, <1>3
<1> QED
  BY <1>2, <1>4 DEF MemoryTypes, OneAligns

(* The piece starts where all the others have ended. *)
LEMMA TakeMemoryKeeps ==
  ASSUME MemoryInv, NEW t \in MemoryThreads, M!Take(t)
  PROVE  MemoryInv'
<1>1. PICK a \in Nat \ {0}, n \in Nat : a = request[t].alignment /\ n = request[t].bytes
  BY DEF MemoryInv, MemoryTypes, Requests
<1>2. PICK c : c = [at |-> bufferPosition, bytes |-> n, alignment |-> a]
  OBVIOUS
<1>3. /\ request[t].pc = "aligned" /\ blocks' = blocks \cup {c} /\ bufferPosition' = bufferPosition + n
      /\ sizeLeft' = sizeLeft - n /\ request' = [request EXCEPT ![t] = M!NoRequest] /\ mutex' = mutex \ {t}
  BY <1>1, <1>2 DEF M!Take
<1>4. /\ bufferPosition \in Nat /\ sizeLeft \in Nat /\ bufferPosition + sizeLeft = bufferSize
      /\ n <= sizeLeft /\ bufferPosition % a = 0
  BY <1>1, <1>3 DEF MemoryInv, MemoryTypes, OneAligns
<1>5. bufferPosition' \in Nat /\ sizeLeft' \in Nat /\ bufferPosition' + sizeLeft' = bufferSize /\ bufferPosition <= bufferPosition'
  BY <1>3, <1>4
<1>6. MemoryTypes' /\ OneAligns'
  BY <1>3, <1>5, RequestEnds
<1>7. c.at = bufferPosition /\ c.bytes = n /\ c.alignment = a
  BY <1>2
<1>8. \A b \in blocks : Behind(b)
  BY DEF MemoryInv
<1>9. \A b \in blocks' : Behind(b)'
  BY <1>3, <1>4, <1>5, <1>7, <1>8 DEF Behind
<1>10. \A b \in blocks : M!Bytes(b) \cap M!Bytes(c) = {} /\ M!Bytes(c) \cap M!Bytes(b) = {}
  BY <1>4, <1>7, <1>8 DEF Behind, M!Bytes
<1>11. M!BlocksAreDisjoint'
  BY <1>3, <1>10 DEF MemoryInv, M!BlocksAreDisjoint, M!Bytes
<1> QED
  BY <1>6, <1>9, <1>11 DEF MemoryInv

(* bad_alloc leaves the memory alone. *)
LEMMA BadAllocKeeps ==
  ASSUME MemoryInv, NEW t \in MemoryThreads, M!BadAlloc(t)
  PROVE  MemoryInv'
<1>1. /\ request[t].pc = "locked" /\ request' = [request EXCEPT ![t] = M!NoRequest] /\ mutex' = mutex \ {t}
      /\ UNCHANGED <<bufferPosition, sizeLeft, blocks>>
  BY DEF M!BadAlloc
<1>2. bufferPosition' \in Nat /\ sizeLeft' \in Nat /\ bufferPosition' + sizeLeft' = bufferSize
  BY <1>1 DEF MemoryInv, MemoryTypes
<1>3. MemoryTypes' /\ OneAligns'
  BY <1>1, <1>2, RequestEnds
<1> QED
  BY <1>1, <1>3 DEF MemoryInv, Behind, M!BlocksAreDisjoint, M!Bytes

(* Every step keeps the invariant of the memory. *)
LEMMA MemoryStep == MemoryInv /\ [M!Next]_memoryVars => MemoryInv'
<1> SUFFICES ASSUME MemoryInv, [M!Next]_memoryVars PROVE MemoryInv'
  OBVIOUS
<1>1. ASSUME NEW t \in MemoryThreads, M!Align(t) \/ M!Take(t) \/ M!BadAlloc(t) PROVE MemoryInv'
  BY <1>1, AlignKeeps, TakeMemoryKeeps, BadAllocKeeps
<1>2. ASSUME NEW t \in MemoryThreads, NEW n \in Sizes, NEW a \in Alignments, M!Lock(t, n, a) PROVE MemoryInv'
  BY <1>2, LockKeeps
<1>3. CASE UNCHANGED memoryVars
  BY <1>3 DEF memoryVars, MemoryInv, MemoryTypes, OneAligns, Behind, M!BlocksAreDisjoint, M!Bytes
<1> QED
  BY <1>1, <1>2, <1>3 DEF M!Next

-----------------------------------------------------------------------------
(* The parts together *)

(* A step of the structures is one of the queue or leaves the queue alone. *)
LEMMA OnlyTheQueueMoves == [Next]_vars => [Q!Next]_queueVars
BY DEF Next, Queue, FreeLists, Memory, LinkedList, Ssd, BufferPool, Rest, vars, queueVars

(* Whatever the number of threads, tickets and slots, pops return what was *)
(* pushed in the order of the tickets, each value once, and no two threads *)
(* are in one slot (rigtorp::MPMCQueue).                                   *)
THEOREM QueueIsFifo == Spec => []FirstInFirstOut
<1>1. Init => QueueInv
  BY QueueInit DEF Init
<1>2. QueueInv /\ [Next]_vars => QueueInv'
  BY OnlyTheQueueMoves, QueueStep
<1>3. QueueInv => FirstInFirstOut
  BY QueueDelivers DEF FirstInFirstOut
<1> QED
  BY <1>1, <1>2, <1>3, PTL DEF Spec

(* The same of the buffers of the SSD, *)
LEMMA OnlyTheSsdMoves == [Next]_vars => [S!Next]_ssdVars
BY DEF Next, Queue, FreeLists, Memory, LinkedList, Ssd, BufferPool, Rest, vars, ssdVars

(* and of the buffer pool. *)
LEMMA OnlyThePoolMoves == [Next]_vars => [P!Next]_poolVars
BY DEF Next, Queue, FreeLists, Memory, LinkedList, Ssd, BufferPool, Rest, vars, poolVars

(* Whatever the number of frames, slots, pages and threads, the last write *)
(* of a page is in memory or on the SSD, through the asynchronous buffers, *)
(* eviction and return, and writeAllPages (AsyncWriteBuffer,               *)
(* AsyncReadBuffer, Buffermanager).                                        *)
THEOREM WritesAreKept == Spec => []NoLostWrite
<1>1. Init => SsdInv /\ PoolInv
  BY SsdInit, PoolInit DEF Init
<1>2. SsdInv /\ [Next]_vars => SsdInv'
  BY OnlyTheSsdMoves, SsdStep
<1>3. PoolInv /\ [Next]_vars => PoolInv'
  BY OnlyThePoolMoves, PoolStep
<1>4. SsdInv /\ PoolInv => NoLostWrite
  BY SsdDelivers, PoolDelivers DEF NoLostWrite
<1> QED
  BY <1>1, <1>2, <1>3, <1>4, PTL DEF Spec

(* The same of the free lists, *)
LEMMA OnlyTheListsMove == [Next]_vars => [F!Next]_listVars
BY DEF Next, Queue, FreeLists, Memory, LinkedList, Ssd, BufferPool, Rest, vars, listVars

(* and of the memory of the network cards. *)
LEMMA OnlyTheMemoryMoves == [Next]_vars => [M!Next]_memoryVars
BY DEF Next, Queue, FreeLists, Memory, LinkedList, Ssd, BufferPool, Rest, vars, memoryVars

(* Whatever the number of threads, partitions, batches and elements, each  *)
(* element and each batch is in one place, the counts of the partitions    *)
(* are exact, a push finds an empty batch (PartitionedQueue, BatchQueue),  *)
(* and the pieces of the registered memory are disjoint and inside         *)
(* (SynchronizedMonotonicBufferResource).                                  *)
THEOREM ElementsAreConserved == Spec => []ElementsConserved
<1>1. Init => ListInv /\ MemoryInv
  BY ListInit, MemoryInit DEF Init
<1>2. ListInv /\ [Next]_vars => ListInv'
  BY OnlyTheListsMove, ListStep
<1>3. MemoryInv /\ [Next]_vars => MemoryInv'
  BY OnlyTheMemoryMoves, MemoryStep
<1>4. ListInv /\ MemoryInv => ElementsConserved
  BY ListDelivers, MemoryDelivers DEF ElementsConserved
<1> QED
  BY <1>1, <1>2, <1>3, <1>4, PTL DEF Spec

-----------------------------------------------------------------------------
(***************************************************************************)
(* The list of pages.  An element has its place on a page for ever: pages  *)
(* are full when the next one is linked.  A writer holds the page that it  *)
(* is on, so only one is at the end, and who has begun with its batch is   *)
(* there and has written the last element.  The place of a reader, pages   *)
(* to skip included, is where the next element of its range is.            *)
(***************************************************************************)
LinkedElement == Nat \X Nat

\* the pages pg are a list, full but for the last
Linked(pg) ==
  /\ pg \in Seq([entries : Seq(LinkedElement), next : Nat]) /\ Len(pg) >= 1
  /\ \A p \in 1..Len(pg) : /\ Len(pg[p].entries) <= MaxEntries
                           /\ p = Len(pg) => pg[p].next = 0
                           /\ p # Len(pg) => pg[p].next = p + 1 /\ Len(pg[p].entries) = MaxEntries

SizeOf(pg) == (Len(pg) - 1) * MaxEntries + Len(pg[Len(pg)].entries)
ElementOf(pg, k) == pg[((k - 1) \div MaxEntries) + 1].entries[((k - 1) % MaxEntries) + 1]

(* Division with rest *)
LEMMA DivisionWithRest ==
  ASSUME NEW m \in Nat \ {0}, NEW q \in Nat, NEW r \in 0..(m - 1)
  PROVE  (m * q + r) \div m = q /\ (m * q + r) % m = r
<1>1. PICK x \in Nat : x = m * q + r
  OBVIOUS
<1>2. PICK d : d = x \div m
  OBVIOUS
<1>3. d \in Nat /\ m * d <= x /\ x < m * d + m /\ x % m = x - m * d
  BY <1>2
<1>4. ~(d < q)
  <2>1. SUFFICES ASSUME d < q PROVE FALSE
    OBVIOUS
  <2>2. PICK e \in Nat : q = d + 1 + e
    BY <1>3, <2>1
  <2>3. m * q = m * d + m + m * e /\ m * e >= 0
    BY <1>3, <2>2
  <2> QED
    BY <1>1, <1>3, <2>3
<1>5. ~(d > q)
  <2>1. SUFFICES ASSUME d > q PROVE FALSE
    OBVIOUS
  <2>2. PICK e \in Nat : d = q + 1 + e
    BY <1>3, <2>1
  <2>3. m * d = m * q + m + m * e /\ m * e >= 0
    BY <1>3, <2>2
  <2> QED
    BY <1>1, <1>3, <2>3
<1>6. d = q
  BY <1>3, <1>4, <1>5
<1> QED
  BY <1>1, <1>2, <1>3, <1>6

(* A list has a last page. *)
LEMMA LinkedPages ==
  ASSUME NEW pg, Linked(pg)
  PROVE  /\ Len(pg) \in Nat \ {0} /\ Len(pg[Len(pg)].entries) \in Nat /\ Len(pg[Len(pg)].entries) <= MaxEntries
         /\ \A p \in 1..Len(pg) : /\ pg[p].entries \in Seq(LinkedElement) /\ Len(pg[p].entries) \in Nat
                                  /\ Len(pg[p].entries) <= MaxEntries
<1>1. Len(pg) \in Nat \ {0}
  BY DEF Linked
<1>2. ASSUME NEW p \in 1..Len(pg)
      PROVE  pg[p].entries \in Seq(LinkedElement) /\ Len(pg[p].entries) \in Nat /\ Len(pg[p].entries) <= MaxEntries
  <2>1. pg[p] \in [entries : Seq(LinkedElement), next : Nat]
    <3>1. PICK Y : Y = [entries : Seq(LinkedElement), next : Nat]
      OBVIOUS
    <3>2. pg \in Seq(Y)
      BY <3>1 DEF Linked
    <3>3. pg[p] \in Y
      BY ONLY <1>2, <3>2
    <3> QED
      BY <3>1, <3>3
  <2>2. pg[p].entries \in Seq(LinkedElement)
    BY <2>1
  <2>3. Len(pg[p].entries) \in Nat
    BY <2>2
  <2> QED
    BY <2>2, <2>3 DEF Linked
<1>3. Len(pg) \in 1..Len(pg)
  BY <1>1
<1> QED
  BY <1>1, <1>2, <1>3

(* Every number has its place, *)
LEMMA PlaceOf ==
  ASSUME NEW pg, Linked(pg), NEW k \in 1..SizeOf(pg)
  PROVE  \E p \in 1..Len(pg) : \E i \in 1..Len(pg[p].entries) : k = MaxEntries * (p - 1) + i
<1>1. PICK n \in Nat \ {0}, z \in Nat : n = Len(pg) /\ z = Len(pg[n].entries) /\ z <= MaxEntries
  BY LinkedPages
<1>2. PICK x \in Nat, m \in Nat \ {0} : x = k - 1 /\ m = MaxEntries
  BY <1>1, PagesAssumption DEF SizeOf
<1>3. PICK d, r : d = x \div m /\ r = x % m
  OBVIOUS
<1>4. d \in Nat /\ r \in 0..(m - 1) /\ x = m * d + r
  BY <1>3
<1>5. x < m * (n - 1) + z
  <2>1. PICK s : s = m * (n - 1) + z /\ s \in Nat
    OBVIOUS
  <2>2. SizeOf(pg) = s
    <3>1. (n - 1) * m = m * (n - 1)
      OBVIOUS
    <3> QED
      BY <1>1, <1>2, <2>1, <3>1 DEF SizeOf
  <2> QED
    BY <1>2, <2>1, <2>2
<1>6. d <= n - 1
  <2>1. SUFFICES ASSUME d > n - 1 PROVE FALSE
    BY <1>4
  <2>2. PICK e \in Nat : d = n + e
    BY <1>4, <2>1
  <2>3. m * d = m * (n - 1) + m + m * e /\ m * e >= 0 /\ m * (n - 1) \in Nat
    BY <2>2
  <2>4. PICK a \in Nat, b \in Nat, c \in Nat : a = m * (n - 1) /\ b = m * e /\ c = m * d
    BY <1>4, <2>3
  <2>5. c = a + m + b /\ x < a + z /\ z <= m /\ x = c + r
    BY <1>1, <1>2, <1>4, <1>5, <2>3, <2>4
  <2> QED
    BY ONLY <1>4, <2>4, <2>5, x \in Nat, z \in Nat, m \in Nat
<1>7. d + 1 \in 1..Len(pg) /\ r + 1 \in 1..Len(pg[d + 1].entries)
  <2>1. CASE d = n - 1
    <3>1. r < z
      BY <1>4, <1>5, <2>1
    <3> QED
      BY <1>1, <1>4, <2>1, <3>1
  <2>2. CASE d # n - 1
    <3>1. d + 1 \in 1..Len(pg) /\ d + 1 # Len(pg)
      BY <1>1, <1>4, <1>6, <2>2
    <3>2. Len(pg[d + 1].entries) = MaxEntries
      BY <3>1 DEF Linked
    <3> QED
      BY <1>2, <1>4, <3>1, <3>2
  <2> QED
    BY <2>1, <2>2
<1>8. k = MaxEntries * ((d + 1) - 1) + (r + 1)
  BY <1>2, <1>4
<1> QED
  BY <1>7, <1>8

(* and every place its number. *)
LEMMA NumberOf ==
  ASSUME NEW pg, Linked(pg), NEW p \in 1..Len(pg), NEW i \in 1..Len(pg[p].entries)
  PROVE  /\ MaxEntries * (p - 1) + i \in 1..SizeOf(pg)
         /\ ElementOf(pg, MaxEntries * (p - 1) + i) = pg[p].entries[i]
<1>1. PICK n \in Nat \ {0}, z \in Nat : n = Len(pg) /\ z = Len(pg[n].entries) /\ z <= MaxEntries
  BY LinkedPages
<1>2. PICK q \in Nat, r \in Nat : q = p - 1 /\ r = i - 1 /\ r < MaxEntries
  <2>1. Len(pg[p].entries) <= MaxEntries /\ Len(pg[p].entries) \in Nat
    BY LinkedPages
  <2> QED
    BY <1>1, <2>1, PagesAssumption
<1>3. PICK m \in Nat \ {0} : m = MaxEntries
  BY PagesAssumption
<1>4. m * q \in Nat /\ m * q + r \in Nat
  OBVIOUS
<1>5. (m * q + r) \div m = q /\ (m * q + r) % m = r
  <2>1. r \in 0..(m - 1)
    BY <1>2, <1>3
  <2> QED
    BY ONLY <2>1, m \in Nat \ {0}, q \in Nat, DivisionWithRest
<1>6. ElementOf(pg, m * q + i) = pg[p].entries[i]
  <2>1. m * q + i - 1 = m * q + r
    BY <1>2, <1>4
  <2> QED
    BY <1>2, <1>3, <1>5, <2>1 DEF ElementOf
<1>7. m * q + i <= m * (n - 1) + z
  <2>1. CASE p = n
    BY <1>1, <1>2, <2>1
  <2>2. CASE p # n
    <3>1. q + 1 <= n - 1
      BY <1>1, <1>2, <2>2
    <3>2. PICK e \in Nat : n - 1 = q + 1 + e
      <4>1. (n - 1) - (q + 1) \in Nat
        BY <3>1
      <4> QED
        BY <4>1
    <3>3. m * (n - 1) = m * q + m + m * e /\ m * e >= 0
      BY <3>2
    <3>4. PICK a \in Nat, b \in Nat, c \in Nat : a = m * q /\ b = m * e /\ c = m * (n - 1)
      BY <1>4, <3>3
    <3>5. c = a + m + b /\ i <= m
      BY <1>2, <1>3, <3>3, <3>4
    <3>6. a + i <= c + z
      BY ONLY <3>4, <3>5, z \in Nat, m \in Nat, i \in Int
    <3> QED
      BY <3>4, <3>6
  <2> QED
    BY <2>1, <2>2
<1>8. SizeOf(pg) = m * (n - 1) + z
  <2>1. (n - 1) * m = m * (n - 1)
    OBVIOUS
  <2> QED
    BY <1>1, <1>3, <2>1 DEF SizeOf
<1>9. PICK a \in Nat, s \in Nat : a = m * q /\ s = m * (n - 1) + z
  BY <1>4
<1>10. a + i \in 1..s
  <2>1. a + i <= s
    BY <1>7, <1>9
  <2> QED
    BY ONLY <2>1, <1>2, a \in Nat, s \in Nat, i \in Int
<1> QED
  BY <1>2, <1>3, <1>6, <1>8, <1>9, <1>10

(* What stays on its page keeps its number. *)
LEMMA KeptPlaces ==
  ASSUME NEW pg, NEW qg, Linked(pg), Linked(qg), Len(pg) <= Len(qg),
         \A p \in 1..Len(pg) : \A i \in 1..Len(pg[p].entries) :
            i \in 1..Len(qg[p].entries) /\ qg[p].entries[i] = pg[p].entries[i]
  PROVE  \A k \in 1..SizeOf(pg) : k \in 1..SizeOf(qg) /\ ElementOf(qg, k) = ElementOf(pg, k)
<1> SUFFICES ASSUME NEW k \in 1..SizeOf(pg) PROVE k \in 1..SizeOf(qg) /\ ElementOf(qg, k) = ElementOf(pg, k)
  OBVIOUS
<1>1. PICK p \in 1..Len(pg) : \E i \in 1..Len(pg[p].entries) : k = MaxEntries * (p - 1) + i
  BY PlaceOf
<1>2. PICK i \in 1..Len(pg[p].entries) : k = MaxEntries * (p - 1) + i
  BY <1>1
<1>3. ElementOf(pg, k) = pg[p].entries[i]
  BY <1>2, NumberOf
<1>4. p \in 1..Len(qg) /\ i \in 1..Len(qg[p].entries) /\ qg[p].entries[i] = pg[p].entries[i]
  BY LinkedPages
<1>5. k \in 1..SizeOf(qg) /\ ElementOf(qg, k) = qg[p].entries[i]
  BY <1>2, <1>4, NumberOf
<1> QED
  BY <1>3, <1>4, <1>5

(* Elements are elements. *)
LEMMA ElementsAre ==
  ASSUME NEW pg, Linked(pg)
  PROVE  SizeOf(pg) \in Nat /\ \A k \in 1..SizeOf(pg) : ElementOf(pg, k) \in LinkedElement
<1>1. SizeOf(pg) \in Nat
  <2>1. PICK n \in Nat \ {0}, z \in Nat : n = Len(pg) /\ z = Len(pg[n].entries)
    BY LinkedPages
  <2>2. PICK m \in Nat : m = MaxEntries
    BY PagesAssumption
  <2>3. (n - 1) * m + z \in Nat
    OBVIOUS
  <2> QED
    BY <2>1, <2>2, <2>3 DEF SizeOf
<1>2. ASSUME NEW k \in 1..SizeOf(pg) PROVE ElementOf(pg, k) \in LinkedElement
  <2>1. PICK p \in 1..Len(pg) : \E i \in 1..Len(pg[p].entries) : k = MaxEntries * (p - 1) + i
    BY PlaceOf
  <2>2. PICK i \in 1..Len(pg[p].entries) : k = MaxEntries * (p - 1) + i
    BY <2>1
  <2>3. ElementOf(pg, k) = pg[p].entries[i]
    BY <2>2, NumberOf
  <2>4. pg[p].entries \in Seq(LinkedElement)
    BY LinkedPages
  <2>5. pg[p].entries[i] \in LinkedElement
    BY <2>4
  <2> QED
    BY <2>3, <2>5
<1> QED
  BY <1>1, <1>2

(***************************************************************************)
(* The invariant                                                           *)
(***************************************************************************)
LinkedTypes ==
  /\ Linked(pages)
  /\ xlatch \in Seq(SUBSET Writers) /\ Len(xlatch) = Len(pages)
  /\ writer \in [Writers -> [cur : Nat, elems : Seq(LinkedElement)]]
  /\ reader \in [Readers -> [cur : Nat, idx : Nat, from : Nat, end : Nat, skip : Nat, got : Seq(LinkedElement)]]
  /\ batches \in Nat

\* a writer with elements left, all of one batch, holds the page that it is on
HasPage(w) ==
  /\ writer[w].cur \in 1..Len(pages) /\ xlatch[writer[w].cur] = {w} /\ Len(writer[w].elems) >= 1
  /\ \A i \in 1..Len(writer[w].elems) : writer[w].elems[i][1] = writer[w].elems[1][1]

WritersHold == \A w \in Writers : writer[w].cur # 0 => HasPage(w)

\* batch b is not in c, or its elements are the last ones and at is the last page
Begun(c, n, last, b, at) ==
  \/ \A k \in 1..n : c[k][1] # b
  \/ at = last /\ n >= 1 /\ c[n][1] = b

Together(c, n) ==
  \A i, j \in 1..n : (i < j /\ c[i][1] = c[j][1]) => \A k \in i..j : c[k][1] = c[i][1]

BatchOf(w) == writer[w].elems[1][1]

FillsKept ==
  /\ \A k \in 1..L!Size : L!Content[k][1] <= batches
  /\ Together(L!Content, L!Size)
  /\ \A w \in Writers : writer[w].cur # 0 =>
       /\ BatchOf(w) <= batches
       /\ Begun(L!Content, L!Size, Len(pages), BatchOf(w), writer[w].cur)
       /\ \A v \in Writers : v # w /\ writer[v].cur # 0 => BatchOf(v) # BatchOf(w)

\* reader R is where the next element of its range is
InPlace(R, n, last) ==
  /\ R.cur + R.skip <= last /\ R.idx <= MaxEntries
  /\ MaxEntries * (R.cur + R.skip - 1) + R.idx = R.from + Len(R.got)
  /\ R.skip > 0 => R.got = <<>>
  /\ R.from < R.end /\ R.end <= n /\ Len(R.got) <= R.end - R.from

\* and has got what stands in c
HasRead(R, c) == \A k \in 1..Len(R.got) : R.got[k] = c[R.from + k]

ReadersKept == \A r \in Readers : reader[r].cur # 0 => InPlace(reader[r], L!Size, Len(pages)) /\ HasRead(reader[r], L!Content)

LinkedInv == LinkedTypes /\ WritersHold /\ FillsKept /\ ReadersKept

(* The list in these terms *)
LEMMA ContentIs ==
  /\ L!Size = SizeOf(pages) /\ L!Size' = SizeOf(pages')
  /\ \A k \in 1..L!Size : L!Content[k] = ElementOf(pages, k)
  /\ \A k \in 1..L!Size' : L!Content'[k] = ElementOf(pages', k)
BY DEF L!Size, L!Content, SizeOf, ElementOf

(* Sizes are numbers and elements are pairs of numbers. *)
LEMMA ContentTypes ==
  ASSUME Linked(pages)
  PROVE  L!Size \in Nat /\ \A k \in 1..L!Size : L!Content[k] \in LinkedElement /\ L!Content[k][1] \in Nat
<1>1. L!Size \in Nat /\ \A k \in 1..L!Size : L!Content[k] \in LinkedElement
  BY ElementsAre, ContentIs
<1> QED
  BY <1>1 DEF LinkedElement

(* At first there is an empty page and nobody is on it. *)
LEMMA LinkedInit == L!Init => LinkedInv
<1> SUFFICES ASSUME L!Init PROVE LinkedInv
  OBVIOUS
<1>1. PICK pg : pg = <<L!NewNode>>
  OBVIOUS
<1>2. L!NewNode \in [entries : Seq(LinkedElement), next : Nat] /\ Len(L!NewNode.entries) = 0 /\ L!NewNode.next = 0
  BY DEF L!NewNode
<1>3. Len(pg) = 1 /\ pg[1] = L!NewNode /\ pg \in Seq([entries : Seq(LinkedElement), next : Nat])
  BY <1>1, <1>2
<1>4. pages = pg /\ Linked(pg)
  BY <1>1, <1>2, <1>3, PagesAssumption DEF L!Init, Linked
<1>5. L!Size = 0
  <2>1. Len(pages) = 1 /\ Len(pages[1].entries) = 0 /\ 0 * MaxEntries = 0
    BY <1>2, <1>3, <1>4, PagesAssumption
  <2>2. Len(pages) - 1 = 0 /\ Len(pages[Len(pages)].entries) = 0
    BY <2>1
  <2> QED
    BY <2>1, <2>2 DEF L!Size
<1>6. xlatch \in Seq(SUBSET Writers) /\ Len(xlatch) = 1
  BY DEF L!Init
<1>7. /\ writer \in [Writers -> [cur : Nat, elems : Seq(LinkedElement)]] /\ \A w \in Writers : writer[w].cur = 0
      /\ reader \in [Readers -> [cur : Nat, idx : Nat, from : Nat, end : Nat, skip : Nat, got : Seq(LinkedElement)]]
      /\ \A r \in Readers : reader[r].cur = 0
      /\ batches = 0
  BY DEF L!Init, L!Idle, L!NotReading
<1>8. LinkedTypes
  BY <1>3, <1>4, <1>6, <1>7 DEF LinkedTypes
<1>9. WritersHold /\ ReadersKept /\ FillsKept
  BY <1>5, <1>7 DEF WritersHold, ReadersKept, FillsKept, Together
<1> QED
  BY <1>8, <1>9 DEF LinkedInv

(***************************************************************************)
(* What the invariant is for                                               *)
(***************************************************************************)

(* The content is a sequence, *)
LEMMA ElementsAreSeq ==
  ASSUME NEW pg, Linked(pg), NEW c, c = [k \in 1..SizeOf(pg) |-> ElementOf(pg, k)]
  PROVE  c \in Seq(LinkedElement) /\ Len(c) = SizeOf(pg) /\ SizeOf(pg) \in Nat
<1>1. PICK n, X : n = SizeOf(pg) /\ X = LinkedElement
  OBVIOUS
<1>2. c \in [1..n -> X] /\ n \in Nat
  <2>1. n \in Nat /\ \A k \in 1..n : ElementOf(pg, k) \in X
    BY <1>1, ElementsAre
  <2> QED
    BY <1>1, <2>1
<1>3. c \in Seq(X) /\ Len(c) = n
  BY ONLY <1>2
<1> QED
  BY <1>1, <1>2, <1>3

(* before a step and after it. *)
LEMMA ContentIsSeq ==
  /\ Linked(pages) => L!Content \in Seq(LinkedElement) /\ Len(L!Content) = L!Size /\ L!Size \in Nat
  /\ Linked(pages') => L!Content' \in Seq(LinkedElement) /\ Len(L!Content') = L!Size' /\ L!Size' \in Nat
<1>1. L!Content = [k \in 1..SizeOf(pages) |-> ElementOf(pages, k)] /\ L!Size = SizeOf(pages)
  BY DEF L!Size, L!Content, SizeOf, ElementOf
<1>2. L!Content' = [k \in 1..SizeOf(pages') |-> ElementOf(pages', k)] /\ L!Size' = SizeOf(pages')
  BY DEF L!Size, L!Content, SizeOf, ElementOf
<1> QED
  BY <1>1, <1>2, ElementsAreSeq

(* A piece of a sequence *)
LEMMA PieceOf ==
  ASSUME NEW X, NEW c \in Seq(X), NEW g \in Seq(X), NEW from \in Nat, from + Len(g) <= Len(c),
         \A k \in 1..Len(g) : g[k] = c[from + k]
  PROVE  g = SubSeq(c, from + 1, from + Len(g))
<1>1. PICK h : h = SubSeq(c, from + 1, from + Len(g))
  OBVIOUS
<1>2. h \in Seq(X) /\ Len(h) = Len(g) /\ \A k \in 1..Len(g) : h[k] = c[from + k]
  BY <1>1
<1>3. g = h
  BY <1>2
<1> QED
  BY <1>1, <1>3

(* The invariant implies the properties of states. *)
LEMMA LinkedDelivers == LinkedInv => L!OneList /\ L!BatchesAreContiguous /\ L!RangeIsExact
<1> SUFFICES ASSUME LinkedInv PROVE L!OneList /\ L!BatchesAreContiguous /\ L!RangeIsExact
  OBVIOUS
<1>1. Linked(pages) /\ Len(pages) \in Nat \ {0}
  BY LinkedPages DEF LinkedInv, LinkedTypes
<1>2. L!OneList
  BY <1>1 DEF Linked, L!OneList, L!IsFull
<1>3. L!BatchesAreContiguous
  BY DEF LinkedInv, FillsKept, Together, L!BatchesAreContiguous
<1>4. ASSUME NEW r \in Readers, reader[r].cur # 0
      PROVE  LET R == reader[r] IN
             /\ R.got = SubSeq(L!Content, R.from + 1, R.from + Len(R.got)) /\ Len(R.got) <= R.end - R.from
             /\ R.skip > 0 \/ (R.idx = Len(pages[R.cur].entries) /\ Len(R.got) < R.end - R.from)
                  => pages[R.cur].next # 0
  <2>1. PICK R : R = reader[r]
    OBVIOUS
  <2>2. R.cur \in Nat \ {0} /\ R.idx \in Nat /\ R.from \in Nat /\ R.end \in Nat /\ R.skip \in Nat
        /\ R.got \in Seq(LinkedElement)
    BY <1>4, <2>1 DEF LinkedInv, LinkedTypes
  <2>3. InPlace(R, L!Size, Len(pages)) /\ HasRead(R, L!Content)
    BY <1>4, <2>1 DEF LinkedInv, ReadersKept
  <2>4. PICK c, n, X, g, f : c = L!Content /\ n = L!Size /\ X = LinkedElement /\ g = R.got /\ f = R.from
    OBVIOUS
  <2>5. c \in Seq(X) /\ Len(c) = n /\ n \in Nat
    BY <1>1, <2>4, ContentIsSeq
  <2>6. g \in Seq(X) /\ f \in Nat /\ Len(g) \in Nat /\ \A k \in 1..Len(g) : g[k] = c[f + k]
    BY <2>2, <2>3, <2>4 DEF HasRead
  <2>7. f + Len(g) <= Len(c) /\ Len(R.got) <= R.end - R.from
    BY <2>2, <2>3, <2>4, <2>5, <2>6 DEF InPlace
  <2>8. g = SubSeq(c, f + 1, f + Len(g))
    BY ONLY <2>5, <2>6, <2>7, PieceOf
  <2>9. ASSUME R.skip > 0 \/ (R.idx = Len(pages[R.cur].entries) /\ Len(R.got) < R.end - R.from)
        PROVE  pages[R.cur].next # 0
    <3>1. R.cur \in 1..Len(pages)
      BY <1>1, <2>2, <2>3 DEF InPlace
    <3>2. CASE R.cur # Len(pages)
      <4>1. pages[R.cur].next = R.cur + 1
        BY <1>1, <3>1, <3>2 DEF Linked
      <4> QED
        BY <2>2, <4>1
    <3>3. CASE R.cur = Len(pages)
      <4>1. R.skip = 0
        BY <1>1, <2>2, <2>3, <3>3 DEF InPlace
      <4>2. R.idx = Len(pages[Len(pages)].entries) /\ Len(R.got) < R.end - R.from
        BY <2>2, <2>9, <3>3, <4>1
      <4>3. L!Size = MaxEntries * (R.cur + R.skip - 1) + R.idx
        <5>1. PICK a \in Nat, m \in Nat : a = Len(pages) - 1 /\ m = MaxEntries
          BY <1>1, PagesAssumption
        <5>2. a * m = m * a /\ R.cur + R.skip - 1 = a
          BY <2>2, <3>3, <4>1, <5>1
        <5> QED
          BY <4>2, <5>1, <5>2 DEF L!Size
      <4>4. L!Size = R.from + Len(R.got)
        BY <2>3, <4>3 DEF InPlace
      <4>5. R.end <= L!Size
        BY <2>3 DEF InPlace
      <4> QED
        BY <2>2, <2>4, <2>6, <4>2, <4>4, <4>5
    <3> QED
      BY <3>2, <3>3
  <2> QED
    BY <2>1, <2>4, <2>7, <2>8, <2>9
<1> QED
  BY <1>2, <1>3, <1>4 DEF L!RangeIsExact

(***************************************************************************)
(* The steps of readers                                                    *)
(***************************************************************************)
LinkedReader == [cur : Nat, idx : Nat, from : Nat, end : Nat, skip : Nat, got : Seq(LinkedElement)]

\* the pages and the content stay as they are
SamePages == UNCHANGED pages /\ L!Size' = L!Size /\ L!Content' = L!Content

(* The content is on the pages. *)
LEMMA PagesStay == UNCHANGED pages => SamePages
BY DEF SamePages, L!Size, L!Content

(* A reader that gets R keeps the invariant if R is in its place. *)
LEMMA ReaderGets ==
  ASSUME LinkedInv, NEW r \in Readers, NEW R \in LinkedReader, reader' = [reader EXCEPT ![r] = R],
         UNCHANGED <<pages, xlatch, writer, batches>>,
         R.cur # 0 => InPlace(R, L!Size, Len(pages)) /\ HasRead(R, L!Content)
  PROVE  LinkedInv'
<1>1. SamePages
  BY PagesStay
<1>2. reader' \in [Readers -> LinkedReader] /\ \A q \in Readers : reader'[q] = IF q = r THEN R ELSE reader[q]
  BY DEF LinkedInv, LinkedTypes, LinkedReader
<1>3. LinkedTypes'
  BY <1>1, <1>2 DEF LinkedInv, LinkedTypes, LinkedReader, SamePages
<1>4. WritersHold'
  BY DEF LinkedInv, WritersHold, HasPage
<1>5. FillsKept'
  BY <1>1 DEF LinkedInv, FillsKept, BatchOf, SamePages
<1>6. ReadersKept'
  BY <1>1, <1>2 DEF LinkedInv, ReadersKept, SamePages
<1> QED
  BY <1>3, <1>4, <1>5, <1>6 DEF LinkedInv

(* A range begins: its first element is so many pages and elements away. *)
LEMMA StartRangeKeeps ==
  ASSUME LinkedInv, NEW r \in Readers, NEW from \in 0..L!Size, NEW end \in 0..L!Size, L!StartRange(r, from, end)
  PROVE  LinkedInv'
<1>1. Linked(pages) /\ L!Size = SizeOf(pages) /\ L!Size \in Nat /\ Len(pages) \in Nat \ {0}
  BY ContentIs, ContentTypes, LinkedPages DEF LinkedInv, LinkedTypes
<1>2. from \in Nat /\ end \in Nat /\ from < end /\ end <= L!Size
  BY <1>1 DEF L!StartRange
<1>3. from + 1 \in 1..SizeOf(pages)
  BY <1>1, <1>2
<1>4. PICK p \in 1..Len(pages) : \E i \in 1..Len(pages[p].entries) : from + 1 = MaxEntries * (p - 1) + i
  BY <1>1, <1>3, PlaceOf
<1>5. PICK i \in 1..Len(pages[p].entries) : from + 1 = MaxEntries * (p - 1) + i
  BY <1>4
<1>6. PICK m \in Nat \ {0}, q \in Nat, x \in Nat : m = MaxEntries /\ q = p - 1 /\ x = i - 1 /\ x < m
  <2>1. Len(pages[p].entries) \in Nat /\ Len(pages[p].entries) <= MaxEntries
    BY <1>1, LinkedPages
  <2> QED
    BY <1>1, <2>1, PagesAssumption
<1>7. m * q \in Nat
  OBVIOUS
<1>8. from = m * q + x
  BY <1>2, <1>5, <1>6, <1>7
<1>9. from \div MaxEntries = q /\ from % MaxEntries = x
  <2>1. x \in 0..(m - 1)
    BY <1>6
  <2>2. (m * q + x) \div m = q /\ (m * q + x) % m = x
    BY ONLY <2>1, m \in Nat \ {0}, q \in Nat, DivisionWithRest
  <2> QED
    BY <1>6, <1>8, <2>2
<1>10. PICK R : R = [cur |-> 1, idx |-> x, from |-> from, end |-> end, skip |-> q, got |-> <<>>]
  OBVIOUS
<1>11. reader' = [reader EXCEPT ![r] = R] /\ UNCHANGED <<pages, xlatch, writer, batches>>
  BY <1>9, <1>10 DEF L!StartRange
<1>12. R \in LinkedReader
  BY <1>2, <1>6, <1>10 DEF LinkedReader
<1>13. R.cur = 1 /\ R.idx = x /\ R.from = from /\ R.end = end /\ R.skip = q /\ R.got = <<>> /\ Len(R.got) = 0
  BY <1>10
<1>14. InPlace(R, L!Size, Len(pages))
  <2>1. R.cur + R.skip <= Len(pages) /\ R.idx <= MaxEntries
    BY <1>1, <1>6, <1>13
  <2>2. MaxEntries * (R.cur + R.skip - 1) + R.idx = R.from + Len(R.got)
    <3>1. R.cur + R.skip - 1 = q
      BY <1>13
    <3> QED
      BY <1>2, <1>6, <1>8, <1>13, <3>1
  <2> QED
    BY <1>2, <1>13, <2>1, <2>2 DEF InPlace
<1>15. HasRead(R, L!Content)
  BY <1>13 DEF HasRead
<1> QED
  BY <1>11, <1>12, <1>14, <1>15, ReaderGets

(* To the next page *)
LEMMA NextPageKeeps ==
  ASSUME LinkedInv, NEW r \in Readers, L!NextPage(r)
  PROVE  LinkedInv'
<1>1. Linked(pages) /\ Len(pages) \in Nat \ {0}
  BY LinkedPages DEF LinkedInv, LinkedTypes
<1>2. PICK O : O = reader[r]
  OBVIOUS
<1>3. O \in LinkedReader /\ O.cur # 0 /\ InPlace(O, L!Size, Len(pages)) /\ HasRead(O, L!Content)
  BY <1>2 DEF L!NextPage, LinkedInv, LinkedTypes, LinkedReader, ReadersKept
<1>4. O.cur \in Nat \ {0} /\ O.idx \in Nat /\ O.from \in Nat /\ O.end \in Nat /\ O.skip \in Nat
      /\ O.got \in Seq(LinkedElement) /\ Len(O.got) \in Nat
  BY <1>3 DEF LinkedReader
<1>5. O.cur \in 1..Len(pages) /\ pages[O.cur].next # 0
  BY <1>1, <1>2, <1>3, <1>4 DEF L!NextPage, InPlace
<1>6. O.cur # Len(pages) /\ pages[O.cur].next = O.cur + 1 /\ Len(pages[O.cur].entries) = MaxEntries
  BY <1>1, <1>5 DEF Linked
<1>7. PICK m \in Nat \ {0} : m = MaxEntries
  BY PagesAssumption
<1>8. UNCHANGED <<pages, xlatch, writer, batches>>
  BY DEF L!NextPage
<1>9. CASE O.skip > 0
  <2>1. PICK R : R = [O EXCEPT !.cur = O.cur + 1, !.skip = O.skip - 1]
    OBVIOUS
  <2>2. reader' = [reader EXCEPT ![r] = R]
    <3>1. reader' = [reader EXCEPT ![r].cur = O.cur + 1, ![r].skip = @ - 1]
      BY <1>2, <1>4, <1>6, <1>9 DEF L!NextPage
    <3> QED
      BY <1>2, <2>1, <3>1 DEF LinkedInv, LinkedTypes
  <2>3. /\ R.cur = O.cur + 1 /\ R.skip = O.skip - 1 /\ R.idx = O.idx /\ R.from = O.from /\ R.end = O.end
        /\ R.got = O.got /\ R \in LinkedReader
    <3>1. R = [cur |-> O.cur + 1, idx |-> O.idx, from |-> O.from, end |-> O.end, skip |-> O.skip - 1, got |-> O.got]
      BY <1>3, <2>1 DEF LinkedReader
    <3>2. O.skip - 1 \in Nat /\ O.cur + 1 \in Nat
      BY <1>4, <1>9
    <3> QED
      BY <1>4, <3>1, <3>2 DEF LinkedReader
  <2>4. R.cur + R.skip = O.cur + O.skip
    BY <1>4, <2>3
  <2>5. InPlace(R, L!Size, Len(pages))
    <3>1. O.got = <<>> /\ R.cur + R.skip - 1 = O.cur + O.skip - 1
      <4>1. O.got = <<>>
        BY <1>3, <1>9 DEF InPlace
      <4>2. R.cur + R.skip - 1 = O.cur + O.skip - 1
        BY <1>4, <2>3
      <4> QED
        BY <4>1, <4>2
    <3> QED
      BY <1>3, <2>3, <2>4, <3>1 DEF InPlace
  <2>6. HasRead(R, L!Content)
    BY <1>3, <2>3 DEF HasRead
  <2> QED
    BY <1>8, <2>2, <2>3, <2>5, <2>6, ReaderGets
<1>10. CASE O.skip = 0 /\ O.idx = Len(pages[O.cur].entries)
  <2>1. PICK R : R = [O EXCEPT !.cur = O.cur + 1, !.idx = 0]
    OBVIOUS
  <2>2. reader' = [reader EXCEPT ![r] = R]
    <3>1. reader' = [reader EXCEPT ![r].cur = O.cur + 1, ![r].idx = 0]
      BY <1>2, <1>4, <1>6, <1>10 DEF L!NextPage
    <3> QED
      BY <1>2, <2>1, <3>1 DEF LinkedInv, LinkedTypes
  <2>3. /\ R.cur = O.cur + 1 /\ R.skip = 0 /\ R.idx = 0 /\ R.from = O.from /\ R.end = O.end
        /\ R.got = O.got /\ R \in LinkedReader
    <3>1. R = [cur |-> O.cur + 1, idx |-> 0, from |-> O.from, end |-> O.end, skip |-> O.skip, got |-> O.got]
      BY <1>3, <2>1 DEF LinkedReader
    <3>2. O.cur + 1 \in Nat
      BY <1>4
    <3> QED
      BY <1>4, <1>10, <3>1, <3>2 DEF LinkedReader
  <2>4. MaxEntries * (R.cur + R.skip - 1) + R.idx = R.from + Len(R.got)
    <3>1. PICK a \in Nat : a = O.cur - 1
      BY <1>4
    <3>2. O.cur + O.skip - 1 = a /\ R.cur + R.skip - 1 = a + 1
      BY <1>4, <1>10, <2>3, <3>1
    <3>3. m * a + m = O.from + Len(O.got)
      BY <1>3, <1>6, <1>7, <1>10, <3>2 DEF InPlace
    <3>4. m * (a + 1) = m * a + m
      OBVIOUS
    <3> QED
      BY <1>7, <2>3, <3>2, <3>3, <3>4
  <2>5. R.cur + R.skip <= Len(pages) /\ R.idx <= MaxEntries
    BY <1>1, <1>4, <1>5, <1>6, <1>7, <2>3
  <2>6. InPlace(R, L!Size, Len(pages))
    BY <1>3, <2>3, <2>4, <2>5 DEF InPlace
  <2>7. HasRead(R, L!Content)
    BY <1>3, <2>3 DEF HasRead
  <2> QED
    BY <1>8, <2>2, <2>3, <2>6, <2>7, ReaderGets
<1> QED
  BY <1>2, <1>9, <1>10 DEF L!NextPage

(* The function is applied to the next element. *)
LEMMA ApplyElementKeeps ==
  ASSUME LinkedInv, NEW r \in Readers, L!ApplyElement(r)
  PROVE  LinkedInv'
<1>1. Linked(pages) /\ Len(pages) \in Nat \ {0} /\ L!Size = SizeOf(pages)
  BY LinkedPages, ContentIs DEF LinkedInv, LinkedTypes
<1>2. PICK O : O = reader[r]
  OBVIOUS
<1>3. O \in LinkedReader /\ O.cur # 0 /\ InPlace(O, L!Size, Len(pages)) /\ HasRead(O, L!Content)
  BY <1>2 DEF L!ApplyElement, LinkedInv, LinkedTypes, LinkedReader, ReadersKept
<1>4. O.cur \in Nat \ {0} /\ O.idx \in Nat /\ O.from \in Nat /\ O.end \in Nat /\ O.skip \in Nat
      /\ O.got \in Seq(LinkedElement) /\ Len(O.got) \in Nat
  BY <1>3 DEF LinkedReader
<1>5. /\ O.skip = 0 /\ O.idx < Len(pages[O.cur].entries) /\ Len(O.got) < O.end - O.from
      /\ UNCHANGED <<pages, xlatch, writer, batches>>
  BY <1>2 DEF L!ApplyElement
<1>6. O.cur \in 1..Len(pages)
  BY <1>1, <1>3, <1>4 DEF InPlace
<1>7. /\ pages[O.cur].entries \in Seq(LinkedElement) /\ Len(pages[O.cur].entries) \in Nat
      /\ Len(pages[O.cur].entries) <= MaxEntries
  BY <1>1, <1>6, LinkedPages
<1>8. O.idx + 1 \in 1..Len(pages[O.cur].entries) /\ O.idx + 1 <= MaxEntries
  BY <1>4, <1>5, <1>7, PagesAssumption
<1>9. PICK e : e = pages[O.cur].entries[O.idx + 1]
  OBVIOUS
<1>10. e \in LinkedElement
  BY <1>7, <1>8, <1>9
<1>11. MaxEntries * (O.cur - 1) + (O.idx + 1) = O.from + Len(O.got) + 1
  <2>1. PICK a \in Nat, m \in Nat : a = O.cur - 1 /\ m = MaxEntries
    BY <1>4, PagesAssumption
  <2>2. O.cur + O.skip - 1 = a /\ m * a \in Nat
    BY <1>4, <1>5, <2>1
  <2>3. m * a + O.idx = O.from + Len(O.got)
    BY <1>3, <2>1, <2>2 DEF InPlace
  <2>4. PICK b \in Nat : b = m * a
    BY <2>2
  <2>5. b + (O.idx + 1) = O.from + Len(O.got) + 1
    BY <1>4, <2>3, <2>4
  <2> QED
    BY <2>1, <2>4, <2>5
<1>12. L!Content[O.from + Len(O.got) + 1] = e
  <2>1. /\ MaxEntries * (O.cur - 1) + (O.idx + 1) \in 1..SizeOf(pages)
        /\ ElementOf(pages, MaxEntries * (O.cur - 1) + (O.idx + 1)) = e
    BY <1>1, <1>6, <1>8, <1>9, NumberOf
  <2>2. PICK k : k = O.from + Len(O.got) + 1
    OBVIOUS
  <2>3. k \in 1..L!Size /\ ElementOf(pages, k) = e
    BY <1>1, <1>11, <2>1, <2>2
  <2> QED
    BY <2>2, <2>3, ContentIs
<1>13. PICK R : R = [O EXCEPT !.idx = O.idx + 1, !.got = Append(O.got, e)]
  OBVIOUS
<1>14. reader' = [reader EXCEPT ![r] = R]
  <2>1. reader' = [reader EXCEPT ![r].idx = @ + 1, ![r].got = Append(@, e)]
    BY <1>2, <1>9 DEF L!ApplyElement
  <2> QED
    BY <1>2, <1>13, <2>1 DEF LinkedInv, LinkedTypes
<1>15. PICK g : g = Append(O.got, e)
  OBVIOUS
<1>16. /\ g \in Seq(LinkedElement) /\ Len(g) = Len(O.got) + 1 /\ g[Len(O.got) + 1] = e
       /\ \A k \in 1..Len(O.got) : g[k] = O.got[k]
  BY <1>4, <1>10, <1>15
<1>17. /\ R.cur = O.cur /\ R.skip = 0 /\ R.idx = O.idx + 1 /\ R.from = O.from /\ R.end = O.end
       /\ R.got = g /\ R \in LinkedReader
  <2>1. R = [cur |-> O.cur, idx |-> O.idx + 1, from |-> O.from, end |-> O.end, skip |-> O.skip, got |-> g]
    BY <1>3, <1>13, <1>15 DEF LinkedReader
  <2>2. O.idx + 1 \in Nat
    BY <1>4
  <2> QED
    BY <1>4, <1>5, <1>16, <2>1, <2>2 DEF LinkedReader
<1>18. InPlace(R, L!Size, Len(pages))
  <2>1. R.cur + R.skip - 1 = O.cur - 1 /\ R.from + Len(R.got) = O.from + Len(O.got) + 1
    <3>1. R.cur + R.skip - 1 = O.cur - 1
      BY <1>4, <1>17
    <3>2. R.from + Len(R.got) = O.from + (Len(O.got) + 1)
      BY <1>16, <1>17
    <3> QED
      BY <1>4, <3>1, <3>2
  <2>2. MaxEntries * (R.cur + R.skip - 1) + R.idx = R.from + Len(R.got)
    BY <1>11, <1>17, <2>1
  <2>3. R.cur + R.skip <= Len(pages) /\ R.idx <= MaxEntries /\ R.skip = 0
    BY <1>1, <1>4, <1>6, <1>8, <1>17
  <2>4. R.from < R.end /\ R.end <= L!Size /\ Len(R.got) <= R.end - R.from
    BY <1>3, <1>4, <1>5, <1>16, <1>17 DEF InPlace
  <2> QED
    BY <2>2, <2>3, <2>4 DEF InPlace
<1>19. HasRead(R, L!Content)
  <2> SUFFICES ASSUME NEW k \in 1..Len(R.got) PROVE R.got[k] = L!Content[R.from + k]
    BY DEF HasRead
  <2>1. CASE k = Len(O.got) + 1
    <3>1. R.from + k = O.from + Len(O.got) + 1
      BY <1>4, <1>17, <2>1
    <3> QED
      BY <1>12, <1>16, <1>17, <2>1, <3>1
  <2>2. CASE k # Len(O.got) + 1
    <3>1. k \in 1..Len(O.got)
      BY <1>4, <1>16, <1>17, <2>2
    <3> QED
      BY <1>3, <1>16, <1>17, <3>1 DEF HasRead
  <2> QED
    BY <2>1, <2>2
<1> QED
  BY <1>5, <1>14, <1>17, <1>18, <1>19, ReaderGets

(* The range ends. *)
LEMMA EndRangeKeeps ==
  ASSUME LinkedInv, NEW r \in Readers, L!EndRange(r)
  PROVE  LinkedInv'
<1>1. PICK R : R = L!NotReading
  OBVIOUS
<1>2. R \in LinkedReader /\ R.cur = 0
  BY <1>1 DEF L!NotReading, LinkedReader
<1>3. reader' = [reader EXCEPT ![r] = R] /\ UNCHANGED <<pages, xlatch, writer, batches>>
  BY <1>1 DEF L!EndRange
<1> QED
  BY <1>2, <1>3, ReaderGets

(***************************************************************************)
(* The steps of writers                                                    *)
(***************************************************************************)
LinkedWriter == [cur : Nat, elems : Seq(LinkedElement)]

\* w is on a page with elems left: what is known of it
Holding(w) ==
  /\ writer[w].cur \in 1..Len(pages) /\ xlatch[writer[w].cur] = {w}
  /\ writer[w].elems \in Seq(LinkedElement) /\ Len(writer[w].elems) \in Nat \ {0}
  /\ \A i \in 1..Len(writer[w].elems) : writer[w].elems[i][1] = BatchOf(w)
  /\ BatchOf(w) \in Nat /\ BatchOf(w) <= batches
  /\ Begun(L!Content, L!Size, Len(pages), BatchOf(w), writer[w].cur)

(* Who is on a page holds it. *)
LEMMA WriterHolds ==
  ASSUME LinkedInv, NEW w \in Writers, writer[w].cur # 0
  PROVE  Holding(w)
<1>1. HasPage(w)
  BY DEF LinkedInv, WritersHold
<1>2. writer[w].elems \in Seq(LinkedElement)
  BY DEF LinkedInv, LinkedTypes
<1>3. Len(writer[w].elems) \in Nat \ {0} /\ writer[w].elems[1] \in LinkedElement
  BY <1>1, <1>2 DEF HasPage
<1>4. BatchOf(w) \in Nat
  BY <1>3 DEF BatchOf, LinkedElement
<1>5. BatchOf(w) <= batches /\ Begun(L!Content, L!Size, Len(pages), BatchOf(w), writer[w].cur)
  BY DEF LinkedInv, FillsKept
<1> QED
  BY <1>1, <1>2, <1>3, <1>4, <1>5 DEF Holding, HasPage, BatchOf

(* Two of them are on different pages with different batches. *)
LEMMA WritersApart ==
  ASSUME LinkedInv, NEW w \in Writers, writer[w].cur # 0, NEW v \in Writers, writer[v].cur # 0, v # w
  PROVE  writer[v].cur # writer[w].cur /\ BatchOf(v) # BatchOf(w)
<1>1. xlatch[writer[w].cur] = {w} /\ xlatch[writer[v].cur] = {v}
  BY DEF LinkedInv, WritersHold, HasPage
<1>2. BatchOf(v) # BatchOf(w)
  BY DEF LinkedInv, FillsKept
<1> QED
  BY <1>1, <1>2

\* the writer w becomes W and holds the pages as xl says
WriterGets(w, W) ==
  /\ W \in LinkedWriter /\ writer' = [writer EXCEPT ![w] = W]
  /\ xlatch' \in Seq(SUBSET Writers) /\ Len(xlatch') = Len(pages')
  /\ \A v \in Writers : v # w /\ writer[v].cur # 0 => xlatch'[writer[v].cur] = {v}
  /\ W.cur # 0 => /\ W.cur \in 1..Len(pages') /\ xlatch'[W.cur] = {w} /\ Len(W.elems) >= 1
                  /\ \A i \in 1..Len(W.elems) : W.elems[i][1] = W.elems[1][1]

\* pages are only added and the elements stay
PagesGrow ==
  /\ Linked(pages') /\ Len(pages) \in Nat \ {0} /\ Len(pages') \in Nat /\ Len(pages) <= Len(pages')
  /\ L!Size \in Nat /\ L!Size' \in Nat /\ L!Size <= L!Size'
  /\ \A k \in 1..L!Size : L!Content'[k] = L!Content[k]

(* Types and latches after a step of a writer *)
LEMMA WriterKeeps ==
  ASSUME LinkedInv, NEW w \in Writers, NEW W, WriterGets(w, W), PagesGrow, UNCHANGED reader, batches' \in Nat
  PROVE  LinkedTypes' /\ WritersHold' /\ ReadersKept' /\ \A v \in Writers : writer'[v] = IF v = w THEN W ELSE writer[v]
<1>1. /\ writer' \in [Writers -> LinkedWriter]
      /\ \A v \in Writers : writer'[v] = IF v = w THEN W ELSE writer[v]
  BY DEF LinkedInv, LinkedTypes, WriterGets, LinkedWriter
<1>2. LinkedTypes'
  BY <1>1 DEF LinkedInv, LinkedTypes, WriterGets, PagesGrow, LinkedWriter
<1>3. WritersHold'
  <2> SUFFICES ASSUME NEW v \in Writers, writer'[v].cur # 0 PROVE HasPage(v)'
    BY DEF WritersHold
  <2>1. CASE v = w
    BY <1>1, <2>1 DEF WriterGets, HasPage
  <2>2. CASE v # w
    <3>1. writer'[v] = writer[v] /\ HasPage(v)
      BY <1>1, <2>2 DEF LinkedInv, WritersHold
    <3>2. writer[v].cur \in 1..Len(pages') /\ xlatch'[writer[v].cur] = {v}
      BY <2>2, <3>1 DEF WriterGets, PagesGrow, HasPage
    <3> QED
      BY <3>1, <3>2 DEF HasPage
  <2> QED
    BY <2>1, <2>2
<1>4. ReadersKept'
  <2> SUFFICES ASSUME NEW r \in Readers, reader[r].cur # 0
               PROVE  InPlace(reader[r], L!Size', Len(pages')) /\ HasRead(reader[r], L!Content')
    BY DEF ReadersKept
  <2>1. PICK R : R = reader[r]
    OBVIOUS
  <2>2. R.cur \in Nat /\ R.from \in Nat /\ R.end \in Nat /\ R.skip \in Nat /\ Len(R.got) \in Nat
    <3>1. R \in LinkedReader
      BY <2>1 DEF LinkedInv, LinkedTypes, LinkedReader
    <3> QED
      BY <3>1 DEF LinkedReader
  <2>3. InPlace(R, L!Size, Len(pages)) /\ HasRead(R, L!Content)
    BY <2>1 DEF LinkedInv, ReadersKept
  <2>4. R.cur + R.skip <= Len(pages') /\ R.end <= L!Size'
    <3>1. PICK x \in Nat, y \in Nat, l \in Nat, h \in Nat :
            x = L!Size /\ y = L!Size' /\ l = Len(pages) /\ h = Len(pages') /\ x <= y /\ l <= h
      BY DEF PagesGrow
    <3>2. R.cur + R.skip <= l /\ R.end <= x
      BY <2>3, <3>1 DEF InPlace
    <3>3. R.cur + R.skip <= h /\ R.end <= y
      BY <2>2, <3>1, <3>2
    <3> QED
      BY <3>1, <3>3
  <2>5. InPlace(R, L!Size', Len(pages'))
    BY <2>3, <2>4 DEF InPlace
  <2>6. ASSUME NEW k \in 1..Len(R.got) PROVE R.from + k \in 1..L!Size
    <3>1. L!Size \in Nat
      BY DEF PagesGrow
    <3>2. PICK z \in Nat : z = L!Size
      BY <3>1
    <3>3. R.end <= z /\ Len(R.got) <= R.end - R.from
      BY <2>3, <3>2 DEF InPlace
    <3>4. R.from + k \in 1..z
      BY <2>2, <2>6, <3>3
    <3> QED
      BY <3>2, <3>4
  <2>7. HasRead(R, L!Content')
    BY <2>3, <2>6 DEF HasRead, PagesGrow
  <2> QED
    BY <2>1, <2>5, <2>7
<1> QED
  BY <1>1, <1>2, <1>3, <1>4

(* With the same elements as before *)
LEMMA SamePagesGrow ==
  ASSUME LinkedInv, UNCHANGED pages
  PROVE  PagesGrow /\ SamePages
<1>1. SamePages
  BY PagesStay
<1>2. Linked(pages) /\ Len(pages) \in Nat \ {0} /\ L!Size \in Nat
  BY LinkedPages, ContentTypes DEF LinkedInv, LinkedTypes
<1> QED
  BY <1>1, <1>2 DEF PagesGrow, SamePages

(* A batch that is new *)
LEMMA StartFillKeeps ==
  ASSUME LinkedInv, NEW w \in Writers, NEW n \in 1..MaxBatch, L!StartFill(w, n)
  PROVE  LinkedInv'
<1>1. PICK e, b : b = batches + 1 /\ e = [i \in 1..n |-> <<b, i>>]
  OBVIOUS
<1>2. PICK W : W = [cur |-> 1, elems |-> e]
  OBVIOUS
<1>3. /\ writer' = [writer EXCEPT ![w] = W] /\ xlatch' = [xlatch EXCEPT ![1] = {w}]
      /\ xlatch[1] = {} /\ batches' = b /\ UNCHANGED <<pages, slatch, reader>> /\ writer[w].cur = 0
  BY <1>1, <1>2 DEF L!StartFill, L!CanX
<1>4. n \in Nat \ {0} /\ b \in Nat /\ batches \in Nat
  BY <1>1, PagesAssumption DEF LinkedInv, LinkedTypes
<1>5. e \in Seq(LinkedElement) /\ Len(e) = n /\ \A i \in 1..n : e[i][1] = b
  <2>1. \A i \in 1..n : <<b, i>> \in LinkedElement /\ <<b, i>>[1] = b
    BY <1>4 DEF LinkedElement
  <2>2. e \in [1..n -> LinkedElement] /\ \A i \in 1..n : e[i][1] = b
    BY <1>1, <2>1
  <2>3. PICK X : X = LinkedElement
    OBVIOUS
  <2>4. e \in [1..n -> X]
    BY <2>2, <2>3
  <2>5. e \in Seq(X) /\ Len(e) = n
    BY ONLY <1>4, <2>4
  <2> QED
    BY <2>2, <2>3, <2>5
<1>6. PagesGrow /\ SamePages /\ Len(pages) \in Nat \ {0} /\ Len(pages') = Len(pages)
  BY <1>3, SamePagesGrow DEF PagesGrow
<1>7. W \in LinkedWriter /\ W.cur = 1 /\ W.elems = e
  BY <1>2, <1>5 DEF LinkedWriter
<1>8. /\ xlatch' \in Seq(SUBSET Writers) /\ Len(xlatch') = Len(pages') /\ xlatch'[1] = {w}
      /\ \A p \in 1..Len(pages) : p # 1 => xlatch'[p] = xlatch[p]
  BY <1>3, <1>6 DEF LinkedInv, LinkedTypes
<1>9. ASSUME NEW v \in Writers, v # w, writer[v].cur # 0 PROVE xlatch'[writer[v].cur] = {v}
  <2>1. writer[v].cur \in 1..Len(pages) /\ xlatch[writer[v].cur] = {v}
    BY <1>9, WriterHolds DEF Holding
  <2> QED
    BY <1>3, <1>8, <2>1
<1>10. WriterGets(w, W)
  <2>1. W.cur \in 1..Len(pages') /\ xlatch'[W.cur] = {w} /\ Len(W.elems) >= 1
    BY <1>4, <1>5, <1>6, <1>7, <1>8
  <2>2. \A i \in 1..Len(W.elems) : W.elems[i][1] = W.elems[1][1]
    BY <1>4, <1>5, <1>7
  <2> QED
    BY <1>3, <1>7, <1>8, <1>9, <2>1, <2>2 DEF WriterGets
<1>11. LinkedTypes' /\ WritersHold' /\ ReadersKept' /\ \A v \in Writers : writer'[v] = IF v = w THEN W ELSE writer[v]
  BY <1>3, <1>4, <1>6, <1>10, WriterKeeps
<1>12. BatchOf(w)' = b /\ \A v \in Writers : v # w => BatchOf(v)' = BatchOf(v)
  BY <1>4, <1>5, <1>7, <1>11 DEF BatchOf
<1>13. L!Size \in Nat /\ \A k \in 1..L!Size : L!Content[k][1] \in Nat /\ L!Content[k][1] <= batches
  BY ContentTypes DEF LinkedInv, LinkedTypes, FillsKept
<1>14. FillsKept'
  <2>1. \A k \in 1..L!Size' : L!Content'[k][1] <= batches'
    BY <1>1, <1>3, <1>4, <1>6, <1>13 DEF SamePages
  <2>2. Together(L!Content, L!Size)'
    BY <1>6 DEF SamePages, LinkedInv, FillsKept, Together
  <2>3. ASSUME NEW u \in Writers, writer'[u].cur # 0
        PROVE  /\ BatchOf(u)' <= batches'
               /\ Begun(L!Content', L!Size', Len(pages'), BatchOf(u)', writer'[u].cur)
               /\ \A v \in Writers : v # u /\ writer'[v].cur # 0 => BatchOf(v)' # BatchOf(u)'
    <3>1. ASSUME NEW v \in Writers, v # w, writer'[v].cur # 0
          PROVE  /\ BatchOf(v)' = BatchOf(v) /\ BatchOf(v) \in Nat /\ BatchOf(v) <= batches /\ writer'[v] = writer[v]
                 /\ Begun(L!Content, L!Size, Len(pages), BatchOf(v), writer[v].cur) /\ writer[v].cur # 0
      BY <1>11, <1>12, <3>1, WriterHolds DEF Holding
    <3>2. CASE u = w
      <4>1. \A k \in 1..L!Size : L!Content[k][1] # b
        BY <1>1, <1>4, <1>13
      <4>2. Begun(L!Content', L!Size', Len(pages'), BatchOf(u)', writer'[u].cur)
        BY <1>6, <1>12, <3>2, <4>1 DEF Begun, SamePages
      <4>3. \A v \in Writers : v # u /\ writer'[v].cur # 0 => BatchOf(v)' # BatchOf(u)'
        BY <1>1, <1>4, <1>12, <3>1, <3>2
      <4> QED
        BY <1>3, <1>4, <1>12, <3>2, <4>2, <4>3
    <3>3. CASE u # w
      <4>1. BatchOf(u)' <= batches' /\ BatchOf(u)' # b
        BY <1>1, <1>3, <1>4, <2>3, <3>1, <3>3
      <4>2. Begun(L!Content', L!Size', Len(pages'), BatchOf(u)', writer'[u].cur)
        BY <1>6, <2>3, <3>1, <3>3 DEF SamePages
      <4>3. ASSUME NEW v \in Writers, v # u, writer'[v].cur # 0 PROVE BatchOf(v)' # BatchOf(u)'
        <5>1. CASE v = w
          BY <1>12, <4>1, <5>1
        <5>2. CASE v # w
          BY <2>3, <3>1, <3>3, <4>3, <5>2, WritersApart
        <5> QED
          BY <5>1, <5>2
      <4> QED
        BY <4>1, <4>2, <4>3
    <3> QED
      BY <3>2, <3>3
  <2> QED
    BY <2>1, <2>2, <2>3 DEF FillsKept
<1> QED
  BY <1>11, <1>14 DEF LinkedInv

(* The next page, which nobody holds *)
LEMMA WalkToTailKeeps ==
  ASSUME LinkedInv, NEW w \in Writers, L!WalkToTail(w)
  PROVE  LinkedInv'
<1>1. Holding(w) /\ writer[w].cur # 0
  BY WriterHolds DEF L!WalkToTail
<1>2. Linked(pages) /\ Len(pages) \in Nat \ {0} /\ L!Size \in Nat
  BY LinkedPages, ContentTypes DEF LinkedInv, LinkedTypes
<1>3. PICK p \in 1..Len(pages), q \in Int : p = writer[w].cur /\ q = p + 1
  BY <1>1, <1>2 DEF Holding
<1>4. p # Len(pages) /\ pages[p].next = q /\ q \in 1..Len(pages)
  <2>1. pages[p].next # 0
    BY <1>3 DEF L!WalkToTail
  <2>2. p # Len(pages) /\ pages[p].next = q
    BY <1>2, <1>3, <2>1 DEF Linked
  <2> QED
    BY <1>2, <1>3, <2>2
<1>5. PICK W : W = [cur |-> q, elems |-> writer[w].elems]
  OBVIOUS
<1>6. /\ writer' = [writer EXCEPT ![w].cur = q] /\ xlatch' = [xlatch EXCEPT ![p] = {}, ![q] = {w}]
      /\ xlatch[q] = {} /\ UNCHANGED <<pages, slatch, reader, batches>>
  BY <1>3, <1>4 DEF L!WalkToTail, L!CanX
<1>7. writer' = [writer EXCEPT ![w] = W]
  <2>1. writer \in [Writers -> LinkedWriter] /\ writer[w] \in LinkedWriter
    BY DEF LinkedInv, LinkedTypes, LinkedWriter
  <2>2. [writer[w] EXCEPT !.cur = q] = W
    BY <1>5, <2>1 DEF LinkedWriter
  <2>3. writer' = [writer EXCEPT ![w] = [writer[w] EXCEPT !.cur = q]]
    BY <1>6, <2>1
  <2> QED
    BY <2>2, <2>3
<1>8. PagesGrow /\ SamePages
  BY <1>6, SamePagesGrow
<1>9. W \in LinkedWriter /\ W.cur = q /\ W.elems = writer[w].elems
  BY <1>1, <1>2, <1>4, <1>5 DEF LinkedWriter, Holding
<1>10. /\ xlatch' \in Seq(SUBSET Writers) /\ Len(xlatch') = Len(pages') /\ xlatch'[q] = {w}
       /\ \A x \in 1..Len(pages) : x # p /\ x # q => xlatch'[x] = xlatch[x]
  BY <1>3, <1>4, <1>6 DEF LinkedInv, LinkedTypes
<1>11. ASSUME NEW v \in Writers, v # w, writer[v].cur # 0 PROVE xlatch'[writer[v].cur] = {v}
  <2>1. writer[v].cur \in 1..Len(pages) /\ xlatch[writer[v].cur] = {v} /\ writer[v].cur # p
    BY <1>1, <1>3, <1>11, WriterHolds, WritersApart DEF Holding
  <2> QED
    BY <1>6, <1>10, <2>1
<1>12. WriterGets(w, W)
  <2>1. W.cur \in 1..Len(pages') /\ xlatch'[W.cur] = {w} /\ Len(W.elems) >= 1
    BY <1>1, <1>4, <1>6, <1>9, <1>10 DEF Holding
  <2>2. \A i \in 1..Len(W.elems) : W.elems[i][1] = W.elems[1][1]
    BY <1>1, <1>9 DEF Holding, BatchOf
  <2> QED
    BY <1>7, <1>9, <1>10, <1>11, <2>1, <2>2 DEF WriterGets
<1>13. batches' = batches /\ batches \in Nat
  BY <1>6 DEF LinkedInv, LinkedTypes
<1>14. LinkedTypes' /\ WritersHold' /\ ReadersKept' /\ \A v \in Writers : writer'[v] = IF v = w THEN W ELSE writer[v]
  BY <1>6, <1>8, <1>12, <1>13, WriterKeeps
<1>15. \A v \in Writers : BatchOf(v)' = BatchOf(v) /\ (writer'[v].cur # 0 => writer[v].cur # 0)
  BY <1>1, <1>9, <1>14 DEF BatchOf
<1>16. FillsKept'
  <2>1. \A k \in 1..L!Size' : L!Content'[k][1] <= batches'
    BY <1>8, <1>13 DEF LinkedInv, FillsKept, SamePages
  <2>2. Together(L!Content, L!Size)'
    BY <1>8 DEF SamePages, LinkedInv, FillsKept, Together
  <2>3. ASSUME NEW u \in Writers, writer'[u].cur # 0
        PROVE  /\ BatchOf(u)' <= batches'
               /\ Begun(L!Content', L!Size', Len(pages'), BatchOf(u)', writer'[u].cur)
               /\ \A v \in Writers : v # u /\ writer'[v].cur # 0 => BatchOf(v)' # BatchOf(u)'
    <3>1. /\ BatchOf(u)' <= batches' /\ Begun(L!Content, L!Size, Len(pages), BatchOf(u)', writer[u].cur)
          /\ writer[u].cur # 0
      BY <1>13, <1>15, <2>3, WriterHolds DEF Holding
    <3>2. Begun(L!Content, L!Size, Len(pages), BatchOf(u)', writer'[u].cur)
      <4>1. CASE u = w
        BY <1>3, <1>4, <3>1, <4>1 DEF Begun
      <4>2. CASE u # w
        BY <1>14, <3>1, <4>2
      <4> QED
        BY <4>1, <4>2
    <3>3. Begun(L!Content', L!Size', Len(pages'), BatchOf(u)', writer'[u].cur)
      BY <1>8, <3>2 DEF SamePages
    <3>4. ASSUME NEW v \in Writers, v # u, writer'[v].cur # 0 PROVE BatchOf(v)' # BatchOf(u)'
      BY <1>15, <2>3, <3>4, WritersApart
    <3> QED
      BY <3>1, <3>3, <3>4
  <2> QED
    BY <2>1, <2>2, <2>3 DEF FillsKept
<1> QED
  BY <1>14, <1>16 DEF LinkedInv

(* At the last page nobody else has begun. *)
LEMMA OthersHaveNotBegun ==
  ASSUME LinkedInv, NEW w \in Writers, writer[w].cur # 0, writer[w].cur = Len(pages),
         NEW v \in Writers, v # w, writer[v].cur # 0
  PROVE  \A k \in 1..L!Size : L!Content[k][1] # BatchOf(v)
<1>1. Begun(L!Content, L!Size, Len(pages), BatchOf(v), writer[v].cur)
  BY WriterHolds DEF Holding
<1>2. writer[v].cur # Len(pages)
  BY WritersApart
<1> QED
  BY <1>1, <1>2 DEF Begun

Pushed(pg, e) == [pg EXCEPT ![Len(pg)].entries = Append(@, e)]
Appended(pg) == Append([pg EXCEPT ![Len(pg)].next = Len(pg) + 1], L!NewNode)

(* An element more on the last page is an element more in the list. *)
LEMMA PushedPages ==
  ASSUME NEW pg, Linked(pg), NEW e \in LinkedElement, Len(pg[Len(pg)].entries) # MaxEntries,
         NEW qg, qg = Pushed(pg, e)
  PROVE  /\ Linked(qg) /\ Len(qg) = Len(pg) /\ SizeOf(qg) = SizeOf(pg) + 1 /\ ElementOf(qg, SizeOf(pg) + 1) = e
         /\ \A k \in 1..SizeOf(pg) : ElementOf(qg, k) = ElementOf(pg, k)
<1>1. PICK n, o, z : n = Len(pg) /\ o = pg[n].entries /\ z = Len(o)
  OBVIOUS
<1>2. n \in Nat \ {0} /\ o \in Seq(LinkedElement) /\ z \in Nat /\ z < MaxEntries
  <2>1. n \in Nat \ {0} /\ n \in 1..Len(pg)
    BY <1>1, LinkedPages
  <2>2. o \in Seq(LinkedElement) /\ z \in Nat /\ z <= MaxEntries
    BY <1>1, <2>1, LinkedPages
  <2> QED
    BY <1>1, <2>1, <2>2, PagesAssumption
<1>3. PICK a, T : a = Append(o, e) /\ T = [entries : Seq(LinkedElement), next : Nat]
  OBVIOUS
<1>4. a \in Seq(LinkedElement) /\ Len(a) = z + 1 /\ a[z + 1] = e /\ \A i \in 1..z : a[i] = o[i]
  BY <1>1, <1>2, <1>3
<1>5. pg \in Seq(T) /\ pg[n] \in T
  <2>1. pg \in Seq(T) /\ n \in 1..Len(pg)
    BY <1>1, <1>2, <1>3 DEF Linked
  <2> QED
    BY ONLY <2>1
<1>6. PICK N : N = [pg[n] EXCEPT !.entries = a]
  OBVIOUS
<1>7. N \in T /\ N.entries = a /\ N.next = pg[n].next
  BY <1>3, <1>4, <1>5, <1>6
<1>8. qg = [pg EXCEPT ![n] = N]
  BY <1>1, <1>3, <1>5, <1>6 DEF Pushed
<1>9. qg \in Seq(T) /\ Len(qg) = n /\ qg[n] = N /\ \A p \in 1..n : p # n => qg[p] = pg[p]
  BY ONLY <1>1, <1>2, <1>5, <1>7, <1>8
<1>10. Linked(qg)
  <2>1. ASSUME NEW p \in 1..Len(qg)
        PROVE  /\ Len(qg[p].entries) <= MaxEntries
               /\ p = Len(qg) => qg[p].next = 0
               /\ p # Len(qg) => qg[p].next = p + 1 /\ Len(qg[p].entries) = MaxEntries
    <3>1. CASE p = n
      BY <1>1, <1>2, <1>4, <1>7, <1>9, <3>1, PagesAssumption DEF Linked
    <3>2. CASE p # n
      BY <1>1, <1>9, <3>2 DEF Linked
    <3> QED
      BY <3>1, <3>2
  <2> QED
    BY <1>2, <1>3, <1>9, <2>1 DEF Linked
<1>11. PICK m \in Nat \ {0}, b \in Nat : m = MaxEntries /\ b = (n - 1) * m /\ b = m * (n - 1)
  <2>1. (n - 1) * MaxEntries \in Nat /\ (n - 1) * MaxEntries = MaxEntries * (n - 1)
    BY <1>2, PagesAssumption
  <2> QED
    BY <2>1, PagesAssumption
<1>12. SizeOf(pg) = b + z /\ SizeOf(qg) = b + (z + 1)
  BY <1>1, <1>4, <1>7, <1>9, <1>11 DEF SizeOf
<1>13. ElementOf(qg, b + (z + 1)) = e
  <2>1. n \in 1..Len(qg) /\ z + 1 \in 1..Len(qg[n].entries)
    <3>1. Len(qg[n].entries) = z + 1 /\ Len(qg) = n
      BY <1>4, <1>7, <1>9
    <3> QED
      BY <1>2, <3>1
  <2>2. ElementOf(qg, MaxEntries * (n - 1) + (z + 1)) = qg[n].entries[z + 1]
    BY <1>10, <2>1, NumberOf
  <2> QED
    BY <1>4, <1>7, <1>9, <1>11, <2>2
<1>14. \A k \in 1..SizeOf(pg) : ElementOf(qg, k) = ElementOf(pg, k)
  <2>1. ASSUME NEW p \in 1..Len(pg), NEW i \in 1..Len(pg[p].entries)
        PROVE  i \in 1..Len(qg[p].entries) /\ qg[p].entries[i] = pg[p].entries[i]
    BY <1>1, <1>2, <1>4, <1>7, <1>9
  <2>2. Len(pg) <= Len(qg)
    BY <1>1, <1>2, <1>9
  <2> QED
    BY ONLY Linked(pg), <1>10, <2>1, <2>2, KeptPlaces
<1>15. SizeOf(qg) = SizeOf(pg) + 1 /\ SizeOf(pg) + 1 = b + (z + 1)
  BY <1>2, <1>11, <1>12
<1> QED
  BY <1>1, <1>9, <1>10, <1>13, <1>14, <1>15

(* An empty page behind full ones adds nothing. *)
LEMMA AppendedPages ==
  ASSUME NEW pg, Linked(pg), Len(pg[Len(pg)].entries) = MaxEntries,
         NEW qg, qg = Appended(pg)
  PROVE  /\ Linked(qg) /\ Len(qg) = Len(pg) + 1 /\ SizeOf(qg) = SizeOf(pg)
         /\ \A k \in 1..SizeOf(pg) : ElementOf(qg, k) = ElementOf(pg, k)
<1>1. PICK n, T : n = Len(pg) /\ T = [entries : Seq(LinkedElement), next : Nat]
  OBVIOUS
<1>2. n \in Nat \ {0} /\ n \in 1..Len(pg) /\ pg \in Seq(T) /\ pg[n] \in T
  <2>1. n \in Nat \ {0} /\ n \in 1..Len(pg) /\ pg \in Seq(T)
    BY <1>1, LinkedPages DEF Linked
  <2> QED
    BY ONLY <2>1
<1>3. PICK N, E : N = [pg[n] EXCEPT !.next = n + 1] /\ E = L!NewNode
  OBVIOUS
<1>4. N \in T /\ N.entries = pg[n].entries /\ N.next = n + 1
  BY <1>1, <1>2, <1>3
<1>5. E \in T /\ Len(E.entries) = 0 /\ E.next = 0
  BY <1>1, <1>3 DEF L!NewNode
<1>6. PICK hg : hg = [pg EXCEPT ![n] = N]
  OBVIOUS
<1>7. hg \in Seq(T) /\ Len(hg) = n /\ hg[n] = N /\ \A p \in 1..n : p # n => hg[p] = pg[p]
  BY ONLY <1>1, <1>2, <1>4, <1>6
<1>8. qg = Append(hg, E)
  BY <1>1, <1>2, <1>3, <1>6 DEF Appended
<1>9. qg \in Seq(T) /\ Len(qg) = n + 1 /\ qg[n + 1] = E /\ \A p \in 1..n : qg[p] = hg[p]
  BY ONLY <1>2, <1>5, <1>7, <1>8
<1>10. Linked(qg)
  <2>1. ASSUME NEW p \in 1..Len(qg)
        PROVE  /\ Len(qg[p].entries) <= MaxEntries
               /\ p = Len(qg) => qg[p].next = 0
               /\ p # Len(qg) => qg[p].next = p + 1 /\ Len(qg[p].entries) = MaxEntries
    <3>1. CASE p = n + 1
      BY <1>2, <1>5, <1>9, <3>1, PagesAssumption
    <3>2. CASE p = n
      BY <1>1, <1>2, <1>4, <1>7, <1>9, <3>2, PagesAssumption
    <3>3. CASE p # n /\ p # n + 1
      <4>1. p \in 1..Len(pg) /\ p # Len(pg) /\ p # Len(qg) /\ qg[p] = pg[p]
        <5>1. p \in 1..(n + 1) /\ p \in 1..n
          BY <1>2, <1>9, <3>3
        <5>2. qg[p] = pg[p]
          BY <1>7, <1>9, <3>3, <5>1
        <5> QED
          BY <1>1, <1>9, <3>3, <5>1, <5>2
      <4>2. pg[p].next = p + 1 /\ Len(pg[p].entries) = MaxEntries
        BY <4>1 DEF Linked
      <4> QED
        BY <4>1, <4>2, PagesAssumption
    <3> QED
      BY <3>1, <3>2, <3>3
  <2> QED
    BY <1>1, <1>2, <1>9, <2>1 DEF Linked
<1>11. SizeOf(qg) = SizeOf(pg)
  <2>1. PICK m \in Nat, a \in Nat : m = MaxEntries /\ a = n - 1
    BY <1>2, PagesAssumption
  <2>2. SizeOf(pg) = a * m + m
    BY <1>1, <2>1 DEF SizeOf
  <2>3. Len(qg) - 1 = a + 1 /\ Len(qg[Len(qg)].entries) = 0
    BY <1>2, <1>5, <1>9, <2>1
  <2>4. SizeOf(qg) = (a + 1) * m + 0
    BY <2>1, <2>3 DEF SizeOf
  <2>5. (a + 1) * m + 0 = a * m + m
    OBVIOUS
  <2> QED
    BY <2>2, <2>4, <2>5
<1>12. \A k \in 1..SizeOf(pg) : ElementOf(qg, k) = ElementOf(pg, k)
  <2>1. ASSUME NEW p \in 1..Len(pg), NEW i \in 1..Len(pg[p].entries)
        PROVE  i \in 1..Len(qg[p].entries) /\ qg[p].entries[i] = pg[p].entries[i]
    BY <1>1, <1>2, <1>4, <1>7, <1>9
  <2>2. Len(pg) <= Len(qg)
    BY <1>1, <1>2, <1>9
  <2> QED
    BY ONLY Linked(pg), <1>10, <2>1, <2>2, KeptPlaces
<1> QED
  BY <1>1, <1>9, <1>10, <1>11, <1>12

(* Two facts about sequences *)
LEMMA RestOf ==
  ASSUME NEW X, NEW o \in Seq(X), Len(o) \in Nat \ {0}
  PROVE  /\ Head(o) = o[1] /\ Head(o) \in X /\ Tail(o) \in Seq(X) /\ Len(Tail(o)) = Len(o) - 1
         /\ \A i \in 1..Len(Tail(o)) : Tail(o)[i] = o[i + 1] /\ i + 1 \in 1..Len(o)
         /\ Tail(o) # <<>> => Len(Tail(o)) >= 1
<1>1. Len(o) \in Nat /\ o # <<>>
  OBVIOUS
<1>2. Head(o) = o[1] /\ Head(o) \in X /\ Tail(o) \in Seq(X) /\ Len(Tail(o)) = Len(o) - 1
  BY <1>1
<1>3. \A i \in 1..Len(Tail(o)) : Tail(o)[i] = o[i + 1] /\ i + 1 \in 1..Len(o)
  BY <1>1, <1>2
<1>4. Tail(o) # <<>> => Len(Tail(o)) >= 1
  BY <1>1, <1>2
<1> QED
  BY <1>2, <1>3, <1>4

\* w is at the last page with element e of batch b to come, and the page has room
AtEnd(w, e, b) ==
  /\ writer[w].cur = Len(pages) /\ Len(pages) \in Nat \ {0} /\ e \in LinkedElement /\ e[1] = b /\ b = BatchOf(w)

(* What a push does to the pages *)
LEMMA PushGrows ==
  ASSUME LinkedInv, NEW w \in Writers, L!PushElement(w)
  PROVE  \E e : /\ AtEnd(w, e, BatchOf(w)) /\ PagesGrow /\ Len(pages') = Len(pages)
               /\ L!Size' = L!Size + 1 /\ L!Content'[L!Size + 1] = e
<1>1. Holding(w)
  BY WriterHolds DEF L!PushElement
<1>2. Linked(pages) /\ Len(pages) \in Nat \ {0} /\ L!Size \in Nat
  BY LinkedPages, ContentTypes DEF LinkedInv, LinkedTypes
<1>3. PICK p \in 1..Len(pages) : p = writer[w].cur
  BY <1>1 DEF Holding
<1>4. /\ pages[p].next = 0 /\ Len(pages[p].entries) # MaxEntries
      /\ pages' = [pages EXCEPT ![p].entries = Append(@, Head(writer[w].elems))]
  BY <1>3 DEF L!PushElement, L!IsFull
<1>5. p = Len(pages)
  <2>1. SUFFICES ASSUME p # Len(pages) PROVE FALSE
    OBVIOUS
  <2>2. pages[p].next = p + 1
    BY <1>2, <2>1 DEF Linked
  <2> QED
    BY <1>2, <1>4, <2>2
<1>6. PICK e : e = Head(writer[w].elems)
  OBVIOUS
<1>7. e \in LinkedElement /\ e[1] = BatchOf(w)
  <2>1. PICK o, X : o = writer[w].elems /\ X = LinkedElement
    OBVIOUS
  <2>2. o \in Seq(X) /\ Len(o) \in Nat \ {0}
    BY <1>1, <2>1 DEF Holding
  <2>3. Head(o) = o[1] /\ Head(o) \in X
    BY ONLY <2>2, RestOf
  <2> QED
    BY <1>6, <2>1, <2>3 DEF BatchOf
<1>8. AtEnd(w, e, BatchOf(w))
  BY <1>2, <1>3, <1>5, <1>7 DEF AtEnd
<1>9. PICK qg : qg = pages'
  OBVIOUS
<1>10. qg = Pushed(pages, e) /\ Len(pages[Len(pages)].entries) # MaxEntries
  BY <1>4, <1>5, <1>6, <1>9 DEF Pushed
<1>11. /\ Linked(qg) /\ Len(qg) = Len(pages) /\ SizeOf(qg) = SizeOf(pages) + 1
       /\ ElementOf(qg, SizeOf(pages) + 1) = e
       /\ \A k \in 1..SizeOf(pages) : ElementOf(qg, k) = ElementOf(pages, k)
  BY ONLY <1>2, <1>7, <1>10, PushedPages
<1>12. PICK n \in Nat : n = L!Size /\ n = SizeOf(pages) /\ L!Size' = n + 1
  BY <1>2, <1>9, <1>11, ContentIs
<1>13. /\ \A k \in 1..n : L!Content[k] = ElementOf(pages, k)
       /\ \A k \in 1..(n + 1) : L!Content'[k] = ElementOf(qg, k)
  <2>1. \A k \in 1..n : L!Content[k] = ElementOf(pages, k)
    BY <1>12, ContentIs
  <2>2. \A k \in 1..L!Size' : L!Content'[k] = ElementOf(pages', k)
    BY ContentIs
  <2> QED
    BY <1>9, <1>12, <2>1, <2>2
<1>14. L!Content'[n + 1] = e
  <2>1. n + 1 \in 1..(n + 1)
    OBVIOUS
  <2> QED
    BY <1>11, <1>12, <1>13, <2>1
<1>15. \A k \in 1..n : L!Content'[k] = L!Content[k]
  <2> SUFFICES ASSUME NEW k \in 1..n PROVE L!Content'[k] = L!Content[k]
    OBVIOUS
  <2>1. k \in 1..(n + 1)
    OBVIOUS
  <2> QED
    BY <1>11, <1>12, <1>13, <2>1
<1>16. Len(pages) <= Len(pages') /\ Len(pages') \in Nat /\ n <= n + 1 /\ n + 1 \in Nat
  BY <1>2, <1>9, <1>11
<1>17. PagesGrow
  BY <1>2, <1>9, <1>11, <1>12, <1>15, <1>16 DEF PagesGrow
<1> QED
  BY <1>8, <1>9, <1>11, <1>12, <1>14, <1>17

(* Elements of a batch stay together when one more of the last batch, or of a new one, comes. *)
LEMMA TogetherGrows ==
  ASSUME NEW n \in Nat, NEW c, NEW d, Together(c, n), \A k \in 1..n : d[k] = c[k],
         \/ \A k \in 1..n : c[k][1] # d[n + 1][1]
         \/ n >= 1 /\ c[n][1] = d[n + 1][1]
  PROVE  Together(d, n + 1)
<1> SUFFICES ASSUME NEW i \in 1..(n + 1), NEW j \in 1..(n + 1), i < j, d[i][1] = d[j][1], NEW k \in i..j
             PROVE  d[k][1] = d[i][1]
  BY DEF Together
<1>1. i \in 1..n /\ d[i] = c[i]
  OBVIOUS
<1>2. CASE j \in 1..n
  <2>1. k \in 1..n /\ d[k] = c[k] /\ d[j] = c[j]
    BY <1>2
  <2>2. c[k][1] = c[i][1]
    BY <1>1, <1>2, <2>1 DEF Together
  <2> QED
    BY <1>1, <2>1, <2>2
<1>3. CASE j = n + 1
  <2>1. n >= 1 /\ n \in 1..n /\ c[n][1] = c[i][1]
    BY <1>1, <1>3
  <2>2. CASE k = n + 1
    BY <1>3, <2>2
  <2>3. CASE k # n + 1
    <3>1. k \in i..n /\ k \in 1..n /\ d[k] = c[k]
      BY <1>1, <1>3, <2>3
    <3>2. CASE i = n
      BY <1>1, <3>1, <3>2
    <3>3. CASE i # n
      <4>1. i < n
        BY <1>1, <3>3
      <4>2. c[k][1] = c[i][1]
        BY <1>1, <2>1, <3>1, <4>1 DEF Together
      <4> QED
        BY <1>1, <3>1, <4>2
    <3> QED
      BY <3>2, <3>3
  <2> QED
    BY <2>2, <2>3
<1> QED
  BY <1>2, <1>3

(* After the last element the writer is idle, else it keeps its page. *)
LEMMA LinkedPushKeeps ==
  ASSUME LinkedInv, NEW w \in Writers, L!PushElement(w)
  PROVE  LinkedInv'
<1>1. Holding(w) /\ writer[w].cur # 0
  BY WriterHolds DEF L!PushElement
<1>2. PICK e : /\ AtEnd(w, e, BatchOf(w)) /\ PagesGrow /\ Len(pages') = Len(pages)
               /\ L!Size' = L!Size + 1 /\ L!Content'[L!Size + 1] = e
  BY PushGrows
<1>3. PICK p, o, rest : p = writer[w].cur /\ o = writer[w].elems /\ rest = Tail(o)
  OBVIOUS
<1>4. p = Len(pages) /\ p \in Nat \ {0} /\ e \in LinkedElement /\ e[1] = BatchOf(w)
  BY <1>2, <1>3 DEF AtEnd
<1>5. UNCHANGED <<reader, batches>> /\ batches \in Nat
  BY DEF L!PushElement, LinkedInv, LinkedTypes
<1>6. /\ rest \in Seq(LinkedElement) /\ Len(rest) \in Nat /\ (rest # <<>> => Len(rest) >= 1)
      /\ \A i \in 1..Len(rest) : rest[i][1] = BatchOf(w)
  <2>1. PICK X : X = LinkedElement
    OBVIOUS
  <2>2. o \in Seq(X) /\ Len(o) \in Nat \ {0} /\ \A i \in 1..Len(o) : o[i][1] = BatchOf(w)
    BY <1>1, <1>3, <2>1 DEF Holding
  <2>3. /\ Tail(o) \in Seq(X) /\ Len(Tail(o)) = Len(o) - 1
        /\ \A i \in 1..Len(Tail(o)) : Tail(o)[i] = o[i + 1] /\ i + 1 \in 1..Len(o)
        /\ Tail(o) # <<>> => Len(Tail(o)) >= 1
    BY ONLY <2>2, RestOf
  <2> QED
    BY <1>3, <2>1, <2>2, <2>3
<1>7. writer \in [Writers -> LinkedWriter] /\ writer[w] \in LinkedWriter
  BY DEF LinkedInv, LinkedTypes, LinkedWriter
<1>8. \E W : /\ WriterGets(w, W) /\ (W.cur # 0 => W.cur = p /\ W.elems[1][1] = BatchOf(w))
  <2>1. ASSUME NEW v \in Writers, v # w, writer[v].cur # 0
        PROVE  writer[v].cur \in 1..Len(pages) /\ xlatch[writer[v].cur] = {v} /\ writer[v].cur # p
    BY <1>1, <1>3, <2>1, WriterHolds, WritersApart DEF Holding
  <2>2. CASE rest = <<>>
    <3>1. PICK W : W = L!Idle
      OBVIOUS
    <3>2. W \in LinkedWriter /\ W.cur = 0
      BY <3>1 DEF L!Idle, LinkedWriter
    <3>3. writer' = [writer EXCEPT ![w] = W] /\ xlatch' = [xlatch EXCEPT ![p] = {}]
      BY <1>3, <2>2, <3>1 DEF L!PushElement
    <3>4. /\ xlatch' \in Seq(SUBSET Writers) /\ Len(xlatch') = Len(pages')
          /\ \A x \in 1..Len(pages) : x # p => xlatch'[x] = xlatch[x]
      BY <1>2, <1>4, <3>3 DEF LinkedInv, LinkedTypes
    <3>5. \A v \in Writers : v # w /\ writer[v].cur # 0 => xlatch'[writer[v].cur] = {v}
      BY <2>1, <3>4
    <3> QED
      BY <3>2, <3>3, <3>4, <3>5 DEF WriterGets
  <2>3. CASE rest # <<>>
    <3>1. PICK W : W = [cur |-> writer[w].cur, elems |-> rest]
      OBVIOUS
    <3>2. W \in LinkedWriter /\ W.cur = p /\ W.elems = rest
      BY <1>3, <1>4, <1>6, <3>1 DEF LinkedWriter
    <3>3. writer' = [writer EXCEPT ![w].elems = rest] /\ UNCHANGED xlatch
      BY <1>3, <2>3 DEF L!PushElement
    <3>4. writer' = [writer EXCEPT ![w] = W]
      <4>1. [writer[w] EXCEPT !.elems = rest] = W
        BY <1>7, <3>1 DEF LinkedWriter
      <4>2. writer' = [writer EXCEPT ![w] = [writer[w] EXCEPT !.elems = rest]]
        BY <1>7, <3>3
      <4> QED
        BY <4>1, <4>2
    <3>5. xlatch' \in Seq(SUBSET Writers) /\ Len(xlatch') = Len(pages')
      BY <1>2, <3>3 DEF LinkedInv, LinkedTypes
    <3>6. \A v \in Writers : v # w /\ writer[v].cur # 0 => xlatch'[writer[v].cur] = {v}
      BY <2>1, <3>3
    <3>7. W.cur \in 1..Len(pages') /\ xlatch'[W.cur] = {w} /\ Len(W.elems) >= 1
      BY <1>1, <1>2, <1>3, <1>4, <1>6, <2>3, <3>2, <3>3 DEF Holding
    <3>8. W.elems[1][1] = BatchOf(w) /\ \A i \in 1..Len(W.elems) : W.elems[i][1] = W.elems[1][1]
      BY <1>6, <2>3, <3>2
    <3> QED
      BY <3>2, <3>4, <3>5, <3>6, <3>7, <3>8 DEF WriterGets
  <2> QED
    BY <2>2, <2>3
<1>9. PICK W : WriterGets(w, W) /\ (W.cur # 0 => W.cur = p /\ W.elems[1][1] = BatchOf(w))
  BY <1>8
<1>10. LinkedTypes' /\ WritersHold' /\ ReadersKept' /\ \A v \in Writers : writer'[v] = IF v = w THEN W ELSE writer[v]
  BY <1>2, <1>5, <1>9, WriterKeeps
<1>11. \A v \in Writers : writer'[v].cur # 0 => BatchOf(v)' = BatchOf(v) /\ writer[v].cur # 0
  BY <1>1, <1>9, <1>10 DEF BatchOf
<1>12. PICK n, c, d : n = L!Size /\ c = L!Content /\ d = L!Content'
  OBVIOUS
<1>13. n \in Nat /\ L!Size' = n + 1 /\ d[n + 1] = e /\ \A k \in 1..n : d[k] = c[k]
  BY <1>2, <1>12 DEF PagesGrow
<1>14. Together(c, n) /\ \A k \in 1..n : c[k][1] <= batches
  BY <1>12 DEF LinkedInv, FillsKept
<1>15. Begun(c, n, Len(pages), BatchOf(w), p) /\ BatchOf(w) <= batches
  BY <1>1, <1>3, <1>12 DEF Holding
<1>16. Together(d, n + 1)
  <2>1. \/ \A k \in 1..n : c[k][1] # d[n + 1][1]
        \/ n >= 1 /\ c[n][1] = d[n + 1][1]
    BY <1>4, <1>13, <1>15 DEF Begun
  <2> QED
    BY ONLY <1>13, <1>14, <2>1, TogetherGrows
<1>17. \A k \in 1..(n + 1) : d[k][1] <= batches
  <2> SUFFICES ASSUME NEW k \in 1..(n + 1) PROVE d[k][1] <= batches
    OBVIOUS
  <2>1. CASE k = n + 1
    BY <1>4, <1>13, <1>15, <2>1
  <2>2. CASE k # n + 1
    <3>1. k \in 1..n
      BY <1>13, <2>2
    <3> QED
      BY <1>13, <1>14, <3>1
  <2> QED
    BY <2>1, <2>2
<1>18. FillsKept'
  <2>1. ASSUME NEW u \in Writers, writer'[u].cur # 0
        PROVE  /\ BatchOf(u)' <= batches'
               /\ Begun(d, n + 1, Len(pages'), BatchOf(u)', writer'[u].cur)
               /\ \A v \in Writers : v # u /\ writer'[v].cur # 0 => BatchOf(v)' # BatchOf(u)'
    <3>1. BatchOf(u)' = BatchOf(u) /\ writer[u].cur # 0 /\ BatchOf(u)' <= batches'
      BY <1>5, <1>11, <2>1, WriterHolds DEF Holding
    <3>2. ASSUME u = w PROVE Begun(d, n + 1, Len(pages'), BatchOf(u)', writer'[u].cur)
      BY <1>2, <1>4, <1>9, <1>10, <1>11, <1>13, <2>1, <3>2 DEF Begun
    <3>3. ASSUME u # w PROVE Begun(d, n + 1, Len(pages'), BatchOf(u)', writer'[u].cur)
      <4>1. BatchOf(u) # BatchOf(w) /\ \A k \in 1..n : c[k][1] # BatchOf(u)
        BY <1>1, <1>3, <1>4, <1>12, <3>1, <3>3, WritersApart, OthersHaveNotBegun
      <4>2. ASSUME NEW k \in 1..(n + 1) PROVE d[k][1] # BatchOf(u)
        <5>1. CASE k = n + 1
          BY <1>4, <1>13, <4>1, <5>1
        <5>2. CASE k # n + 1
          <6>1. k \in 1..n
            BY <1>13, <5>2
          <6> QED
            BY <1>13, <4>1, <6>1
        <5> QED
          BY <5>1, <5>2
      <4> QED
        BY <3>1, <4>2 DEF Begun
    <3>4. \A v \in Writers : v # u /\ writer'[v].cur # 0 => BatchOf(v)' # BatchOf(u)'
      BY <1>11, <2>1, WritersApart
    <3>5. Begun(d, n + 1, Len(pages'), BatchOf(u)', writer'[u].cur)
      BY <3>2, <3>3
    <3> QED
      BY <3>1, <3>4, <3>5
  <2>2. \A k \in 1..L!Size' : L!Content'[k][1] <= batches'
    BY <1>5, <1>12, <1>13, <1>17
  <2>3. Together(L!Content', L!Size')
    BY <1>12, <1>13, <1>16
  <2>4. \A u \in Writers : writer'[u].cur # 0 =>
          /\ BatchOf(u)' <= batches' /\ Begun(L!Content', L!Size', Len(pages'), BatchOf(u)', writer'[u].cur)
          /\ \A v \in Writers : v # u /\ writer'[v].cur # 0 => BatchOf(v)' # BatchOf(u)'
    BY <1>12, <1>13, <2>1
  <2> QED
    BY <2>2, <2>3, <2>4 DEF FillsKept
<1> QED
  BY <1>10, <1>18 DEF LinkedInv

(* A new page, held by the writer that appends it *)
LEMMA AppendNodeKeeps ==
  ASSUME LinkedInv, NEW w \in Writers, L!AppendNode(w)
  PROVE  LinkedInv' /\ PagesGrow
<1>1. Holding(w) /\ writer[w].cur # 0
  BY WriterHolds DEF L!AppendNode
<1>2. Linked(pages) /\ Len(pages) \in Nat \ {0} /\ L!Size \in Nat
  BY LinkedPages, ContentTypes DEF LinkedInv, LinkedTypes
<1>3. PICK p \in 1..Len(pages), q \in Nat : p = writer[w].cur /\ q = Len(pages) + 1
  BY <1>1, <1>2 DEF Holding
<1>4. /\ pages[p].next = 0 /\ Len(pages[p].entries) = MaxEntries
      /\ pages' = Append([pages EXCEPT ![p].next = q], L!NewNode)
      /\ xlatch' = Append([xlatch EXCEPT ![p] = {}], {w})
      /\ writer' = [writer EXCEPT ![w].cur = q] /\ UNCHANGED <<reader, batches>>
  BY <1>3 DEF L!AppendNode, L!IsFull
<1>5. p = Len(pages)
  <2>1. SUFFICES ASSUME p # Len(pages) PROVE FALSE
    OBVIOUS
  <2>2. pages[p].next = p + 1
    BY <1>2, <2>1 DEF Linked
  <2> QED
    BY <1>2, <1>4, <2>2
<1>6. PICK qg : qg = pages'
  OBVIOUS
<1>7. qg = Appended(pages) /\ Len(pages[Len(pages)].entries) = MaxEntries
  BY <1>3, <1>4, <1>5, <1>6 DEF Appended
<1>8. /\ Linked(qg) /\ Len(qg) = Len(pages) + 1 /\ SizeOf(qg) = SizeOf(pages)
      /\ \A k \in 1..SizeOf(pages) : ElementOf(qg, k) = ElementOf(pages, k)
  BY ONLY <1>2, <1>7, AppendedPages
<1>9. L!Size' = L!Size /\ \A k \in 1..L!Size : L!Content'[k] = L!Content[k]
  BY <1>6, <1>8, ContentIs
<1>10. PagesGrow
  <2>1. Len(pages) <= Len(pages') /\ Len(pages') \in Nat
    BY <1>2, <1>6, <1>8
  <2>2. L!Size <= L!Size' /\ L!Size' \in Nat
    BY <1>2, <1>9
  <2> QED
    BY <1>2, <1>6, <1>8, <1>9, <2>1, <2>2 DEF PagesGrow
<1>11. PICK W : W = [cur |-> q, elems |-> writer[w].elems]
  OBVIOUS
<1>12. W \in LinkedWriter /\ W.cur = q /\ W.elems = writer[w].elems
  BY <1>1, <1>11 DEF LinkedWriter, Holding
<1>13. writer' = [writer EXCEPT ![w] = W]
  <2>1. writer \in [Writers -> LinkedWriter] /\ writer[w] \in LinkedWriter
    BY DEF LinkedInv, LinkedTypes, LinkedWriter
  <2>2. [writer[w] EXCEPT !.cur = q] = W
    BY <1>11, <2>1 DEF LinkedWriter
  <2>3. writer' = [writer EXCEPT ![w] = [writer[w] EXCEPT !.cur = q]]
    BY <1>4, <2>1
  <2> QED
    BY <2>2, <2>3
<1>14. /\ xlatch' \in Seq(SUBSET Writers) /\ Len(xlatch') = Len(pages') /\ xlatch'[q] = {w}
       /\ \A x \in 1..Len(pages) : x # p => xlatch'[x] = xlatch[x]
  <2>1. PICK Y, h : Y = SUBSET Writers /\ h = [xlatch EXCEPT ![p] = {}]
    OBVIOUS
  <2>2. xlatch \in Seq(Y) /\ Len(xlatch) = Len(pages) /\ {} \in Y /\ {w} \in Y
    BY <2>1 DEF LinkedInv, LinkedTypes
  <2>3. h \in Seq(Y) /\ Len(h) = Len(pages) /\ \A x \in 1..Len(pages) : x # p => h[x] = xlatch[x]
    BY <1>3, <2>1, <2>2
  <2>4. PICK a : a = Append(h, {w})
    OBVIOUS
  <2>5. a \in Seq(Y) /\ Len(a) = q /\ a[q] = {w} /\ \A x \in 1..Len(pages) : a[x] = h[x]
    BY <1>2, <1>3, <2>2, <2>3, <2>4
  <2>6. xlatch' = a
    BY <1>4, <2>1, <2>4
  <2> QED
    BY <1>3, <1>6, <1>8, <2>1, <2>3, <2>5, <2>6
<1>15. WriterGets(w, W)
  <2>1. ASSUME NEW v \in Writers, v # w, writer[v].cur # 0 PROVE xlatch'[writer[v].cur] = {v}
    <3>1. writer[v].cur \in 1..Len(pages) /\ xlatch[writer[v].cur] = {v} /\ writer[v].cur # p
      BY <1>1, <1>3, <2>1, WriterHolds, WritersApart DEF Holding
    <3> QED
      BY <1>14, <3>1
  <2>2. W.cur \in 1..Len(pages') /\ xlatch'[W.cur] = {w} /\ Len(W.elems) >= 1
    BY <1>1, <1>2, <1>3, <1>6, <1>8, <1>12, <1>14 DEF Holding
  <2>3. \A i \in 1..Len(W.elems) : W.elems[i][1] = W.elems[1][1]
    BY <1>1, <1>12 DEF Holding, BatchOf
  <2> QED
    BY <1>12, <1>13, <1>14, <2>1, <2>2, <2>3 DEF WriterGets
<1>16. batches' = batches /\ batches \in Nat
  BY <1>4 DEF LinkedInv, LinkedTypes
<1>17. LinkedTypes' /\ WritersHold' /\ ReadersKept' /\ \A v \in Writers : writer'[v] = IF v = w THEN W ELSE writer[v]
  BY <1>4, <1>10, <1>15, <1>16, WriterKeeps
<1>18. \A v \in Writers : BatchOf(v)' = BatchOf(v) /\ (writer'[v].cur # 0 => writer[v].cur # 0)
  BY <1>1, <1>12, <1>17 DEF BatchOf
<1>19. PICK n, c, d : n = L!Size /\ c = L!Content /\ d = L!Content'
  OBVIOUS
<1>20. n \in Nat /\ L!Size' = n /\ \A k \in 1..n : d[k] = c[k]
  BY <1>2, <1>9, <1>19
<1>21. FillsKept'
  <2>1. \A k \in 1..L!Size' : L!Content'[k][1] <= batches'
    BY <1>9, <1>16 DEF LinkedInv, FillsKept
  <2>2. Together(L!Content', L!Size')
    <3>1. Together(c, n)
      BY <1>19 DEF LinkedInv, FillsKept
    <3>2. Together(d, n)
      BY <1>20, <3>1 DEF Together
    <3> QED
      BY <1>19, <1>20, <3>2
  <2>3. ASSUME NEW u \in Writers, writer'[u].cur # 0
        PROVE  /\ BatchOf(u)' <= batches'
               /\ Begun(L!Content', L!Size', Len(pages'), BatchOf(u)', writer'[u].cur)
               /\ \A v \in Writers : v # u /\ writer'[v].cur # 0 => BatchOf(v)' # BatchOf(u)'
    <3>1. BatchOf(u)' = BatchOf(u) /\ writer[u].cur # 0 /\ BatchOf(u)' <= batches'
      BY <1>16, <1>18, <2>3, WriterHolds DEF Holding
    <3>2. ASSUME u = w PROVE Begun(d, n, Len(pages'), BatchOf(u), writer'[u].cur)
      <4>1. Begun(c, n, Len(pages), BatchOf(u), writer[u].cur)
        BY <1>1, <1>19, <3>2 DEF Holding
      <4>2. writer'[u].cur = Len(pages')
        BY <1>3, <1>6, <1>8, <1>12, <1>17, <3>2
      <4>3. n >= 1 => d[n] = c[n]
        BY <1>20
      <4> QED
        BY <1>20, <4>1, <4>2, <4>3 DEF Begun
    <3>3. ASSUME u # w PROVE Begun(d, n, Len(pages'), BatchOf(u), writer'[u].cur)
      <4>1. \A k \in 1..n : c[k][1] # BatchOf(u)
        BY <1>1, <1>3, <1>5, <1>19, <3>1, <3>3, OthersHaveNotBegun
      <4> QED
        BY <1>20, <4>1 DEF Begun
    <3>4. \A v \in Writers : v # u /\ writer'[v].cur # 0 => BatchOf(v)' # BatchOf(u)'
      BY <1>18, <2>3, WritersApart
    <3>5. Begun(d, n, Len(pages'), BatchOf(u), writer'[u].cur)
      BY <3>2, <3>3
    <3>6. Begun(L!Content', L!Size', Len(pages'), BatchOf(u)', writer'[u].cur)
      BY <1>19, <1>20, <3>1, <3>5
    <3> QED
      BY <3>1, <3>4, <3>6
  <2> QED
    BY <2>1, <2>2, <2>3 DEF FillsKept
<1> QED
  BY <1>10, <1>17, <1>21 DEF LinkedInv

(* Every step keeps the invariant and the elements that are there. *)
LEMMA LinkedStep ==
  ASSUME LinkedInv, [L!Next]_linkedVars
  PROVE  LinkedInv' /\ PagesGrow
<1>1. CASE UNCHANGED linkedVars
  <2>1. PagesGrow /\ SamePages
    BY <1>1, SamePagesGrow DEF linkedVars
  <2>2. UNCHANGED <<pages, xlatch, writer, reader, batches>>
    BY <1>1 DEF linkedVars
  <2>3. LinkedTypes' /\ WritersHold'
    BY <2>2 DEF LinkedInv, LinkedTypes, WritersHold, HasPage
  <2>4. FillsKept' /\ ReadersKept'
    BY <2>1, <2>2 DEF LinkedInv, FillsKept, BatchOf, ReadersKept, SamePages
  <2> QED
    BY <2>1, <2>3, <2>4 DEF LinkedInv
<1>2. ASSUME NEW w \in Writers, NEW n \in 1..MaxBatch, L!StartFill(w, n) PROVE LinkedInv' /\ UNCHANGED pages
  BY <1>2, StartFillKeeps DEF L!StartFill
<1>3. ASSUME NEW w \in Writers, L!WalkToTail(w) PROVE LinkedInv' /\ UNCHANGED pages
  BY <1>3, WalkToTailKeeps DEF L!WalkToTail
<1>4. ASSUME NEW w \in Writers, L!PushElement(w) PROVE LinkedInv' /\ PagesGrow
  BY <1>4, LinkedPushKeeps, PushGrows
<1>5. ASSUME NEW w \in Writers, L!AppendNode(w) PROVE LinkedInv' /\ PagesGrow
  BY <1>5, AppendNodeKeeps
<1>6. ASSUME NEW r \in Readers, L!Read(r) PROVE LinkedInv' /\ UNCHANGED pages
  BY <1>6, NextPageKeeps, ApplyElementKeeps, EndRangeKeeps DEF L!Read, L!NextPage, L!ApplyElement, L!EndRange
<1>7. ASSUME NEW r \in Readers, NEW from \in 0..L!Size, NEW end \in 0..L!Size, L!StartRange(r, from, end)
      PROVE  LinkedInv' /\ UNCHANGED pages
  BY <1>7, StartRangeKeeps DEF L!StartRange
<1>8. CASE L!Next
  BY <1>2, <1>3, <1>4, <1>5, <1>6, <1>7, <1>8, SamePagesGrow DEF L!Next, L!Write
<1> QED
  BY <1>1, <1>8

(* The content before is the beginning of the content after. *)
LEMMA GrowsOnly ==
  ASSUME LinkedInv, [L!Next]_linkedVars
  PROVE  L!IsPrefix(L!Content, L!Content')
<1>1. PagesGrow /\ LinkedInv'
  BY LinkedStep
<1>2. PICK c, d, X : c = L!Content /\ d = L!Content' /\ X = LinkedElement
  OBVIOUS
<1>3. c \in Seq(X) /\ Len(c) = L!Size /\ L!Size \in Nat
  BY <1>2, ContentIsSeq DEF LinkedInv, LinkedTypes
<1>4. d \in Seq(X) /\ Len(d) = L!Size' /\ L!Size' \in Nat
  <2>1. Linked(pages')
    BY <1>1 DEF PagesGrow
  <2> QED
    BY <1>2, <2>1, ContentIsSeq
<1>5. Len(c) <= Len(d) /\ \A k \in 1..Len(c) : d[k] = c[k]
  BY <1>1, <1>2, <1>3, <1>4 DEF PagesGrow
<1>6. SubSeq(c, 1, Len(c)) = SubSeq(d, 1, Len(c))
  <2>1. PICK n, x, y : n = Len(c) /\ x = SubSeq(c, 1, n) /\ y = SubSeq(d, 1, n)
    OBVIOUS
  <2>2. n \in Nat /\ n <= Len(d)
    BY <1>3, <1>5, <2>1
  <2>3. x \in Seq(X) /\ Len(x) = n /\ \A k \in 1..n : x[k] = c[k]
    BY ONLY <1>3, <2>1, <2>2
  <2>4. y \in Seq(X) /\ Len(y) = n /\ \A k \in 1..n : y[k] = d[k]
    BY ONLY <1>4, <2>1, <2>2
  <2>5. \A k \in 1..n : x[k] = y[k]
    BY <1>5, <2>1, <2>3, <2>4
  <2>6. x = y
    BY ONLY <2>2, <2>3, <2>4, <2>5
  <2> QED
    BY <2>1, <2>6
<1> QED
  BY <1>2, <1>5, <1>6 DEF L!IsPrefix

(* The same of the list of pages. *)
LEMMA OnlyTheLinkedListMoves == [Next]_vars => [L!Next]_linkedVars
BY DEF Next, Queue, FreeLists, Memory, LinkedList, Ssd, BufferPool, Rest, vars, linkedVars

(* Whatever the number of writers, readers, batches and elements of a      *)
(* page, the pages are one list that only grows at its end, the elements   *)
(* of one fill stay together, and a range is read as it stands and to its  *)
(* end while others append (LinkedList).                                   *)
THEOREM RangesStayExact == Spec => RangesAreExact
<1>1. Init => LinkedInv
  BY LinkedInit DEF Init
<1>2. LinkedInv /\ [Next]_vars => LinkedInv'
  BY OnlyTheLinkedListMoves, LinkedStep
<1>3. LinkedInv => (part = "linkedList" => L!OneList /\ L!BatchesAreContiguous /\ L!RangeIsExact)
  BY LinkedDelivers
<1>4. LinkedInv /\ [Next]_vars => [L!IsPrefix(L!Content, L!Content')]_L!vars
  BY OnlyTheLinkedListMoves, GrowsOnly
<1> QED
  BY <1>1, <1>2, <1>3, <1>4, PTL DEF Spec, RangesAreExact, L!OnlyGrows
=============================================================================
