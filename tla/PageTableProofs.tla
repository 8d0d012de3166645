--------------------------- MODULE PageTableProofs ---------------------------
(***************************************************************************)
(* The properties of PageTable for any number of threads, pages and        *)
(* frames.  The chain is handled without induction: it is the smallest set *)
(* closed under next, so that what a step does to it is shown by giving    *)
(* closed sets.  TableInv is the inductive invariant.                      *)
(***************************************************************************)
EXTENDS PageTable, TLAPS

-----------------------------------------------------------------------------
(* Chains *)

(* From(nxt, f) is closed, has f, and lies in every closed set that has f. *)
LEMMA FromClosed ==
    ASSUME NEW nxt, NEW f
    PROVE  From(nxt, f) \subseteq Frame
BY DEF From

LEMMA FromSmallest ==
    ASSUME NEW nxt, NEW f, NEW S \in SUBSET Frame, Closed(nxt, S),
           f = NoFrame \/ f \in S
    PROVE  From(nxt, f) \subseteq S
BY DEF From

LEMMA FromIsClosed ==
    ASSUME NEW nxt \in [Frame -> Overflow \cup {NoFrame}], NEW f \in Frame \cup {NoFrame}
    PROVE  /\ Closed(nxt, From(nxt, f))
           /\ f # NoFrame => f \in From(nxt, f)
<1>1. f # NoFrame => f \in From(nxt, f)
  BY DEF From
<1>2. ASSUME NEW g \in From(nxt, f), nxt[g] # NoFrame
      PROVE  nxt[g] \in From(nxt, f)
  <2>1. g \in Frame /\ nxt[g] \in Frame
    BY <1>2 DEF From, Frame
  <2>2. ASSUME NEW S \in SUBSET Frame, Closed(nxt, S), {f} \ {NoFrame} \subseteq S
        PROVE  nxt[g] \in S
    BY <2>2, <1>2 DEF From, Closed
  <2> QED
    BY <2>1, <2>2 DEF From
<1> QED
  BY <1>1, <1>2 DEF Closed

(* Nothing is reached from the end of the chain. *)
LEMMA FromEnd ==
    ASSUME NEW nxt PROVE From(nxt, NoFrame) = {}
<1>1. Closed(nxt, {})
  BY DEF Closed
<1> QED
  BY <1>1, FromSmallest

(* A frame, and what is reached from the frame behind it *)
LEMMA FromStep ==
    ASSUME NEW nxt \in [Frame -> Overflow \cup {NoFrame}], NEW f \in Frame
    PROVE  /\ From(nxt, f) \subseteq {f} \cup From(nxt, nxt[f])
           /\ From(nxt, nxt[f]) \subseteq From(nxt, f)
<1> DEFINE S == {f} \cup From(nxt, nxt[f])
<1>0. nxt[f] \in Frame \cup {NoFrame}
  BY DEF Frame
<1>1. Closed(nxt, S) /\ S \in SUBSET Frame
  <2>1. Closed(nxt, From(nxt, nxt[f])) /\ (nxt[f] # NoFrame => nxt[f] \in From(nxt, nxt[f]))
    BY <1>0, FromIsClosed
  <2> QED
    BY <2>1, FromClosed DEF Closed
<1>2. From(nxt, f) \subseteq S
  BY <1>1, FromSmallest
<1>3. From(nxt, nxt[f]) \subseteq From(nxt, f)
  <2>1. Closed(nxt, From(nxt, f)) /\ f \in From(nxt, f)
    BY FromIsClosed, TableAssumption
  <2>2. nxt[f] # NoFrame => nxt[f] \in From(nxt, f)
    BY <2>1 DEF Closed
  <2> QED
    BY <2>1, <2>2, FromSmallest, FromClosed
<1> QED
  BY <1>2, <1>3

(* nxt2 is nxt after frame new was put behind tail *)
Appended(nxt, nxt2, tail, new) ==
    /\ nxt \in [Frame -> Overflow \cup {NoFrame}]
    /\ nxt2 \in [Frame -> Overflow \cup {NoFrame}]
    /\ tail \in Frame /\ nxt[tail] = NoFrame
    /\ new \in Overflow /\ nxt[new] = NoFrame /\ new # tail
    /\ nxt2[tail] = new /\ \A g \in Frame : g # tail => nxt2[g] = nxt[g]

(* A frame put behind the last one is reached from where that one is. *)
LEMMA FromAppend ==
    ASSUME NEW nxt, NEW nxt2, NEW tail, NEW new, Appended(nxt, nxt2, tail, new)
    PROVE  \A f \in Frame \cup {NoFrame} : \A h :
             h \in From(nxt2, f) <=>
               h \in From(nxt, f) \/ (h = new /\ tail \in From(nxt, f))
<1> USE DEF Appended
<1> SUFFICES ASSUME NEW f \in Frame \cup {NoFrame}
             PROVE  \A h : h \in From(nxt2, f) <=>
                        h \in From(nxt, f) \/ (h = new /\ tail \in From(nxt, f))
  OBVIOUS
<1> DEFINE T == From(nxt, f) \cup {g \in {new} : tail \in From(nxt, f)}
<1> new \in Frame
  BY DEF Frame
<1>0. Closed(nxt, From(nxt, f)) /\ (f # NoFrame => f \in From(nxt, f))
  BY FromIsClosed
<1>1. From(nxt2, f) \subseteq T
  <2>1. T \in SUBSET Frame
    BY FromClosed
  <2>2. Closed(nxt2, T)
    BY <1>0, <2>1 DEF Closed
  <2> QED
    BY <1>0, <2>1, <2>2, FromSmallest
<1>2. T \subseteq From(nxt2, f)
  <2> DEFINE S == From(nxt2, f)
  <2>1. Closed(nxt2, S) /\ (f # NoFrame => f \in S) /\ S \in SUBSET Frame
    BY FromIsClosed, FromClosed
  <2>2. Closed(nxt, S)
    BY <2>1, TableAssumption DEF Closed
  <2>3. From(nxt, f) \subseteq S
    BY <2>1, <2>2, FromSmallest
  <2>4. tail \in S => new \in S
    BY <2>1, TableAssumption DEF Closed, Frame
  <2> QED
    BY <2>3, <2>4
<1> QED
  BY <1>1, <1>2

(* next after frame f was taken out of the chain *)
Without(nxt, f) ==
    [g \in Frame |-> IF g = f THEN NoFrame ELSE IF nxt[g] = f THEN nxt[f] ELSE nxt[g]]

(* A frame taken out of the chain is not reached any more, the others are. *)
LEMMA FromUnlink ==
    ASSUME NEW nxt \in [Frame -> Overflow \cup {NoFrame}],
           NEW f \in Frame, nxt[f] # f,
           NEW g \in Frame \cup {NoFrame}, g # f
    PROVE  From(Without(nxt, f), g) = From(nxt, g) \ {f}
<1> DEFINE nxt2 == Without(nxt, f)
           T == From(nxt, g) \ {f}
<1>0. nxt2 \in [Frame -> Overflow \cup {NoFrame}]
  BY DEF Without
<1>1. /\ nxt2[f] = NoFrame
      /\ \A h \in Frame : h # f => nxt2[h] = IF nxt[h] = f THEN nxt[f] ELSE nxt[h]
  BY DEF Without
<1> HIDE DEF nxt2
<1>2. From(nxt2, g) \subseteq T
  <2>1. Closed(nxt, From(nxt, g)) /\ (g # NoFrame => g \in From(nxt, g)) /\ From(nxt, g) \subseteq Frame
    BY FromIsClosed, FromClosed
  <2>2. ASSUME NEW h \in T, nxt2[h] # NoFrame PROVE nxt2[h] \in T
    <3>1. CASE nxt[h] = f
      BY <3>1, <2>1, <2>2, <1>1, TableAssumption DEF Closed
    <3>2. CASE nxt[h] # f
      BY <3>2, <2>1, <2>2, <1>1 DEF Closed
    <3> QED
      BY <3>1, <3>2
  <2>3. Closed(nxt2, T) /\ T \in SUBSET Frame
    BY <2>1, <2>2 DEF Closed
  <2> QED
    BY <2>1, <2>3, FromSmallest
<1>3. T \subseteq From(nxt2, g)
  <2> DEFINE S == From(nxt2, g) \ {f}
             S2 == S \cup {h \in {f} : \E k \in S : nxt[k] = f}
  <2>1. Closed(nxt2, From(nxt2, g)) /\ (g # NoFrame => g \in From(nxt2, g)) /\ From(nxt2, g) \subseteq Frame
    BY <1>0, FromIsClosed, FromClosed
  <2>2. S2 \in SUBSET Frame /\ (g = NoFrame \/ g \in S2)
    BY <2>1
  <2>3. ASSUME NEW h \in S, nxt[h] # NoFrame PROVE nxt[h] \in S2
    <3>1. CASE nxt[h] = f
      BY <3>1
    <3>2. CASE nxt[h] # f
      BY <3>2, <2>1, <2>3, <1>1 DEF Closed
    <3> QED
      BY <3>1, <3>2
  <2>4. ASSUME NEW k \in S, nxt[k] = f, nxt[f] # NoFrame PROVE nxt[f] \in S2
    BY <2>4, <2>1, <1>1 DEF Closed
  <2>5. Closed(nxt, S2)
    BY <2>3, <2>4 DEF Closed
  <2>6. From(nxt, g) \subseteq S2
    BY <2>2, <2>5, FromSmallest
  <2> QED
    BY <2>6
<1> QED
  BY <1>2, <1>3 DEF nxt2

-----------------------------------------------------------------------------
(* The inductive invariant *)

(* The types, and what pointers and pids may be in each place of the code *)
Pointers ==
    /\ next \in [Frame -> Overflow \cup {NoFrame}]
    /\ \A t \in Thread :
        /\ thread[t].pc \notin {"idle", "thrown"} => thread[t].pid \in Pid
        /\ thread[t].pc \in {"idle", "thrown"} => thread[t].pid = NoPid
        /\ thread[t].pc \in {"access", "check", "init", "held", "unlink",
                             "unlatch", "push"} => thread[t].frame \in Frame
        /\ thread[t].pc = "push" => thread[t].frame # Bucket

(* The bucket is latched exactly by who inserts or removes, and then no     *)
(* remembered version is current.                                          *)
BucketLatch ==
    /\ \A t \in Thread : thread[t].pc \in {"insert", "init", "unlink"} <=> htLatch = t
    /\ htLatch # NoThread => current = {}

(* A frame is latched exactly by who has found, inserted or removed it. *)
FrameLatches ==
    \A t \in Thread, f \in Frame :
        latch[f] = t <=>
            /\ thread[t].frame = f
            /\ \/ thread[t].pc \in {"held", "unlink", "unlatch"}
               \/ thread[t].pc = "check" /\ ~thread[t].retry

(* The chain has no cycle, has an end, and is all that is linked. *)
ChainShape ==
    /\ \A f \in Frame : f \notin From(next, next[f])
    /\ \E f \in Chain : next[f] = NoFrame
    /\ \A f \in Frame \ Chain : next[f] = NoFrame /\ pid[f] = NoPid

Returning == {thread[t].frame : t \in {u \in Thread : thread[u].pc \in {"unlatch", "push"}}}

(* Frames on their way to the free list belong to one thread each. *)
ReturnedOnce ==
    /\ freeFrames \cap Returning = {}
    /\ \A t, u \in Thread :
        /\ thread[t].pc \in {"unlatch", "push"} /\ thread[u].pc \in {"unlatch", "push"}
        /\ thread[t].frame = thread[u].frame /\ thread[t].frame # Bucket
        => t = u

(* What a lookup knows while the version of the bucket is the remembered    *)
(* one: its page is in the rest of the chain if it is in the table at all. *)
LookupState ==
    \A t \in Thread : t \in current =>
        /\ thread[t].pc = "walk" =>
            /\ \A g \in Frame : pid[g] = thread[t].pid => g \in From(next, thread[t].frame)
            /\ thread[t].frame \in Chain \cup {NoFrame}
            /\ \/ thread[t].frame = Bucket
               \/ thread[t].tail \in Chain /\ next[thread[t].tail] = thread[t].frame
        /\ thread[t].pc \in {"access", "check"} =>
            thread[t].frame \in Chain /\ pid[thread[t].frame] = thread[t].pid
        /\ thread[t].pc = "upgrade" =>
            /\ ~InTable(thread[t].pid)
            /\ thread[t].tail \in Chain /\ next[thread[t].tail] = NoFrame

(* What an insertion and the holder of a guard know *)
InsertState ==
    \A t \in Thread :
        /\ thread[t].pc \in {"insert", "init"} => ~InTable(thread[t].pid)
        /\ thread[t].pc = "insert" /\ thread[t].op # "new" =>
            thread[t].tail \in Chain /\ next[thread[t].tail] = NoFrame
        /\ thread[t].pc = "init" =>
            thread[t].frame \in Chain /\ pid[thread[t].frame] = NoPid
        /\ thread[t].pc \in {"held", "unlink"} =>
            thread[t].frame \in Chain /\ pid[thread[t].frame] = thread[t].pid
        /\ thread[t].pc = "unlink" => thread[t].pid \in Remote

(* A page that is being created is known to nobody else; pages of this node *)
(* stay in the table once they are there.                                  *)
PagesOfThisNode ==
    \A t \in Thread :
        /\ thread[t].op = "new" /\ thread[t].pc \in {"start", "insert", "init"} =>
            /\ thread[t].pid \in Owned /\ ~InTable(thread[t].pid)
            /\ \A u \in Thread \ {t} : thread[u].pid # thread[t].pid
        /\ thread[t].op = "new" => thread[t].pc \notin {"walk", "access", "check", "upgrade"}
        /\ thread[t].op = "evict" /\ thread[t].pc \notin {"idle", "thrown"} =>
            thread[t].pid \in Owned /\ InTable(thread[t].pid)
        /\ thread[t].op = "evict" => thread[t].pc \notin {"upgrade", "insert", "init"}

TableInv ==
    /\ TypeOK /\ Pointers /\ BucketLatch /\ FrameLatches /\ ChainShape
    /\ FramesAreConserved /\ ReturnedOnce /\ LookupState /\ InsertState
    /\ PagesOfThisNode /\ OneFramePerPid

-----------------------------------------------------------------------------
(* TableInv is inductive *)

LEMMA IdleType == Idle \in ThreadState
BY DEF Idle, ThreadState, PC, OP

LEMMA RestartType ==
    ASSUME TypeOK, NEW t \in Thread
    PROVE  Restart(t) \in [Thread -> ThreadState]
<1>1. [thread[t] EXCEPT !.pc = "start", !.frame = NoFrame, !.tail = NoFrame,
                        !.retry = FALSE] \in ThreadState
  BY DEF TypeOK, ThreadState, PC
<1> QED
  BY <1>1 DEF TypeOK, Restart

LEMMA GotoType ==
    ASSUME TypeOK, NEW t \in Thread, NEW pc \in PC
    PROVE  [thread EXCEPT ![t].pc = pc] \in [Thread -> ThreadState]
BY DEF TypeOK, ThreadState

LEMMA SameChain ==
    ASSUME next' = next
    PROVE  Chain' = Chain /\ \A f : From(next', f) = From(next, f)
BY DEF Chain

(* The three ways of taking a frame *)
TakeBucket(t) ==
    /\ thread[t].pc = "insert" /\ pid[Bucket] = NoPid
    /\ thread' = [thread EXCEPT ![t].pc = "init", ![t].frame = Bucket]
    /\ UNCHANGED <<htLatch, current, next, freeFrames, pid, latch>>

TakeFree(t, f) ==
    LET tail == IF thread[t].op = "new" THEN LastFrame ELSE thread[t].tail IN
    /\ thread[t].pc = "insert" /\ pid[Bucket] # NoPid /\ f \in freeFrames
    /\ next' = [next EXCEPT ![tail] = f]
    /\ freeFrames' = freeFrames \ {f}
    /\ thread' = [thread EXCEPT ![t].pc = "init", ![t].frame = f]
    /\ UNCHANGED <<htLatch, current, pid, latch>>

TakeNothing(t) ==
    /\ thread[t].pc = "insert" /\ pid[Bucket] # NoPid /\ freeFrames = {}
    /\ UnlatchBucket /\ thread' = Restart(t)
    /\ UNCHANGED <<next, freeFrames, pid, latch>>

(* A call changes only its thread; a new pid is one that nobody knows. *)
LEMMA CallStep ==
    ASSUME TableInv, NEW t \in Thread, Call(t)
    PROVE  TableInv'
<1> USE TableAssumption
<1>0. /\ TypeOK /\ Pointers /\ BucketLatch /\ FrameLatches /\ ChainShape
      /\ FramesAreConserved /\ ReturnedOnce /\ LookupState /\ InsertState
      /\ PagesOfThisNode /\ OneFramePerPid
  BY DEF TableInv
<1>c. Chain' = Chain /\ \A f : From(next', f) = From(next, f)
  BY SameChain DEF Call
<1>p. PICK op \in OP, p \in Pid :
        /\ CASE op = "fix" -> p \in Remote \/ InTable(p)
             [] op = "evict" -> p \in Owned /\ InTable(p)
             [] op = "new" -> /\ p \in Owned /\ ~InTable(p)
                              /\ \A u \in Thread : thread[u].pid # p
        /\ thread' = [thread EXCEPT ![t] =
                         [Idle EXCEPT !.pc = "start", !.op = op, !.pid = p]]
  BY DEF Call
<1>1. TypeOK'
  <2>1. [Idle EXCEPT !.pc = "start", !.op = op, !.pid = p] \in ThreadState
    BY DEF Idle, ThreadState, PC
  <2> QED
    BY <1>0, <1>p, <2>1 DEF Call, TypeOK
<1>2. Pointers'
  BY <1>0 DEF Call, TypeOK, Pointers, ThreadState, Frame, Pid, Idle
<1>3. BucketLatch'
  BY <1>0 DEF Call, BucketLatch, Pointers, TypeOK, Idle
<1>4. FrameLatches'
  BY <1>0 DEF Call, FrameLatches, Pointers, TypeOK, ThreadState, Idle
<1>5. ChainShape'
  BY <1>0, <1>c DEF Call, ChainShape, Idle
<1>6. FramesAreConserved'
  BY <1>0, <1>c DEF Call, FramesAreConserved, Pointers, TypeOK, ThreadState,
       Idle
<1>7. ReturnedOnce'
  BY <1>0, <1>c DEF Call, ReturnedOnce, Returning, FramesAreConserved, TypeOK,
       ThreadState, Idle
<1>8. LookupState'
  BY <1>0, <1>c DEF Call, LookupState, InTable, BucketLatch, TypeOK,
       ThreadState, Idle
<1>9. InsertState'
  BY <1>0, <1>c DEF Call, InsertState, InTable, PagesOfThisNode, LookupState,
       TypeOK, ThreadState, Idle
<1>10. PagesOfThisNode'
  <2>0. /\ thread' \in [Thread -> ThreadState] /\ pid' = pid
        /\ thread'[t].pc = "start" /\ thread'[t].op = op /\ thread'[t].pid = p
        /\ \A u \in Thread : u # t => thread'[u] = thread[u]
    BY <1>0, <1>1, <1>p DEF Call, TypeOK, Idle
  <2>1. thread[t].pc = "idle"
    BY DEF Call
  <2>2. CASE op = "fix"
    BY <1>0, <1>p, <2>0, <2>1, <2>2 DEF PagesOfThisNode, InTable
  <2>3. CASE op = "evict"
    BY <1>0, <1>p, <2>0, <2>1, <2>3 DEF PagesOfThisNode, InTable
  <2>4. CASE op = "new"
    BY <1>0, <1>p, <2>0, <2>1, <2>4 DEF PagesOfThisNode, InTable
  <2> QED
    BY <2>2, <2>3, <2>4 DEF OP
<1>11. OneFramePerPid'
  BY <1>0 DEF Call, OneFramePerPid, InTable, Idle
<1> QED
  BY <1>1, <1>2, <1>3, <1>4, <1>5, <1>6, <1>7, <1>8, <1>9, <1>10,
       <1>11 DEF TableInv

(* A lookup starts at the bucket: all of the table is ahead of it. *)
LEMMA StartStep ==
    ASSUME TableInv, NEW t \in Thread, Start(t)
    PROVE  TableInv'
<1> USE TableAssumption
<1>0. /\ TypeOK /\ Pointers /\ BucketLatch /\ FrameLatches /\ ChainShape
      /\ FramesAreConserved /\ ReturnedOnce /\ LookupState /\ InsertState
      /\ PagesOfThisNode /\ OneFramePerPid
  BY DEF TableInv
<1>c. Chain' = Chain /\ \A f : From(next', f) = From(next, f)
  BY SameChain DEF Start
<1>1. TypeOK'
  <2>1. [thread[t] EXCEPT !.pc = "walk", !.frame = Bucket] \in ThreadState
    BY <1>0 DEF TypeOK, ThreadState, PC, Frame
  <2> QED
    BY <1>0, <2>1 DEF Start, TypeOK
<1>2. Pointers'
  BY <1>0 DEF Start, TypeOK, Pointers, ThreadState, Frame, Pid
<1>3. BucketLatch'
  BY <1>0 DEF Start, BucketLatch, Pointers, TypeOK
<1>4. FrameLatches'
  BY <1>0 DEF Start, FrameLatches, Pointers, TypeOK, ThreadState
<1>5. ChainShape'
  BY <1>0, <1>c DEF Start, ChainShape
<1>6. FramesAreConserved'
  BY <1>0, <1>c DEF Start, FramesAreConserved, Pointers, TypeOK, ThreadState
<1>7. ReturnedOnce'
  BY <1>0, <1>c DEF Start, ReturnedOnce, Returning, FramesAreConserved,
       TypeOK, ThreadState
<1>8. LookupState'
  <2>1. \A g \in Frame : pid[g] = thread[t].pid => g \in Chain
    BY <1>0 DEF Start, ChainShape, Pointers
  <2>2. Bucket \in Chain
    BY <1>0, FromIsClosed DEF Chain, Frame, Pointers
  <2>3. /\ thread'[t].pc = "walk" /\ thread'[t].frame = Bucket
        /\ thread'[t].pid = thread[t].pid
        /\ \A u \in Thread : u # t => thread'[u] = thread[u]
        /\ current' = current \cup {t} /\ pid' = pid /\ next' = next
    BY <1>0 DEF Start, TypeOK, ThreadState
  <2>4. From(next', Bucket) = Chain
    BY <1>c DEF Chain
  <2> QED
    BY <1>0, <1>c, <2>1, <2>2, <2>3, <2>4 DEF LookupState, InTable
<1>9. InsertState'
  BY <1>0, <1>c DEF Start, InsertState, InTable, PagesOfThisNode, LookupState,
       TypeOK, ThreadState
<1>10. PagesOfThisNode'
  BY <1>0, <1>c DEF Start, PagesOfThisNode, InTable, LookupState, Pointers,
       TypeOK, ThreadState
<1>11. OneFramePerPid'
  BY <1>0 DEF Start, OneFramePerPid, InTable
<1> QED
  BY <1>1, <1>2, <1>3, <1>4, <1>5, <1>6, <1>7, <1>8, <1>9, <1>10,
       <1>11 DEF TableInv

(* One turn of the walk: what is not in this frame is behind it. *)
LEMMA WalkStep ==
    ASSUME TableInv, NEW t \in Thread, Walk(t)
    PROVE  TableInv'
<1> USE TableAssumption
<1>0. /\ TypeOK /\ Pointers /\ BucketLatch /\ FrameLatches /\ ChainShape
      /\ FramesAreConserved /\ ReturnedOnce /\ LookupState /\ InsertState
      /\ PagesOfThisNode /\ OneFramePerPid
  BY DEF TableInv
<1>c. Chain' = Chain /\ \A f : From(next', f) = From(next, f)
  BY SameChain DEF Walk
<1>1. TypeOK'
  <2>1. "upgrade" \in PC /\ "access" \in PC
    BY DEF PC
  <2>2. thread[t].frame \in Frame =>
          [thread[t] EXCEPT !.frame = next[thread[t].frame], !.tail = thread[t].frame]
            \in ThreadState
    BY <1>0 DEF TypeOK, ThreadState
  <2>3. thread[t].frame \in Frame \cup {NoFrame}
    BY <1>0 DEF TypeOK, ThreadState
  <2> QED
    BY <1>0, <2>1, <2>2, <2>3, RestartType, GotoType DEF Walk, TypeOK
<1>2. Pointers'
  BY <1>0 DEF Walk, TypeOK, Pointers, ThreadState, Frame, Pid, Restart
<1>3. BucketLatch'
  BY <1>0 DEF Walk, BucketLatch, Pointers, TypeOK, Restart
<1>4. FrameLatches'
  BY <1>0 DEF Walk, FrameLatches, Pointers, TypeOK, ThreadState, Restart
<1>5. ChainShape'
  BY <1>0, <1>c DEF Walk, ChainShape, Restart
<1>6. FramesAreConserved'
  BY <1>0, <1>c DEF Walk, FramesAreConserved, Pointers, TypeOK, ThreadState,
       Restart
<1>7. ReturnedOnce'
  BY <1>0, <1>c DEF Walk, ReturnedOnce, Returning, FramesAreConserved, TypeOK,
       ThreadState, Restart
<1>8. LookupState'
  <2> DEFINE f == thread[t].frame
  <2>1. CASE t \notin current
    BY <1>0, <1>c, <2>1 DEF Walk, Restart, LookupState, InTable, TypeOK, ThreadState
  <2>2. CASE t \in current /\ f = NoFrame
    <3>1. ~InTable(thread[t].pid)
      BY <1>0, <2>2, FromEnd DEF Walk, LookupState, InTable
    <3>2. thread[t].tail \in Chain /\ next[thread[t].tail] = NoFrame
      BY <1>0, <2>2 DEF Walk, LookupState, Frame
    <3> QED
      BY <1>0, <1>c, <2>2, <3>1, <3>2 DEF Walk, LookupState, InTable, TypeOK, ThreadState
  <2>3. CASE t \in current /\ f # NoFrame /\ pid[f] = thread[t].pid
    BY <1>0, <1>c, <2>3 DEF Walk, LookupState, InTable, TypeOK, ThreadState
  <2>4. CASE t \in current /\ f # NoFrame /\ pid[f] # thread[t].pid
    <3>1. f \in Chain /\ f \in Frame
      BY <1>0, <2>4 DEF Walk, LookupState, TypeOK, ThreadState
    <3>2. \A g \in Frame : pid[g] = thread[t].pid => g \in From(next, next[f])
      BY <1>0, <2>4, <3>1, FromStep DEF Walk, LookupState, Pointers
    <3>3. next[f] \in Chain \cup {NoFrame}
      BY <1>0, <3>1, FromIsClosed DEF Chain, Closed, Pointers, Frame
    <3> QED
      BY <1>0, <1>c, <2>4, <3>1, <3>2, <3>3
         DEF Walk, LookupState, InTable, TypeOK, ThreadState
  <2> QED
    BY <2>1, <2>2, <2>3, <2>4
<1>9. InsertState'
  BY <1>0, <1>c DEF Walk, InsertState, InTable, PagesOfThisNode, LookupState,
       TypeOK, ThreadState, Restart
<1>10. PagesOfThisNode'
  BY <1>0, <1>c, FromEnd DEF Walk, PagesOfThisNode, InTable, LookupState,
       Pointers, TypeOK, ThreadState, Restart
<1>11. OneFramePerPid'
  BY <1>0 DEF Walk, OneFramePerPid, InTable, Restart
<1> QED
  BY <1>1, <1>2, <1>3, <1>4, <1>5, <1>6, <1>7, <1>8, <1>9, <1>10,
       <1>11 DEF TableInv

(* The frame that was found is latched if it is free. *)
LEMMA AccessStep ==
    ASSUME TableInv, NEW t \in Thread, Access(t)
    PROVE  TableInv'
<1> USE TableAssumption
<1>0. /\ TypeOK /\ Pointers /\ BucketLatch /\ FrameLatches /\ ChainShape
      /\ FramesAreConserved /\ ReturnedOnce /\ LookupState /\ InsertState
      /\ PagesOfThisNode /\ OneFramePerPid
  BY DEF TableInv
<1>c. Chain' = Chain /\ \A f : From(next', f) = From(next, f)
  BY SameChain DEF Access
<1>1. TypeOK'
  <2>0. thread[t] \in ThreadState
    BY <1>0 DEF TypeOK
  <2>1. ASSUME NEW b \in BOOLEAN
        PROVE  [thread[t] EXCEPT !.pc = "check", !.retry = b] \in ThreadState
    BY <2>0 DEF ThreadState, PC
  <2> QED
    BY <1>0, <2>1 DEF Access, TypeOK, Pointers
<1>2. Pointers'
  BY <1>0 DEF Access, TypeOK, Pointers, ThreadState, Frame, Pid
<1>3. BucketLatch'
  BY <1>0 DEF Access, BucketLatch, Pointers, TypeOK
<1>4. FrameLatches'
  BY <1>0 DEF Access, FrameLatches, Pointers, TypeOK, ThreadState
<1>5. ChainShape'
  BY <1>0, <1>c DEF Access, ChainShape
<1>6. FramesAreConserved'
  BY <1>0, <1>c DEF Access, FramesAreConserved, Pointers, TypeOK, ThreadState
<1>7. ReturnedOnce'
  BY <1>0, <1>c DEF Access, ReturnedOnce, Returning, FramesAreConserved,
       TypeOK, ThreadState
<1>8. LookupState'
  BY <1>0, <1>c DEF Access, LookupState, InTable, BucketLatch, TypeOK,
       ThreadState
<1>9. InsertState'
  BY <1>0, <1>c DEF Access, InsertState, InTable, PagesOfThisNode,
       LookupState, TypeOK, ThreadState
<1>10. PagesOfThisNode'
  BY <1>0, <1>c DEF Access, PagesOfThisNode, InTable, LookupState, Pointers,
       TypeOK, ThreadState
<1>11. OneFramePerPid'
  BY <1>0 DEF Access, OneFramePerPid, InTable
<1> QED
  BY <1>1, <1>2, <1>3, <1>4, <1>5, <1>6, <1>7, <1>8, <1>9, <1>10,
       <1>11 DEF TableInv

(* The latched frame is kept only if the version is still current. *)
LEMMA CheckStep ==
    ASSUME TableInv, NEW t \in Thread, Check(t)
    PROVE  TableInv'
<1> USE TableAssumption
<1>0. /\ TypeOK /\ Pointers /\ BucketLatch /\ FrameLatches /\ ChainShape
      /\ FramesAreConserved /\ ReturnedOnce /\ LookupState /\ InsertState
      /\ PagesOfThisNode /\ OneFramePerPid
  BY DEF TableInv
<1>c. Chain' = Chain /\ \A f : From(next', f) = From(next, f)
  BY SameChain DEF Check
<1>1. TypeOK'
  <2>1. "held" \in PC /\ [Idle EXCEPT !.pc = "thrown"] \in ThreadState
    BY DEF PC, ThreadState, Idle, OP
  <2> QED
    BY <1>0, <2>1, RestartType, GotoType, IdleType DEF Check, TypeOK, Pointers
<1>2. Pointers'
  BY <1>0 DEF Check, TypeOK, Pointers, ThreadState, Frame, Pid, Idle, Restart
<1>3. BucketLatch'
  BY <1>0 DEF Check, BucketLatch, Pointers, TypeOK, Idle, Restart
<1>4. FrameLatches'
  BY <1>0 DEF Check, FrameLatches, Pointers, TypeOK, ThreadState, Idle,
       Restart
<1>5. ChainShape'
  BY <1>0, <1>c DEF Check, ChainShape, Idle, Restart
<1>6. FramesAreConserved'
  BY <1>0, <1>c DEF Check, FramesAreConserved, Pointers, TypeOK, ThreadState,
       Idle, Restart
<1>7. ReturnedOnce'
  BY <1>0, <1>c DEF Check, ReturnedOnce, Returning, FramesAreConserved,
       TypeOK, ThreadState, Idle, Restart
<1>8. LookupState'
  BY <1>0, <1>c DEF Check, LookupState, InTable, BucketLatch, TypeOK,
       ThreadState, Idle, Restart
<1>9. InsertState'
  BY <1>0, <1>c DEF Check, InsertState, InTable, PagesOfThisNode, LookupState,
       TypeOK, ThreadState, Idle, Restart
<1>10. PagesOfThisNode'
  BY <1>0, <1>c DEF Check, PagesOfThisNode, InTable, LookupState, Pointers,
       TypeOK, ThreadState, Idle, Restart
<1>11. OneFramePerPid'
  BY <1>0 DEF Check, OneFramePerPid, InTable, Idle, Restart
<1> QED
  BY <1>1, <1>2, <1>3, <1>4, <1>5, <1>6, <1>7, <1>8, <1>9, <1>10,
       <1>11 DEF TableInv

(* The bucket is latched if nothing has changed since the walk. *)
LEMMA UpgradeStep ==
    ASSUME TableInv, NEW t \in Thread, Upgrade(t)
    PROVE  TableInv'
<1> USE TableAssumption
<1>0. /\ TypeOK /\ Pointers /\ BucketLatch /\ FrameLatches /\ ChainShape
      /\ FramesAreConserved /\ ReturnedOnce /\ LookupState /\ InsertState
      /\ PagesOfThisNode /\ OneFramePerPid
  BY DEF TableInv
<1>c. Chain' = Chain /\ \A f : From(next', f) = From(next, f)
  BY SameChain DEF Upgrade
<1>1. TypeOK'
  BY <1>0 DEF Upgrade, TypeOK, Pointers, PC, OP, Pid, Restart, Goto,
       LatchBucket, ThreadState
<1>2. Pointers'
  BY <1>0 DEF Upgrade, TypeOK, Pointers, ThreadState, Frame, Pid, Restart,
       Goto, LatchBucket
<1>3. BucketLatch'
  <2>1. CASE t \in current
    BY <1>0, <2>1 DEF Upgrade, BucketLatch, TypeOK, ThreadState, LatchBucket, Goto
  <2>2. CASE t \notin current
    BY <1>0, <2>2 DEF Upgrade, BucketLatch, TypeOK, ThreadState, Restart
  <2> QED
    BY <2>1, <2>2
<1>4. FrameLatches'
  BY <1>0 DEF Upgrade, FrameLatches, Pointers, TypeOK, ThreadState, Restart,
       Goto, LatchBucket
<1>5. ChainShape'
  BY <1>0, <1>c DEF Upgrade, ChainShape, Restart, Goto, LatchBucket
<1>6. FramesAreConserved'
  BY <1>0, <1>c DEF Upgrade, FramesAreConserved, Pointers, TypeOK,
       ThreadState, Restart, Goto, LatchBucket
<1>7. ReturnedOnce'
  BY <1>0, <1>c DEF Upgrade, ReturnedOnce, Returning, FramesAreConserved,
       TypeOK, ThreadState, Restart, Goto, LatchBucket
<1>8. LookupState'
  BY <1>0, <1>c DEF Upgrade, LookupState, InTable, BucketLatch, TypeOK,
       ThreadState, Restart, Goto, LatchBucket
<1>9. InsertState'
  BY <1>0, <1>c DEF Upgrade, InsertState, InTable, PagesOfThisNode,
       LookupState, TypeOK, ThreadState, Restart, Goto, LatchBucket
<1>10. PagesOfThisNode'
  BY <1>0, <1>c DEF Upgrade, PagesOfThisNode, InTable, LookupState, Pointers,
       TypeOK, ThreadState, Restart, Goto, LatchBucket
<1>11. OneFramePerPid'
  BY <1>0 DEF Upgrade, OneFramePerPid, InTable, Restart, Goto, LatchBucket
<1> QED
  BY <1>1, <1>2, <1>3, <1>4, <1>5, <1>6, <1>7, <1>8, <1>9, <1>10,
       <1>11 DEF TableInv

(* newPage latches the bucket without a lookup. *)
LEMMA InsertFrameStep ==
    ASSUME TableInv, NEW t \in Thread, InsertFrame(t)
    PROVE  TableInv'
<1> USE TableAssumption
<1>0. /\ TypeOK /\ Pointers /\ BucketLatch /\ FrameLatches /\ ChainShape
      /\ FramesAreConserved /\ ReturnedOnce /\ LookupState /\ InsertState
      /\ PagesOfThisNode /\ OneFramePerPid
  BY DEF TableInv
<1>c. Chain' = Chain /\ \A f : From(next', f) = From(next, f)
  BY SameChain DEF InsertFrame
<1>1. TypeOK'
  BY <1>0 DEF InsertFrame, TypeOK, Pointers, PC, OP, Pid, Goto, LatchBucket,
       ThreadState
<1>2. Pointers'
  BY <1>0 DEF InsertFrame, TypeOK, Pointers, ThreadState, Frame, Pid, Goto,
       LatchBucket
<1>3. BucketLatch'
  BY <1>0 DEF InsertFrame, BucketLatch, Pointers, TypeOK, Goto, LatchBucket
<1>4. FrameLatches'
  BY <1>0 DEF InsertFrame, FrameLatches, Pointers, TypeOK, ThreadState, Goto,
       LatchBucket
<1>5. ChainShape'
  BY <1>0, <1>c DEF InsertFrame, ChainShape, Goto, LatchBucket
<1>6. FramesAreConserved'
  BY <1>0, <1>c DEF InsertFrame, FramesAreConserved, Pointers, TypeOK,
       ThreadState, Goto, LatchBucket
<1>7. ReturnedOnce'
  BY <1>0, <1>c DEF InsertFrame, ReturnedOnce, Returning, FramesAreConserved,
       TypeOK, ThreadState, Goto, LatchBucket
<1>8. LookupState'
  BY <1>0, <1>c DEF InsertFrame, LookupState, InTable, BucketLatch, TypeOK,
       ThreadState, Goto, LatchBucket
<1>9. InsertState'
  BY <1>0, <1>c DEF InsertFrame, InsertState, InTable, PagesOfThisNode,
       LookupState, TypeOK, ThreadState, Goto, LatchBucket
<1>10. PagesOfThisNode'
  BY <1>0, <1>c DEF InsertFrame, PagesOfThisNode, InTable, LookupState,
       Pointers, TypeOK, ThreadState, Goto, LatchBucket
<1>11. OneFramePerPid'
  BY <1>0 DEF InsertFrame, OneFramePerPid, InTable, Goto, LatchBucket
<1> QED
  BY <1>1, <1>2, <1>3, <1>4, <1>5, <1>6, <1>7, <1>8, <1>9, <1>10,
       <1>11 DEF TableInv

(* The bucket's own frame is taken: the chain stays as it is. *)
LEMMA TakeBucketStep ==
    ASSUME TableInv, NEW t \in Thread, TakeBucket(t)
    PROVE  TableInv'
<1> USE TableAssumption
<1>0. /\ TypeOK /\ Pointers /\ BucketLatch /\ FrameLatches /\ ChainShape
      /\ FramesAreConserved /\ ReturnedOnce /\ LookupState /\ InsertState
      /\ PagesOfThisNode /\ OneFramePerPid
  BY DEF TableInv
<1>c. Chain' = Chain /\ \A f : From(next', f) = From(next, f)
  BY SameChain DEF TakeBucket
<1>1. TypeOK'
  <2>1. [thread[t] EXCEPT !.pc = "init", !.frame = Bucket] \in ThreadState
    BY <1>0 DEF TypeOK, ThreadState, PC, Frame
  <2> QED
    BY <1>0, <2>1 DEF TakeBucket, TypeOK
<1>2. Pointers'
  BY <1>0 DEF TakeBucket, TypeOK, Pointers, ThreadState, Frame, Pid
<1>3. BucketLatch'
  BY <1>0 DEF TakeBucket, BucketLatch, Pointers, TypeOK
<1>4. FrameLatches'
  BY <1>0 DEF TakeBucket, FrameLatches, Pointers, TypeOK, ThreadState
<1>5. ChainShape'
  BY <1>0, <1>c DEF TakeBucket, ChainShape
<1>6. FramesAreConserved'
  BY <1>0, <1>c DEF TakeBucket, FramesAreConserved, Pointers, TypeOK,
       ThreadState
<1>7. ReturnedOnce'
  BY <1>0, <1>c DEF TakeBucket, ReturnedOnce, Returning, FramesAreConserved,
       TypeOK, ThreadState
<1>8. LookupState'
  BY <1>0, <1>c DEF TakeBucket, LookupState, InTable, BucketLatch, TypeOK,
       ThreadState
<1>9. InsertState'
  <2>1. Bucket \in Chain
    BY <1>0, FromIsClosed DEF Chain, Frame, Pointers
  <2> QED
    BY <1>0, <1>c, <2>1 DEF TakeBucket, InsertState, InTable, TypeOK, ThreadState
<1>10. PagesOfThisNode'
  BY <1>0, <1>c DEF TakeBucket, PagesOfThisNode, InTable, LookupState,
       Pointers, TypeOK, ThreadState
<1>11. OneFramePerPid'
  BY <1>0 DEF TakeBucket, OneFramePerPid, InTable
<1> QED
  BY <1>1, <1>2, <1>3, <1>4, <1>5, <1>6, <1>7, <1>8, <1>9, <1>10,
       <1>11 DEF TableInv

(* A frame of the free list is put behind the last one of the chain. *)
LEMMA TakeFreeStep ==
    ASSUME TableInv, NEW t \in Thread, NEW f, TakeFree(t, f)
    PROVE  TableInv'
<1> USE TableAssumption
<1>0. /\ TypeOK /\ Pointers /\ BucketLatch /\ FrameLatches /\ ChainShape
      /\ FramesAreConserved /\ ReturnedOnce /\ LookupState /\ InsertState
      /\ PagesOfThisNode /\ OneFramePerPid
  BY DEF TableInv
<1> DEFINE tail == IF thread[t].op = "new" THEN LastFrame ELSE thread[t].tail
<1>a. /\ tail \in Chain /\ tail \in Frame /\ next[tail] = NoFrame
      /\ f \in Frame /\ f \in Overflow /\ f \notin Chain
      /\ next[f] = NoFrame /\ pid[f] = NoPid /\ f # tail
  <2>1. tail \in Chain /\ next[tail] = NoFrame
    BY <1>0 DEF TakeFree, ChainShape, InsertState, LastFrame
  <2>2. tail \in Frame
    BY <2>1, FromClosed DEF Chain
  <2>3. f \in Overflow /\ f \notin Chain
    BY <1>0 DEF TakeFree, FramesAreConserved
  <2> QED
    BY <1>0, <2>1, <2>2, <2>3 DEF ChainShape, Frame
<1>b. /\ next' = [next EXCEPT ![tail] = f] /\ pid' = pid
      /\ next' \in [Frame -> Overflow \cup {NoFrame}]
      /\ next'[tail] = f /\ \A g \in Frame : g # tail => next'[g] = next[g]
  BY <1>0, <1>a DEF TakeFree, Pointers
<1> HIDE DEF tail
<1>c. \A g \in Frame \cup {NoFrame} : \A h :
        h \in From(next', g) <=> h \in From(next, g) \/ (h = f /\ tail \in From(next, g))
  <2>1. Appended(next, next', tail, f)
    BY <1>0, <1>a, <1>b DEF Pointers, Appended
  <2> QED
    BY <2>1, FromAppend
<1>d. Chain' = Chain \cup {f}
  BY <1>a, <1>c DEF Chain, Frame
<1>e. /\ current = {} /\ current' = {} /\ htLatch = t
      /\ \A u \in Thread : u # t => thread[u].pc \notin {"insert", "init", "unlink"}
  BY <1>0 DEF TakeFree, BucketLatch
<1>h. /\ thread' \in [Thread -> ThreadState] /\ thread'[t].pc = "init"
      /\ thread'[t].pid = thread[t].pid /\ thread'[t].op = thread[t].op
      /\ thread'[t].frame = f /\ \A u \in Thread : u # t => thread'[u] = thread[u]
  <2>0. thread[t] \in ThreadState
    BY <1>0 DEF TypeOK
  <2>1. [thread[t] EXCEPT !.pc = "init", !.frame = f] \in ThreadState
    BY <1>a, <2>0 DEF ThreadState, PC
  <2> QED
    BY <1>0, <2>1 DEF TakeFree, TypeOK, ThreadState
<1>1. TypeOK'
  BY <1>0, <1>b, <1>h DEF TakeFree, TypeOK, Frame
<1>2. Pointers'
  BY <1>0, <1>a, <1>b, <1>h DEF TakeFree, Pointers
<1>3. BucketLatch'
  BY <1>0, <1>e, <1>h DEF TakeFree, BucketLatch
<1>4. FrameLatches'
  BY <1>0, <1>h DEF TakeFree, FrameLatches
<1>5. ChainShape'
  <2>1. From(next, NoFrame) = {} /\ From(next, f) \subseteq {f}
    BY <1>0, <1>a, FromEnd, FromStep DEF Pointers
  <2>2. ASSUME NEW g \in Frame PROVE g \notin From(next', next'[g])
    <3>1. CASE g = tail
      BY <1>a, <1>b, <1>c, <2>1, <3>1
    <3>2. CASE g # tail
      <4>1. next'[g] = next[g] /\ next[g] \in Frame \cup {NoFrame}
        BY <1>0, <1>b, <3>2 DEF Pointers, Frame
      <4>2. g \notin From(next, next[g])
        BY <1>0 DEF ChainShape
      <4>3. g = f => From(next, next[g]) = {}
        BY <1>a, <2>1
      <4> QED
        BY <1>c, <4>1, <4>2, <4>3
    <3> QED
      BY <3>1, <3>2
  <2>3. f \in Chain' /\ next'[f] = NoFrame
    BY <1>a, <1>b, <1>d
  <2> QED
    BY <1>0, <1>a, <1>b, <1>d, <2>2, <2>3 DEF ChainShape
<1>6. FramesAreConserved'
  BY <1>0, <1>a, <1>d, <1>h DEF TakeFree, FramesAreConserved, ReturnedOnce, Returning
<1>7. ReturnedOnce'
  BY <1>0, <1>h DEF TakeFree, ReturnedOnce, Returning
<1>8. LookupState'
  BY <1>e DEF LookupState
<1>9. InsertState'
  BY <1>0, <1>a, <1>b, <1>d, <1>e, <1>h DEF TakeFree, InsertState, InTable
<1>10. PagesOfThisNode'
  BY <1>0, <1>b, <1>h DEF TakeFree, PagesOfThisNode, InTable
<1>11. OneFramePerPid'
  BY <1>0, <1>b DEF OneFramePerPid
<1> QED
  BY <1>1, <1>2, <1>3, <1>4, <1>5, <1>6, <1>7, <1>8, <1>9, <1>10,
       <1>11 DEF TableInv

(* Without a free frame the bucket is unlatched again. *)
LEMMA TakeNothingStep ==
    ASSUME TableInv, NEW t \in Thread, TakeNothing(t)
    PROVE  TableInv'
<1> USE TableAssumption
<1>0. /\ TypeOK /\ Pointers /\ BucketLatch /\ FrameLatches /\ ChainShape
      /\ FramesAreConserved /\ ReturnedOnce /\ LookupState /\ InsertState
      /\ PagesOfThisNode /\ OneFramePerPid
  BY DEF TableInv
<1>c. Chain' = Chain /\ \A f : From(next', f) = From(next, f)
  BY SameChain DEF TakeNothing
<1>1. TypeOK'
  BY <1>0, RestartType DEF TakeNothing, TypeOK, UnlatchBucket
<1>2. Pointers'
  BY <1>0 DEF TakeNothing, TypeOK, Pointers, ThreadState, Frame, Pid,
       UnlatchBucket, Restart
<1>3. BucketLatch'
  BY <1>0 DEF TakeNothing, BucketLatch, Pointers, TypeOK, UnlatchBucket,
       Restart
<1>4. FrameLatches'
  BY <1>0 DEF TakeNothing, FrameLatches, Pointers, TypeOK, ThreadState,
       UnlatchBucket, Restart
<1>5. ChainShape'
  BY <1>0, <1>c DEF TakeNothing, ChainShape, UnlatchBucket, Restart
<1>6. FramesAreConserved'
  BY <1>0, <1>c DEF TakeNothing, FramesAreConserved, Pointers, TypeOK,
       ThreadState, UnlatchBucket, Restart
<1>7. ReturnedOnce'
  BY <1>0, <1>c DEF TakeNothing, ReturnedOnce, Returning, FramesAreConserved,
       TypeOK, ThreadState, UnlatchBucket, Restart
<1>8. LookupState'
  BY <1>0, <1>c DEF TakeNothing, LookupState, InTable, BucketLatch, TypeOK,
       ThreadState, UnlatchBucket, Restart
<1>9. InsertState'
  BY <1>0, <1>c DEF TakeNothing, InsertState, InTable, PagesOfThisNode,
       LookupState, TypeOK, ThreadState, UnlatchBucket, Restart
<1>10. PagesOfThisNode'
  BY <1>0, <1>c DEF TakeNothing, PagesOfThisNode, InTable, LookupState,
       Pointers, TypeOK, ThreadState, UnlatchBucket, Restart
<1>11. OneFramePerPid'
  BY <1>0 DEF TakeNothing, OneFramePerPid, InTable, UnlatchBucket, Restart
<1> QED
  BY <1>1, <1>2, <1>3, <1>4, <1>5, <1>6, <1>7, <1>8, <1>9, <1>10,
       <1>11 DEF TableInv

LEMMA TakeFrameStep ==
    ASSUME TableInv, NEW t \in Thread, TakeFrame(t)
    PROVE  TableInv'
<1>1. TakeBucket(t) \/ (\E f \in freeFrames : TakeFree(t, f)) \/ TakeNothing(t)
  BY DEF TakeFrame, TakeBucket, TakeFree, TakeNothing
<1> QED
  BY <1>1, TakeBucketStep, TakeFreeStep, TakeNothingStep

(* The new frame gets its pid. *)
LEMMA InitFrameStep ==
    ASSUME TableInv, NEW t \in Thread, InitFrame(t)
    PROVE  TableInv'
<1> USE TableAssumption
<1>0. /\ TypeOK /\ Pointers /\ BucketLatch /\ FrameLatches /\ ChainShape
      /\ FramesAreConserved /\ ReturnedOnce /\ LookupState /\ InsertState
      /\ PagesOfThisNode /\ OneFramePerPid
  BY DEF TableInv
<1>c. Chain' = Chain /\ \A f : From(next', f) = From(next, f)
  BY SameChain DEF InitFrame
<1> DEFINE f == thread[t].frame
<1>f. /\ f \in Frame /\ f \in Chain /\ pid[f] = NoPid
      /\ thread[t].pid \in Pid /\ thread[t].pid # NoPid
      /\ \A g \in Frame : pid[g] # thread[t].pid
      /\ \A u \in Thread : u # t => thread[u].pc \notin {"insert", "init", "unlink"}
  BY <1>0 DEF InitFrame, Pointers, InsertState, InTable, BucketLatch
<1>g. /\ pid' \in [Frame -> Pid \cup {NoPid}] /\ pid'[f] = thread[t].pid
      /\ \A g \in Frame : g # f => pid'[g] = pid[g]
      /\ thread' \in [Thread -> ThreadState]
      /\ thread'[t].pc = "held" /\ thread'[t].pid = thread[t].pid
      /\ thread'[t].op = thread[t].op /\ thread'[t].frame = f
      /\ \A u \in Thread : u # t => thread'[u] = thread[u]
      /\ next' = next
  BY <1>0, <1>f DEF InitFrame, TypeOK, ThreadState, Goto, PC
<1>t. \A p \in Pid : InTable(p)' <=> InTable(p) \/ p = thread[t].pid
  BY <1>f, <1>g DEF InTable
<1>1. TypeOK'
  BY <1>0 DEF InitFrame, TypeOK, Pointers, PC, OP, Pid, Goto, UnlatchBucket,
       ThreadState
<1>2. Pointers'
  BY <1>0 DEF InitFrame, TypeOK, Pointers, ThreadState, Frame, Pid, Goto,
       UnlatchBucket
<1>3. BucketLatch'
  BY <1>0 DEF InitFrame, BucketLatch, Pointers, TypeOK, Goto, UnlatchBucket
<1>4. FrameLatches'
  BY <1>0 DEF InitFrame, FrameLatches, Pointers, TypeOK, ThreadState, Goto,
       UnlatchBucket
<1>5. ChainShape'
  BY <1>0, <1>c, <1>f, <1>g DEF ChainShape
<1>6. FramesAreConserved'
  BY <1>0, <1>c DEF InitFrame, FramesAreConserved, Pointers, TypeOK,
       ThreadState, Goto, UnlatchBucket
<1>7. ReturnedOnce'
  BY <1>0, <1>c DEF InitFrame, ReturnedOnce, Returning, FramesAreConserved,
       TypeOK, ThreadState, Goto, UnlatchBucket
<1>8. LookupState'
  BY <1>0, <1>c DEF InitFrame, LookupState, InTable, BucketLatch, TypeOK,
       ThreadState, Goto, UnlatchBucket
<1>9. InsertState'
  <2>1. ASSUME NEW u \in Thread, u # t, thread[u].pc \in {"held", "unlink"}
        PROVE  thread[u].frame \in Chain /\ pid'[thread[u].frame] = thread[u].pid
    BY <1>0, <1>f, <1>g, <2>1 DEF InsertState, Pointers
  <2> QED
    BY <1>0, <1>c, <1>f, <1>g, <2>1 DEF InsertState
<1>10. PagesOfThisNode'
  <2> SUFFICES ASSUME NEW u \in Thread
               PROVE  /\ thread'[u].op = "new" /\ thread'[u].pc \in {"start", "insert", "init"} =>
                          /\ thread'[u].pid \in Owned /\ ~InTable(thread[u].pid)'
                          /\ \A v \in Thread \ {u} : thread'[v].pid # thread'[u].pid
                      /\ thread'[u].op = "new" =>
                            thread'[u].pc \notin {"walk", "access", "check", "upgrade"}
                      /\ thread'[u].op = "evict" /\ thread'[u].pc \notin {"idle", "thrown"} =>
                            thread'[u].pid \in Owned /\ InTable(thread[u].pid)'
                      /\ thread'[u].op = "evict" =>
                            thread'[u].pc \notin {"upgrade", "insert", "init"}
    BY <1>0, <1>g DEF PagesOfThisNode, InTable
  <2> QED
    BY <1>0, <1>f, <1>g, <1>t DEF PagesOfThisNode, InTable, Pointers, InitFrame
<1>11. OneFramePerPid'
  BY <1>0, <1>f, <1>g DEF OneFramePerPid
<1> QED
  BY <1>1, <1>2, <1>3, <1>4, <1>5, <1>6, <1>7, <1>8, <1>9, <1>10,
       <1>11 DEF TableInv

(* A guard is given up. *)
LEMMA ReleaseStep ==
    ASSUME TableInv, NEW t \in Thread, Release(t)
    PROVE  TableInv'
<1> USE TableAssumption
<1>0. /\ TypeOK /\ Pointers /\ BucketLatch /\ FrameLatches /\ ChainShape
      /\ FramesAreConserved /\ ReturnedOnce /\ LookupState /\ InsertState
      /\ PagesOfThisNode /\ OneFramePerPid
  BY DEF TableInv
<1>c. Chain' = Chain /\ \A f : From(next', f) = From(next, f)
  BY SameChain DEF Release
<1>1. TypeOK'
  BY <1>0 DEF Release, TypeOK, Pointers, PC, OP, Pid, Idle, ThreadState
<1>2. Pointers'
  BY <1>0 DEF Release, TypeOK, Pointers, ThreadState, Frame, Pid, Idle
<1>3. BucketLatch'
  BY <1>0 DEF Release, BucketLatch, Pointers, TypeOK, Idle
<1>4. FrameLatches'
  BY <1>0 DEF Release, FrameLatches, Pointers, TypeOK, ThreadState, Idle
<1>5. ChainShape'
  BY <1>0, <1>c DEF Release, ChainShape, Idle
<1>6. FramesAreConserved'
  BY <1>0, <1>c DEF Release, FramesAreConserved, Pointers, TypeOK,
       ThreadState, Idle
<1>7. ReturnedOnce'
  BY <1>0, <1>c DEF Release, ReturnedOnce, Returning, FramesAreConserved,
       TypeOK, ThreadState, Idle
<1>8. LookupState'
  BY <1>0, <1>c DEF Release, LookupState, InTable, BucketLatch, TypeOK,
       ThreadState, Idle
<1>9. InsertState'
  BY <1>0, <1>c DEF Release, InsertState, InTable, PagesOfThisNode,
       LookupState, TypeOK, ThreadState, Idle
<1>10. PagesOfThisNode'
  BY <1>0, <1>c DEF Release, PagesOfThisNode, InTable, LookupState, Pointers,
       TypeOK, ThreadState, Idle
<1>11. OneFramePerPid'
  BY <1>0 DEF Release, OneFramePerPid, InTable, Idle
<1> QED
  BY <1>1, <1>2, <1>3, <1>4, <1>5, <1>6, <1>7, <1>8, <1>9, <1>10,
       <1>11 DEF TableInv

(* A removal latches the bucket. *)
LEMMA RemoveFrameStep ==
    ASSUME TableInv, NEW t \in Thread, RemoveFrame(t)
    PROVE  TableInv'
<1> USE TableAssumption
<1>0. /\ TypeOK /\ Pointers /\ BucketLatch /\ FrameLatches /\ ChainShape
      /\ FramesAreConserved /\ ReturnedOnce /\ LookupState /\ InsertState
      /\ PagesOfThisNode /\ OneFramePerPid
  BY DEF TableInv
<1>c. Chain' = Chain /\ \A f : From(next', f) = From(next, f)
  BY SameChain DEF RemoveFrame
<1>1. TypeOK'
  BY <1>0 DEF RemoveFrame, TypeOK, Pointers, PC, OP, Pid, Goto, LatchBucket,
       ThreadState
<1>2. Pointers'
  BY <1>0 DEF RemoveFrame, TypeOK, Pointers, ThreadState, Frame, Pid, Goto,
       LatchBucket
<1>3. BucketLatch'
  BY <1>0 DEF RemoveFrame, BucketLatch, Pointers, TypeOK, Goto, LatchBucket
<1>4. FrameLatches'
  BY <1>0 DEF RemoveFrame, FrameLatches, Pointers, TypeOK, ThreadState, Goto,
       LatchBucket
<1>5. ChainShape'
  BY <1>0, <1>c DEF RemoveFrame, ChainShape, Goto, LatchBucket
<1>6. FramesAreConserved'
  BY <1>0, <1>c DEF RemoveFrame, FramesAreConserved, Pointers, TypeOK,
       ThreadState, Goto, LatchBucket
<1>7. ReturnedOnce'
  BY <1>0, <1>c DEF RemoveFrame, ReturnedOnce, Returning, FramesAreConserved,
       TypeOK, ThreadState, Goto, LatchBucket
<1>8. LookupState'
  BY <1>0, <1>c DEF RemoveFrame, LookupState, InTable, BucketLatch, TypeOK,
       ThreadState, Goto, LatchBucket
<1>9. InsertState'
  BY <1>0, <1>c DEF RemoveFrame, InsertState, InTable, PagesOfThisNode,
       LookupState, TypeOK, ThreadState, Goto, LatchBucket
<1>10. PagesOfThisNode'
  BY <1>0, <1>c DEF RemoveFrame, PagesOfThisNode, InTable, LookupState,
       Pointers, TypeOK, ThreadState, Goto, LatchBucket
<1>11. OneFramePerPid'
  BY <1>0 DEF RemoveFrame, OneFramePerPid, InTable, Goto, LatchBucket
<1> QED
  BY <1>1, <1>2, <1>3, <1>4, <1>5, <1>6, <1>7, <1>8, <1>9, <1>10,
       <1>11 DEF TableInv

(* The frame is taken out of the chain and reset. *)
LEMMA UnlinkStep ==
    ASSUME TableInv, NEW t \in Thread, Unlink(t)
    PROVE  TableInv'
<1> USE TableAssumption
<1>0. /\ TypeOK /\ Pointers /\ BucketLatch /\ FrameLatches /\ ChainShape
      /\ FramesAreConserved /\ ReturnedOnce /\ LookupState /\ InsertState
      /\ PagesOfThisNode /\ OneFramePerPid
  BY DEF TableInv
<1> DEFINE f == thread[t].frame
<1>a. /\ f \in Frame /\ f \in Chain /\ pid[f] = thread[t].pid
      /\ thread[t].pid \in Remote /\ current = {} /\ current' = {}
      /\ latch[f] = t /\ thread[t].pc = "unlink"
      /\ \A u \in Thread : u # t => thread[u].pc \notin {"insert", "init", "unlink"}
      /\ \A u \in Thread : u # t /\ thread[u].pc = "held" => thread[u].frame # f
  BY <1>0 DEF Unlink, Pointers, InsertState, BucketLatch, FrameLatches, UnlatchBucket
<1>b. /\ pid'[f] = NoPid /\ \A g \in Frame : g # f => pid'[g] = pid[g]
      /\ pid' \in [Frame -> Pid \cup {NoPid}]
      /\ thread' \in [Thread -> ThreadState] /\ thread'[t].pc = "unlatch"
      /\ thread'[t].pid = thread[t].pid /\ thread'[t].op = thread[t].op
      /\ thread'[t].frame = f /\ \A u \in Thread : u # t => thread'[u] = thread[u]
      /\ freeFrames' = freeFrames /\ latch' = latch /\ htLatch' = NoThread
  BY <1>0, <1>a DEF Unlink, Goto, UnlatchBucket, TypeOK, ThreadState, PC
<1>n. next' = IF f = Bucket THEN next ELSE Without(next, f)
  BY DEF Unlink, Without
<1>p. next \in [Frame -> Overflow \cup {NoFrame}]
  BY <1>0 DEF Pointers
<1>q. next' \in [Frame -> Overflow \cup {NoFrame}]
  BY <1>a, <1>n, <1>p DEF Without
<1>e. Bucket \in Chain /\ Chain \subseteq Frame
  BY <1>p, FromIsClosed, FromClosed DEF Chain, Frame
<1>c. /\ \A g \in Frame : g \notin From(next', next'[g])
      /\ \E g \in Chain' : next'[g] = NoFrame
      /\ Chain' = Chain \ ({f} \ {Bucket})
      /\ \A g \in Frame \ Chain' : next'[g] = NoFrame
  <2>1. CASE f = Bucket
    BY <1>0, <1>n, <2>1, SameChain DEF ChainShape
  <2>2. CASE f # Bucket
    <3>1. next[f] # f
      BY <1>0, <1>a, <1>p, FromIsClosed DEF ChainShape
    <3>2. \A g \in Frame \cup {NoFrame} : g # f => From(next', g) = From(next, g) \ {f}
      BY <1>a, <1>n, <1>p, <2>2, <3>1, FromUnlink
    <3>3. /\ next'[f] = NoFrame
          /\ \A g \in Frame : g # f => next'[g] = IF next[g] = f THEN next[f] ELSE next[g]
      BY <1>a, <1>n, <2>2 DEF Without
    <3>4. Chain' = Chain \ {f}
      BY <1>e, <2>2, <3>2 DEF Chain
    <3>5. ASSUME NEW g \in Frame PROVE g \notin From(next', next'[g])
      <4>0. next[g] \in Frame \cup {NoFrame} /\ next[f] \in Frame \cup {NoFrame}
        BY <1>a, <1>p DEF Frame
      <4>1. CASE g = f
        BY <3>3, <4>1, FromEnd
      <4>2. CASE g # f /\ next[g] = f
        <5>1. From(next, next[f]) \subseteq From(next, next[g])
          BY <1>a, <1>p, <4>2, FromStep
        <5> QED
          BY <1>0, <3>1, <3>2, <3>3, <4>0, <4>2, <5>1 DEF ChainShape
      <4>3. CASE g # f /\ next[g] # f
        BY <1>0, <3>2, <3>3, <4>0, <4>3 DEF ChainShape
      <4> QED
        BY <4>1, <4>2, <4>3
    <3>6. \E g \in Chain : g # f /\ (next[g] = NoFrame \/ (next[g] = f /\ next[f] = NoFrame))
      <4>1. PICK e \in Chain : next[e] = NoFrame
        BY <1>0 DEF ChainShape
      <4>2. CASE e # f
        BY <4>1, <4>2
      <4>3. CASE e = f
        <5>1. SUFFICES ASSUME \A g \in Chain : g # f => next[g] # f
                       PROVE  FALSE
          BY <4>1, <4>3
        <5>2. Closed(next, Chain)
          BY <1>p, FromIsClosed DEF Chain, Frame
        <5>3. Closed(next, Chain \ {f})
          BY <5>1, <5>2 DEF Closed
        <5>4. Chain \subseteq Chain \ {f}
          BY <1>e, <2>2, <5>3, FromSmallest DEF Chain
        <5> QED
          BY <1>a, <5>4
      <4> QED
        BY <4>2, <4>3
    <3>7. \E g \in Chain' : next'[g] = NoFrame
      BY <1>a, <1>e, <3>3, <3>4, <3>6
    <3> QED
      BY <1>0, <1>a, <2>2, <3>3, <3>4, <3>5, <3>7 DEF ChainShape
  <2> QED
    BY <2>1, <2>2
<1> HIDE DEF f
<1>1. TypeOK'
  BY <1>0, <1>a, <1>b, <1>q DEF TypeOK, Frame
<1>2. Pointers'
  BY <1>0, <1>a, <1>b, <1>q DEF Pointers
<1>3. BucketLatch'
  BY <1>0, <1>a, <1>b DEF BucketLatch
<1>4. FrameLatches'
  BY <1>0, <1>a, <1>b DEF FrameLatches, f
<1>5. ChainShape'
  BY <1>0, <1>b, <1>c DEF ChainShape
<1>6. FramesAreConserved'
  <2>1. Returning' = Returning \cup {f}
    BY <1>a, <1>b DEF Returning
  <2>2. Overflow \ Chain = freeFrames \cup (Returning \ {Bucket})
    BY <1>0 DEF FramesAreConserved, Returning
  <2>3. f = Bucket \/ f \in Overflow
    BY <1>a DEF Frame
  <2>4. Overflow \ Chain' = freeFrames' \cup (Returning' \ {Bucket})
    BY <1>a, <1>b, <1>c, <2>1, <2>2, <2>3
  <2> QED
    BY <2>4 DEF FramesAreConserved, Returning
<1>7. ReturnedOnce'
  <2>1. f # Bucket => f \notin freeFrames /\ f \notin Returning
    BY <1>0, <1>a DEF FramesAreConserved, Returning
  <2>2. Returning' = Returning \cup {f}
    BY <1>a, <1>b DEF Returning
  <2>3. Bucket \notin freeFrames
    BY <1>0 DEF TypeOK
  <2>4. \A u \in Thread : thread[u].pc \in {"unlatch", "push"} => thread[u].frame \in Returning
    BY DEF Returning
  <2> QED
    BY <1>0, <1>b, <2>1, <2>2, <2>3, <2>4 DEF ReturnedOnce
<1>8. LookupState'
  BY <1>a DEF LookupState
<1>9. InsertState'
  BY <1>0, <1>a, <1>b, <1>c DEF InsertState, Pointers
<1>10. PagesOfThisNode'
  <2>1. \A p \in Pid : InTable(p)' => InTable(p)
    BY <1>a, <1>b DEF InTable
  <2>2. \A p \in Owned : InTable(p) => InTable(p)'
    BY <1>a, <1>b DEF InTable
  <2>3. \A u \in Thread : thread'[u].op = thread[u].op /\ thread'[u].pid = thread[u].pid
    BY <1>b
  <2>4. InTable(thread[t].pid)
    BY <1>a DEF InTable
  <2> QED
    BY <1>0, <1>a, <1>b, <2>1, <2>2, <2>3 DEF PagesOfThisNode, Pointers, InTable
<1>11. OneFramePerPid'
  BY <1>0, <1>a, <1>b DEF OneFramePerPid
<1> QED
  BY <1>1, <1>2, <1>3, <1>4, <1>5, <1>6, <1>7, <1>8, <1>9, <1>10,
       <1>11 DEF TableInv

(* The removed frame is unlatched. *)
LEMMA UnlatchRemovedStep ==
    ASSUME TableInv, NEW t \in Thread, UnlatchRemoved(t)
    PROVE  TableInv'
<1> USE TableAssumption
<1>0. /\ TypeOK /\ Pointers /\ BucketLatch /\ FrameLatches /\ ChainShape
      /\ FramesAreConserved /\ ReturnedOnce /\ LookupState /\ InsertState
      /\ PagesOfThisNode /\ OneFramePerPid
  BY DEF TableInv
<1>c. Chain' = Chain /\ \A f : From(next', f) = From(next, f)
  BY SameChain DEF UnlatchRemoved
<1>1. TypeOK'
  BY <1>0 DEF UnlatchRemoved, TypeOK, Pointers, PC, OP, Pid, Idle, ThreadState
<1>2. Pointers'
  BY <1>0 DEF UnlatchRemoved, TypeOK, Pointers, ThreadState, Frame, Pid, Idle
<1>3. BucketLatch'
  BY <1>0 DEF UnlatchRemoved, BucketLatch, Pointers, TypeOK, Idle
<1>4. FrameLatches'
  BY <1>0 DEF UnlatchRemoved, FrameLatches, Pointers, TypeOK, ThreadState,
       Idle
<1>5. ChainShape'
  BY <1>0, <1>c DEF UnlatchRemoved, ChainShape, Idle
<1>6. FramesAreConserved'
  BY <1>0, <1>c DEF UnlatchRemoved, FramesAreConserved, Pointers, TypeOK,
       ThreadState, Idle
<1>7. ReturnedOnce'
  BY <1>0, <1>c DEF UnlatchRemoved, ReturnedOnce, Returning,
       FramesAreConserved, TypeOK, ThreadState, Idle
<1>8. LookupState'
  BY <1>0, <1>c DEF UnlatchRemoved, LookupState, InTable, BucketLatch, TypeOK,
       ThreadState, Idle
<1>9. InsertState'
  BY <1>0, <1>c DEF UnlatchRemoved, InsertState, InTable, PagesOfThisNode,
       LookupState, TypeOK, ThreadState, Idle
<1>10. PagesOfThisNode'
  BY <1>0, <1>c DEF UnlatchRemoved, PagesOfThisNode, InTable, LookupState,
       Pointers, TypeOK, ThreadState, Idle
<1>11. OneFramePerPid'
  BY <1>0 DEF UnlatchRemoved, OneFramePerPid, InTable, Idle
<1> QED
  BY <1>1, <1>2, <1>3, <1>4, <1>5, <1>6, <1>7, <1>8, <1>9, <1>10,
       <1>11 DEF TableInv

(* The removed frame is back in the free list. *)
LEMMA PushFrameStep ==
    ASSUME TableInv, NEW t \in Thread, PushFrame(t)
    PROVE  TableInv'
<1> USE TableAssumption
<1>0. /\ TypeOK /\ Pointers /\ BucketLatch /\ FrameLatches /\ ChainShape
      /\ FramesAreConserved /\ ReturnedOnce /\ LookupState /\ InsertState
      /\ PagesOfThisNode /\ OneFramePerPid
  BY DEF TableInv
<1>c. Chain' = Chain /\ \A f : From(next', f) = From(next, f)
  BY SameChain DEF PushFrame
<1>1. TypeOK'
  BY <1>0, IdleType DEF PushFrame, TypeOK, Pointers, Frame
<1>2. Pointers'
  BY <1>0 DEF PushFrame, TypeOK, Pointers, ThreadState, Frame, Pid, Idle
<1>3. BucketLatch'
  BY <1>0 DEF PushFrame, BucketLatch, Pointers, TypeOK, Idle
<1>4. FrameLatches'
  BY <1>0 DEF PushFrame, FrameLatches, Pointers, TypeOK, ThreadState, Idle
<1>5. ChainShape'
  BY <1>0, <1>c DEF PushFrame, ChainShape, Idle
<1>6. FramesAreConserved'
  BY <1>0, <1>c DEF PushFrame, FramesAreConserved, Pointers, TypeOK,
       ThreadState, Idle
<1>7. ReturnedOnce'
  BY <1>0, <1>c DEF PushFrame, ReturnedOnce, Returning, FramesAreConserved,
       TypeOK, ThreadState, Pointers, Idle
<1>8. LookupState'
  BY <1>0, <1>c DEF PushFrame, LookupState, InTable, BucketLatch, TypeOK,
       ThreadState, Idle
<1>9. InsertState'
  BY <1>0, <1>c DEF PushFrame, InsertState, InTable, PagesOfThisNode,
       LookupState, TypeOK, ThreadState, Idle
<1>10. PagesOfThisNode'
  BY <1>0, <1>c DEF PushFrame, PagesOfThisNode, InTable, LookupState,
       Pointers, TypeOK, ThreadState, Idle
<1>11. OneFramePerPid'
  BY <1>0 DEF PushFrame, OneFramePerPid, InTable, Idle
<1> QED
  BY <1>1, <1>2, <1>3, <1>4, <1>5, <1>6, <1>7, <1>8, <1>9, <1>10,
       <1>11 DEF TableInv

-----------------------------------------------------------------------------
(* An empty bucket: the chain is the bucket's own frame. *)
LEMMA TableInvInit == Init => TableInv
<1> SUFFICES ASSUME Init PROVE TableInv
  OBVIOUS
<1> USE TableAssumption
<1>1. TypeOK
  BY IdleType DEF Init, TypeOK
<1>2. next \in [Frame -> Overflow \cup {NoFrame}]
  BY DEF Init
<1>3. Chain = {Bucket}
  <2>1. Closed(next, {Bucket}) /\ {Bucket} \in SUBSET Frame
    BY DEF Init, Closed, Frame
  <2>2. Chain \subseteq {Bucket}
    BY <2>1, FromSmallest DEF Chain
  <2>3. Bucket \in Chain
    BY <1>2, FromIsClosed DEF Chain, Frame
  <2> QED
    BY <2>2, <2>3
<1>4. \A t \in Thread : /\ thread[t].pc = "idle" /\ thread[t].op = "fix"
                        /\ thread[t].pid = NoPid /\ thread[t].frame = NoFrame
  BY DEF Init, Idle
<1>5. Pointers /\ BucketLatch /\ FrameLatches
  BY <1>2, <1>4 DEF Init, Pointers, BucketLatch, FrameLatches
<1>6. ChainShape
  BY <1>3, FromEnd DEF Init, ChainShape, Frame
<1>7. Returning = {}
  BY <1>4 DEF Returning
<1>8. FramesAreConserved /\ ReturnedOnce
  BY <1>3, <1>4, <1>7 DEF Init, FramesAreConserved, ReturnedOnce, Returning
<1>9. LookupState /\ InsertState /\ PagesOfThisNode /\ OneFramePerPid
  BY <1>4 DEF Init, LookupState, InsertState, PagesOfThisNode, OneFramePerPid
<1> QED
  BY <1>1, <1>5, <1>6, <1>8, <1>9 DEF TableInv

LEMMA TableInvNext == TableInv /\ [Next]_vars => TableInv'
<1> SUFFICES ASSUME TableInv, [Next]_vars PROVE TableInv'
  OBVIOUS
<1>1. CASE Next
  BY <1>1, CallStep, StartStep, WalkStep, AccessStep, CheckStep, UpgradeStep,
     InsertFrameStep, TakeFrameStep, InitFrameStep, ReleaseStep, RemoveFrameStep,
     UnlinkStep, UnlatchRemovedStep, PushFrameStep DEF Next
<1>2. CASE UNCHANGED vars
  <2>1. Chain' = Chain /\ \A f : From(next', f) = From(next, f)
    BY <1>2, SameChain DEF vars
  <2> QED
    BY <1>2, <2>1
       DEF vars, TableInv, TypeOK, Pointers, BucketLatch, FrameLatches, ChainShape,
           FramesAreConserved, ReturnedOnce, Returning, LookupState, InsertState,
           PagesOfThisNode, InTable, OneFramePerPid
<1> QED
  BY <1>1, <1>2

(* TableInv holds in every state of the page table. *)
THEOREM TableInvariant == Spec => []TableInv
BY TableInvInit, TableInvNext, PTL DEF Spec

-----------------------------------------------------------------------------
(* The properties *)

(* Concurrent lookups that miss never insert two frames for a page: the     *)
(* version that upgradeToExclusiveLatch compares is newer if anybody has   *)
(* inserted since the walk.                                                *)
THEOREM PagesAreCachedOnce == Spec => []OneFramePerPid
<1>1. TableInv => OneFramePerPid
  BY DEF TableInv
<1> QED
  BY <1>1, TableInvariant, PTL

(* insertFrame, removeFrame and the free list neither lose a frame nor use  *)
(* one twice.                                                              *)
THEOREM NoFrameIsLost == Spec => []FramesAreConserved
<1>1. TableInv => FramesAreConserved
  BY DEF TableInv
<1> QED
  BY <1>1, TableInvariant, PTL

(* findFrame and findFrameOrInsert, which take no latch on the bucket for   *)
(* the walk, find what a latched walk would find, latch the frame of the   *)
(* page they were asked for and insert into an empty frame, and nobody     *)
(* whom the insertion waits for waits for the bucket.                      *)
THEOREM LookupsAreRight == Spec => []FindFrameIsRight
<1>1. ASSUME TableInv PROVE FindFrameIsRight
  <2>0. /\ TypeOK /\ Pointers /\ FrameLatches /\ LookupState /\ InsertState
        /\ PagesOfThisNode
    BY <1>1 DEF TableInv
  <2>1. LookupMissesNothing
    BY <2>0 DEF LookupMissesNothing, LookupState, PagesOfThisNode
  <2>2. GuardIsOnItsPage
    BY <2>0 DEF GuardIsOnItsPage, FrameLatches, InsertState, Pointers
  <2>3. InsertsIntoEmptyFrame
    BY <2>0 DEF InsertsIntoEmptyFrame, InsertState
  <2>4. InsertionIsNotBlocked
    BY <2>0, TableAssumption
       DEF InsertionIsNotBlocked, FrameLatches, InsertState, Pointers
  <2> QED
    BY <2>1, <2>2, <2>3, <2>4 DEF FindFrameIsRight
<1> QED
  BY <1>1, TableInvariant, PTL
=============================================================================
