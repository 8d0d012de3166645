----------------------------- MODULE PageTable -----------------------------
(***************************************************************************)
(* One bucket of the page table: findFrameOrInsert and findFrame           *)
(* (Buffermanager.tpp), insertFrame and removeFrame (Buffermanager.hpp).   *)
(* The bucket is a buffer frame with a chain of further frames behind it.  *)
(* Lookups walk the chain without a latch and compare the version of the   *)
(* bucket latch after every read; inserts and removals latch the bucket    *)
(* exclusively.  The frame that was found is latched by an access functor, *)
(* and the bucket's version is compared once more afterwards.              *)
(*                                                                         *)
(* Frames are latched exclusively here, as by the functor Exclusive.       *)
(***************************************************************************)
EXTENDS Naturals, FiniteSets, TLC

CONSTANTS
    Thread,
    Owned,     \* pids of this node: never removed
    Remote,    \* pids of other nodes: cached, and removed again
    Bucket,    \* the frame that is the bucket (isHtBucket)
    Overflow,  \* the frames of the free list
    NoPid,     \* EMPTY_PID
    NoFrame,   \* nullptr
    NoThread

Frame == {Bucket} \cup Overflow
Pid == Owned \cup Remote

ASSUME TableAssumption ==
    /\ Bucket \notin Overflow /\ NoFrame \notin Frame
    /\ NoPid \notin Pid /\ Owned \cap Remote = {}
    /\ NoThread \notin Thread
    /\ IsFiniteSet(Overflow)

VARIABLES
    htLatch,   \* who holds ht_bucket_latch
    current,   \* threads whose b_version is still the version of the bucket
    next,      \* BufferFrame::next
    pid,       \* BufferFrame::pid; EMPTY_PID iff the state is FREE
    latch,     \* who has latched each frame
    freeFrames,\* frameFreeList
    thread     \* where each thread is

vars == <<htLatch, current, next, pid, latch, freeFrames, thread>>

PC == {"idle", "start", "walk", "access", "check", "upgrade", "insert", "init",
       "held", "unlink", "unlatch", "push", "thrown"}

(* What a thread does: fix, an eviction request at the owner, newPage *)
OP == {"fix", "evict", "new"}

ThreadState ==
    [pc : PC, op : OP, pid : Pid \cup {NoPid}, frame : Frame \cup {NoFrame},
     tail : Frame \cup {NoFrame}, retry : BOOLEAN]

Idle == [pc |-> "idle", op |-> "fix", pid |-> NoPid, frame |-> NoFrame,
         tail |-> NoFrame, retry |-> FALSE]

Init ==
    /\ htLatch = NoThread
    /\ current = {}
    /\ next = [f \in Frame |-> NoFrame]
    /\ pid = [f \in Frame |-> NoPid]
    /\ latch = [f \in Frame |-> NoThread]
    /\ freeFrames = Overflow
    /\ thread = [t \in Thread |-> Idle]

-----------------------------------------------------------------------------
(* tryLatchExclusive and upgradeToExclusiveLatch raise the bucket's         *)
(* version: whoever has read it before will notice.                        *)
LatchBucket(t) == htLatch = NoThread /\ htLatch' = t /\ current' = {}

UnlatchBucket == htLatch' = NoThread /\ UNCHANGED current

Goto(t, pc) == thread' = [thread EXCEPT ![t].pc = pc]

Restart(t) == [thread EXCEPT ![t].pc = "start", ![t].frame = NoFrame,
                             ![t].tail = NoFrame, ![t].retry = FALSE]

InTable(p) == \E f \in Frame : pid[f] = p

(* A thread calls fix, handles an eviction of a page of this node, or       *)
(* creates a page with a pid from pidFreeList.                             *)
Call(t) ==
    /\ thread[t].pc = "idle"
    /\ \E op \in OP, p \in Pid :
          /\ CASE op = "fix" -> p \in Remote \/ InTable(p)
               [] op = "evict" -> p \in Owned /\ InTable(p)
               [] op = "new" -> /\ p \in Owned /\ ~InTable(p)
                                /\ \A u \in Thread : thread[u].pid # p
          /\ thread' = [thread EXCEPT ![t] =
                           [Idle EXCEPT !.pc = "start", !.op = op, !.pid = p]]
    /\ UNCHANGED <<htLatch, current, next, pid, latch, freeFrames>>

-----------------------------------------------------------------------------
(* findFrame and findFrameOrInsert *)

(* b_version = ht_latch.optimisticLatchOrRestart() *)
Start(t) ==
    /\ thread[t].pc = "start" /\ thread[t].op # "new" /\ htLatch = NoThread
    /\ current' = current \cup {t}
    /\ thread' = [thread EXCEPT ![t].pc = "walk", ![t].frame = Bucket]
    /\ UNCHANGED <<htLatch, next, pid, latch, freeFrames>>

(* Mutant: the version is not compared while the chain is walked. *)
WalkUnchecked(t) ==
    LET f == thread[t].frame IN
    /\ thread[t].pc = "walk"
    /\ thread' =
         IF f = NoFrame THEN [thread EXCEPT ![t].pc = "upgrade"]
         ELSE IF pid[f] = thread[t].pid THEN [thread EXCEPT ![t].pc = "access"]
         ELSE [thread EXCEPT ![t].frame = next[f], ![t].tail = f]
    /\ UNCHANGED <<htLatch, current, next, pid, latch, freeFrames>>

(* One turn of the loop: what was read counts if the version is unchanged. *)
Walk(t) ==
    LET f == thread[t].frame IN
    /\ thread[t].pc = "walk"
    /\ thread' =
         IF t \notin current THEN Restart(t)
         ELSE IF f = NoFrame THEN [thread EXCEPT ![t].pc = "upgrade"]
         ELSE IF pid[f] = thread[t].pid THEN [thread EXCEPT ![t].pc = "access"]
         ELSE [thread EXCEPT ![t].frame = next[f], ![t].tail = f]
    /\ UNCHANGED <<htLatch, current, next, pid, latch, freeFrames>>

(* The functor latches the frame that was found, or reports RETRY. *)
Access(t) ==
    LET f == thread[t].frame IN
    /\ thread[t].pc = "access"
    /\ latch' = IF latch[f] = NoThread THEN [latch EXCEPT ![f] = t] ELSE latch
    /\ thread' = [thread EXCEPT ![t].pc = "check",
                                ![t].retry = latch[f] # NoThread]
    /\ UNCHANGED <<htLatch, current, next, pid, freeFrames>>

(* BLOCKING restarts after RETRY; a frame latched under an old version is  *)
(* given back by undo.  NON_BLOCKING returns in any case, after undo if    *)
(* the version is old, and Exclusive::undo throws if there was no latch.   *)
Check(t) ==
    LET f == thread[t].frame
        retry == thread[t].retry
        undo == t \notin current /\ ~retry
    IN
    /\ thread[t].pc = "check"
    /\ latch' = IF undo THEN [latch EXCEPT ![f] = NoThread] ELSE latch
    /\ thread' =
         IF t \in current /\ ~retry THEN [thread EXCEPT ![t].pc = "held"]
         ELSE IF thread[t].op = "fix" THEN Restart(t)
         ELSE IF retry /\ t \notin current
              THEN [thread EXCEPT ![t] = [Idle EXCEPT !.pc = "thrown"]]
         ELSE [thread EXCEPT ![t] = Idle]
    /\ UNCHANGED <<htLatch, current, next, pid, freeFrames>>

-----------------------------------------------------------------------------
(* The insertion at the end of findFrameOrInsert, and insertFrame *)

(* Mutant: the bucket is latched whatever happened since the lookup. *)
UpgradeUnchecked(t) ==
    /\ thread[t].pc = "upgrade"
    /\ LatchBucket(t) /\ Goto(t, "insert")
    /\ UNCHANGED <<next, pid, latch, freeFrames>>

Upgrade(t) ==
    /\ thread[t].pc = "upgrade"
    /\ \/ /\ t \in current
          /\ LatchBucket(t) /\ Goto(t, "insert")
       \/ /\ t \notin current
          /\ thread' = Restart(t) /\ UNCHANGED <<htLatch, current>>
    /\ UNCHANGED <<next, pid, latch, freeFrames>>

InsertFrame(t) ==
    /\ thread[t].pc = "start" /\ thread[t].op = "new"
    /\ LatchBucket(t) /\ Goto(t, "insert")
    /\ UNCHANGED <<next, pid, latch, freeFrames>>

(* With a frame, S has the one behind it. *)
Closed(nxt, S) == \A g \in S : nxt[g] # NoFrame => nxt[g] \in S

(* The frames reached from f: those of every closed set that has f *)
From(nxt, f) ==
    {g \in Frame : \A S \in SUBSET Frame :
                      Closed(nxt, S) /\ {f} \ {NoFrame} \subseteq S => g \in S}

(* The frames of the chain, and the slot at its end *)
Chain == From(next, Bucket)

LastFrame == CHOOSE f \in Chain : next[f] = NoFrame

(* The bucket's own frame if it is FREE, else one of the free list at the  *)
(* end of the chain; with an empty free list, unlatch and start again.     *)
TakeFrame(t) ==
    LET tail == IF thread[t].op = "new" THEN LastFrame ELSE thread[t].tail IN
    /\ thread[t].pc = "insert"
    /\ \/ /\ pid[Bucket] = NoPid
          /\ thread' = [thread EXCEPT ![t].pc = "init", ![t].frame = Bucket]
          /\ UNCHANGED <<htLatch, current, next, freeFrames>>
       \/ /\ pid[Bucket] # NoPid
          /\ \E f \in freeFrames :
                /\ next' = [next EXCEPT ![tail] = f]
                /\ freeFrames' = freeFrames \ {f}
                /\ thread' = [thread EXCEPT ![t].pc = "init", ![t].frame = f]
          /\ UNCHANGED <<htLatch, current>>
       \/ /\ pid[Bucket] # NoPid /\ freeFrames = {}
          /\ UnlatchBucket /\ thread' = Restart(t)
          /\ UNCHANGED <<next, freeFrames>>
    /\ UNCHANGED <<pid, latch>>

(* frame.latch.latchExclusive() blocks with the bucket latched; then the    *)
(* frame gets its pid and the bucket is unlatched.                         *)
InitFrame(t) ==
    LET f == thread[t].frame IN
    /\ thread[t].pc = "init" /\ latch[f] = NoThread
    /\ latch' = [latch EXCEPT ![f] = t]
    /\ pid' = [pid EXCEPT ![f] = thread[t].pid]
    /\ UnlatchBucket /\ Goto(t, "held")
    /\ UNCHANGED <<next, freeFrames>>

-----------------------------------------------------------------------------
(* The holder of a guard unlatches the frame, or removes it. *)

Release(t) ==
    /\ thread[t].pc = "held"
    /\ latch' = [latch EXCEPT ![thread[t].frame] = NoThread]
    /\ thread' = [thread EXCEPT ![t] = Idle]
    /\ UNCHANGED <<htLatch, current, next, pid, freeFrames>>

(* removeFrame: latch the bucket, ... *)
RemoveFrame(t) ==
    /\ thread[t].pc = "held" /\ thread[t].pid \in Remote
    /\ LatchBucket(t) /\ Goto(t, "unlink")
    /\ UNCHANGED <<next, pid, latch, freeFrames>>

(* Mutant: the frame is reset, but it stays in the chain. *)
UnlinkNothing(t) ==
    /\ thread[t].pc = "unlink"
    /\ pid' = [pid EXCEPT ![thread[t].frame] = NoPid]
    /\ UnlatchBucket /\ Goto(t, "unlatch")
    /\ UNCHANGED <<next, latch, freeFrames>>

(* ... take the frame out of the chain (the bucket's own frame stays) and  *)
(* reset it, unlatch the bucket, ...                                       *)
Unlink(t) ==
    LET f == thread[t].frame IN
    /\ thread[t].pc = "unlink"
    /\ next' = IF f = Bucket THEN next
               ELSE [g \in Frame |-> IF g = f THEN NoFrame
                                     ELSE IF next[g] = f THEN next[f]
                                     ELSE next[g]]
    /\ pid' = [pid EXCEPT ![f] = NoPid]
    /\ UnlatchBucket /\ Goto(t, "unlatch")
    /\ UNCHANGED <<latch, freeFrames>>

(* ... unlatch the frame, ... *)
UnlatchRemoved(t) ==
    LET f == thread[t].frame IN
    /\ thread[t].pc = "unlatch"
    /\ latch' = [latch EXCEPT ![f] = NoThread]
    /\ thread' = IF f = Bucket THEN [thread EXCEPT ![t] = Idle]
                 ELSE [thread EXCEPT ![t].pc = "push"]
    /\ UNCHANGED <<htLatch, current, next, pid, freeFrames>>

(* ... and give it back to the free list. *)
PushFrame(t) ==
    /\ thread[t].pc = "push"
    /\ freeFrames' = freeFrames \cup {thread[t].frame}
    /\ thread' = [thread EXCEPT ![t] = Idle]
    /\ UNCHANGED <<htLatch, current, next, pid, latch>>

-----------------------------------------------------------------------------
Next ==
    \E t \in Thread :
        \/ Call(t) \/ Start(t) \/ Walk(t) \/ Access(t) \/ Check(t)
        \/ Upgrade(t) \/ InsertFrame(t) \/ TakeFrame(t) \/ InitFrame(t)
        \/ Release(t) \/ RemoveFrame(t) \/ Unlink(t) \/ UnlatchRemoved(t)
        \/ PushFrame(t)

Spec == Init /\ [][Next]_vars

(* Threads, remote pids and overflow frames are interchangeable. *)
Symmetry == Permutations(Thread) \cup Permutations(Remote) \cup Permutations(Overflow)

-----------------------------------------------------------------------------
(* Properties *)

TypeOK ==
    /\ htLatch \in Thread \cup {NoThread}
    /\ current \subseteq Thread
    /\ next \in [Frame -> Frame \cup {NoFrame}]
    /\ pid \in [Frame -> Pid \cup {NoPid}]
    /\ latch \in [Frame -> Thread \cup {NoThread}]
    /\ freeFrames \subseteq Overflow
    /\ thread \in [Thread -> ThreadState]

(* A page is cached once: concurrent lookups that miss never insert two     *)
(* frames for a pid, and no frame is in the table under two pids.          *)
OneFramePerPid ==
    \A f, g \in Frame : pid[f] = pid[g] /\ pid[f] # NoPid => f = g

(* A lookup misses nothing: when it has reached the end of the chain and    *)
(* the version is still the same, the pid is not in the table, however the *)
(* chain was changed during the walk.  So an owner always finds a page of  *)
(* its own: ensure(guard.state != NOT_FOUND) in the page provider.         *)
LookupMissesNothing ==
    \A t \in Thread : thread[t].pc = "upgrade" =>
        /\ thread[t].op # "evict"
        /\ t \in current => ~InTable(thread[t].pid)

(* A guard is what its holder asked for: the frame it has latched holds     *)
(* that page and is in the table, although the lookup held no latch and    *)
(* the frame may have been removed and used again meanwhile.               *)
GuardIsOnItsPage ==
    \A t \in Thread : thread[t].pc = "held" =>
        LET f == thread[t].frame IN
        latch[f] = t /\ pid[f] = thread[t].pid /\ f \in Chain

(* An insertion gets an empty frame: ensure(g.frame->pid == EMPTY_PID) in   *)
(* findFrameOrInsert, for the frame it has waited for.                     *)
InsertsIntoEmptyFrame ==
    \A t \in Thread : thread[t].pc = "init" => pid[thread[t].frame] = NoPid

(* No frame is lost and none is used twice: every frame of the free list,   *)
(* and every frame on its way back to it, is outside of the chain, and     *)
(* every other overflow frame is in the chain.                             *)
FramesAreConserved ==
    LET returning == {thread[t].frame : t \in
                         {u \in Thread : thread[u].pc \in {"unlatch", "push"}}}
    IN Overflow \ Chain = freeFrames \cup (returning \ {Bucket})

(* The latch an insertion waits for while it holds the bucket latch         *)
(* ("POSSIBLE ERROR?" in the code) is never held by a thread that waits    *)
(* for the bucket: it is a lookup about to undo, or a removal about to     *)
(* unlatch, so inserting does not deadlock.                                *)
InsertionIsNotBlocked ==
    \A t, u \in Thread :
        thread[t].pc = "init" /\ latch[thread[t].frame] = u
        => thread[u].pc \in {"check", "unlatch"}

(* findFrame and findFrameOrInsert without a latch on the bucket are as     *)
(* good as with one: they miss nothing, latch the frame of the page they   *)
(* were asked for, and insert into an empty frame without waiting for a    *)
(* thread that waits for them.                                             *)
FindFrameIsRight ==
    /\ LookupMissesNothing /\ GuardIsOnItsPage
    /\ InsertsIntoEmptyFrame /\ InsertionIsNotBlocked

(* ensure(g.state != STATE::RETRY) in Exclusive::undo: undo is called only  *)
(* for a frame that the functor has latched.                               *)
UndoOnlyWhatWasLatched == \A t \in Thread : thread[t].pc # "thrown"
=============================================================================
