----------------------------- MODULE BufferPool -----------------------------
(***************************************************************************)
(* Where the pages, pids and frames of a node come from and how its pages  *)
(* get to the SSD before a measurement: the constructor of Buffermanager,  *)
(* which fills its free lists from several threads, and writeAllPages,     *)
(* which walks all frames from several threads while the page provider     *)
(* still writes and evicts. (The free lists themselves: FreeList.)         *)
(***************************************************************************)
EXTENDS Integers, Sequences, FiniteSets

CONSTANTS
  Pages,       \* dramPoolNumberPages
  SsdPages,    \* slots of the SSD: plain pids 0 .. SsdPages - 1, 0 is the catalog's
  Frames,      \* number of frames
  Threads,     \* threads of a parallelRange
  MaxVersion   \* bound: how often pages are changed

Page == 1..Pages
Pid == 0..SsdPages-1
Frame == 1..Frames
Thread == 0..Threads-1

VARIABLES
  phase,    \* "pages", "pids", "catalog", "serve", "flush", "done"
  cursor,   \* [Thread -> next index of its block]
  pageList, pidList,   \* [-> how often it is in the free list]
  frame,    \* [Frame -> [state, own, pid, page, dirty, latch, version]]
  ssd,      \* [Pid -> version written last, and whether it was of a page of this node]
  retry,    \* [Thread -> retry_idx]
  pc,       \* [Thread -> "next" or the frame that it holds the latch of]
  version,
  last,          \* [Pid -> version that was written to the page of this node last]
  stillLatched   \* "still latched" was thrown

vars == <<phase, cursor, pageList, pidList, frame, ssd, retry, pc, version, last, stillLatched>>

NoFrame == [state |-> "FREE", own |-> TRUE, pid |-> 0, page |-> 0, dirty |-> FALSE, latch |-> "no", version |-> 0]

\* parallelRange: the last thread takes what is left
Block(n) == n \div Threads
BlockEnd(t, n) == IF t = Threads - 1 THEN n ELSE (t + 1) * Block(n)

Init ==
  /\ phase = "pages" /\ cursor = [t \in Thread |-> t * Block(Pages)]
  /\ pageList = [p \in Page |-> 0] /\ pidList = [p \in Pid |-> 0]
  /\ frame = [f \in Frame |-> NoFrame] /\ ssd = [p \in Pid |-> [version |-> 0, own |-> TRUE]]
  /\ retry = [t \in Thread |-> <<>>] /\ pc = [t \in Thread |-> 0]
  /\ version = 0 /\ last = [p \in Pid |-> 0] /\ stillLatched = FALSE

-----------------------------------------------------------------------------
(* Constructor; the shuffle of the pages only renames them *)

PushPage(t) ==
  /\ phase = "pages" /\ cursor[t] < BlockEnd(t, Pages)
  /\ pageList' = [pageList EXCEPT ![cursor[t] + 1] = @ + 1] /\ cursor' = [cursor EXCEPT ![t] = @ + 1]
  /\ UNCHANGED <<phase, pidList, frame, ssd, retry, pc, version, last, stillLatched>>

\* One thread pushes the pids, the catalog's left out.
PushPids ==
  /\ phase = "pages" /\ \A t \in Thread : cursor[t] = BlockEnd(t, Pages)
  /\ pidList' = [p \in Pid |-> IF p = 0 THEN 0 ELSE 1] /\ phase' = "catalog"
  /\ UNCHANGED <<cursor, pageList, frame, ssd, retry, pc, version, last, stillLatched>>

Occupied(own, pid, page, v) == [state |-> "HOT", own |-> own, pid |-> pid, page |-> page, dirty |-> v > 0, latch |-> "no", version |-> v]

TakePage(p) == pageList[p] > 0 /\ pageList' = [pageList EXCEPT ![p] = @ - 1]

CreateCatalogPage(f, p) ==
  /\ phase = "catalog" /\ TakePage(p)
  /\ frame' = [frame EXCEPT ![f] = Occupied(TRUE, 0, p, 0)] /\ phase' = "serve"
  /\ UNCHANGED <<cursor, pidList, ssd, retry, pc, version, last, stillLatched>>

-----------------------------------------------------------------------------
(* Workers *)

Bump == phase = "serve" /\ version < MaxVersion /\ version' = version + 1

\* newPage, written to under its guard
NewPage(f, p, pid) ==
  /\ Bump /\ frame[f].state = "FREE" /\ TakePage(p) /\ pidList[pid] > 0
  /\ pidList' = [pidList EXCEPT ![pid] = @ - 1] /\ frame' = [frame EXCEPT ![f] = Occupied(TRUE, pid, p, version + 1)]
  /\ last' = [last EXCEPT ![pid] = version + 1]
  /\ UNCHANGED <<phase, cursor, ssd, retry, pc, stillLatched>>

\* newRemotePage: pid of another node, whose plain number may be that of a slot here
NewRemotePage(f, p, pid) ==
  /\ Bump /\ frame[f].state = "FREE" /\ TakePage(p)
  /\ frame' = [frame EXCEPT ![f] = Occupied(FALSE, pid, p, version + 1)]
  /\ UNCHANGED <<phase, cursor, pidList, ssd, retry, pc, last, stillLatched>>

\* an ExclusiveBFGuard marks the frame dirty
WritePage(f) ==
  /\ Bump /\ frame[f].state = "HOT" /\ frame[f].latch = "no"
  /\ frame' = [frame EXCEPT ![f].version = version + 1, ![f].dirty = TRUE]
  /\ last' = IF frame[f].own THEN [last EXCEPT ![frame[f].pid] = version + 1] ELSE last
  /\ UNCHANGED <<phase, cursor, pageList, pidList, ssd, retry, pc, stillLatched>>

\* fix of a page that is only on the SSD: readPageSync
LoadPage(f, p, pid) ==
  /\ phase = "serve" /\ frame[f].state = "FREE" /\ TakePage(p)
  /\ pidList[pid] = 0 /\ \A g \in Frame : ~(frame[g].state = "HOT" /\ frame[g].own /\ frame[g].pid = pid)
  /\ frame' = [frame EXCEPT ![f] = [Occupied(TRUE, pid, p, ssd[pid].version) EXCEPT !.dirty = FALSE]]
  /\ UNCHANGED <<phase, cursor, pidList, ssd, retry, pc, version, last, stillLatched>>

\* reclaimPage: the pid of another node's page is not given back to anybody
ReclaimPage(f) ==
  /\ phase = "serve" /\ frame[f].state = "HOT" /\ frame[f].latch = "no" /\ frame[f].pid # 0
  /\ pageList' = [pageList EXCEPT ![frame[f].page] = @ + 1]
  /\ pidList' = IF frame[f].own THEN [pidList EXCEPT ![frame[f].pid] = @ + 1] ELSE pidList
  /\ frame' = [frame EXCEPT ![f] = NoFrame]
  /\ UNCHANGED <<phase, cursor, ssd, retry, pc, version, last, stillLatched>>

-----------------------------------------------------------------------------
(* Page provider, which runs until the end *)

Written(f) == [version |-> frame[f].version, own |-> frame[f].own]

\* A dirty page is written with its latch held shared.
StartWrite(f) ==
  /\ phase \in {"serve", "flush"} /\ frame[f].state = "HOT" /\ frame[f].own /\ frame[f].dirty /\ frame[f].latch = "no"
  /\ frame' = [frame EXCEPT ![f].latch = "shared"]
  /\ UNCHANGED <<phase, cursor, pageList, pidList, ssd, retry, pc, version, last, stillLatched>>

FinishWrite(f) ==
  /\ frame[f].latch = "shared"
  /\ ssd' = [ssd EXCEPT ![frame[f].pid] = Written(f)]
  /\ frame' = [frame EXCEPT ![f].latch = "no", ![f].dirty = FALSE]
  /\ UNCHANGED <<phase, cursor, pageList, pidList, retry, pc, version, last, stillLatched>>

\* A clean page is removed.
Evict(f) ==
  /\ phase \in {"serve", "flush"} /\ frame[f].state = "HOT" /\ frame[f].latch = "no" /\ ~frame[f].dirty /\ frame[f].own
  /\ pageList' = [pageList EXCEPT ![frame[f].page] = @ + 1] /\ frame' = [frame EXCEPT ![f] = NoFrame]
  /\ UNCHANGED <<phase, cursor, pidList, ssd, retry, pc, version, last, stillLatched>>

-----------------------------------------------------------------------------
(* writeAllPages: "do not execute worker in between" *)

StartFlush ==
  /\ phase = "serve" /\ phase' = "flush" /\ cursor' = [t \in Thread |-> t * Block(Frames)]
  /\ UNCHANGED <<pageList, pidList, frame, ssd, retry, pc, version, last, stillLatched>>

AtFrame(t) == phase = "flush" /\ pc[t] = 0 /\ cursor[t] < BlockEnd(t, Frames)

TryLatch(t) ==
  LET f == cursor[t] + 1
      wanted == frame[f].own /\ frame[f].state = "HOT"
  IN
  /\ AtFrame(t) /\ cursor' = [cursor EXCEPT ![t] = @ + 1]
  /\ IF wanted /\ frame[f].latch = "no"
     THEN frame' = [frame EXCEPT ![f].latch = "exclusive"] /\ pc' = [pc EXCEPT ![t] = f] /\ UNCHANGED retry
     ELSE retry' = [retry EXCEPT ![t] = IF wanted THEN Append(@, f) ELSE @] /\ UNCHANGED <<frame, pc>>
  /\ UNCHANGED <<phase, pageList, pidList, ssd, version, last, stillLatched>>

\* pwrite if dirty, and unlatch
WriteBack(t) ==
  LET f == pc[t] IN
  /\ phase = "flush" /\ f # 0
  /\ ssd' = IF frame[f].dirty THEN [ssd EXCEPT ![frame[f].pid] = Written(f)] ELSE ssd
  /\ frame' = [frame EXCEPT ![f].dirty = FALSE, ![f].latch = "no"] /\ pc' = [pc EXCEPT ![t] = 0]
  /\ UNCHANGED <<phase, cursor, pageList, pidList, retry, version, last, stillLatched>>

\* The second loop tests neither owner nor state again.
Retry(t) ==
  LET f == Head(retry[t]) IN
  /\ phase = "flush" /\ pc[t] = 0 /\ cursor[t] = BlockEnd(t, Frames) /\ retry[t] # <<>>
  /\ retry' = [retry EXCEPT ![t] = Tail(@)]
  /\ IF frame[f].latch = "no"
     THEN frame' = [frame EXCEPT ![f].latch = "exclusive"] /\ pc' = [pc EXCEPT ![t] = f] /\ UNCHANGED <<phase, stillLatched>>
     ELSE stillLatched' = TRUE /\ phase' = "done" /\ UNCHANGED <<frame, pc>>
  /\ UNCHANGED <<cursor, pageList, pidList, ssd, version, last>>

EndFlush ==
  /\ phase = "flush" /\ \A t \in Thread : cursor[t] = BlockEnd(t, Frames) /\ retry[t] = <<>> /\ pc[t] = 0
  /\ phase' = "done" /\ UNCHANGED <<cursor, pageList, pidList, frame, ssd, retry, pc, version, last, stillLatched>>

Next ==
  \/ PushPids \/ StartFlush \/ EndFlush
  \/ \E t \in Thread : PushPage(t) \/ TryLatch(t) \/ WriteBack(t) \/ Retry(t)
  \/ \E f \in Frame : WritePage(f) \/ ReclaimPage(f) \/ StartWrite(f) \/ FinishWrite(f) \/ Evict(f)
  \/ \E f \in Frame, p \in Page : CreateCatalogPage(f, p) \/ \E pid \in Pid \ {0} : NewPage(f, p, pid) \/ NewRemotePage(f, p, pid)
  \/ \E f \in Frame, p \in Page, pid \in Pid : LoadPage(f, p, pid)

Spec == Init /\ [][Next]_vars

-----------------------------------------------------------------------------
(* Properties *)

\* From the end of the constructor on, every page is in the free list or in one frame, exactly once, whichever block it
\* was in; and a pid of this node is free or is that of a page on the SSD or in a frame, never both.
PoolIsConserved ==
  phase \notin {"pages", "pids"} =>
    /\ \A p \in Page : pageList[p] + Cardinality({f \in Frame : frame[f].state = "HOT" /\ frame[f].page = p}) = 1
    /\ \A f \in Frame : frame[f].state = "HOT" /\ frame[f].own => pidList[frame[f].pid] = 0

\* When writeAllPages returns, the SSD has the last version of every page of this node, those that were latched by the
\* page provider when their turn came included.
FlushWritesAll == phase = "done" /\ ~stillLatched =>
  \A f \in Frame : frame[f].state = "HOT" /\ frame[f].own => ssd[frame[f].pid].version = frame[f].version

\* No slot of the SSD ever gets a page of another node, although the second loop of writeAllPages does not look at the owner.
SlotsAreOwn == \A p \in Pid : ssd[p].own

\* A page has its last version wherever it is looked for, in its frame or else on the SSD, over any eviction and return.
NoUpdateIsLost ==
  /\ \A f \in Frame : frame[f].state = "HOT" /\ frame[f].own => frame[f].version = last[frame[f].pid]
  /\ \A pid \in Pid : pidList[pid] = 0 /\ phase \notin {"pages", "catalog"}
       => ssd[pid].version = last[pid] \/ \E f \in Frame : frame[f].state = "HOT" /\ frame[f].own /\ frame[f].pid = pid
=============================================================================
