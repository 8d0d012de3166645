---------------------------- MODULE EvictionSweep ----------------------------
(***************************************************************************)
(* Phase 3 of a page provider thread: it samples epochs from its partition *)
(* of the page table, walks a batch of buckets level by level without any  *)
(* latch, remembers candidates, and latches each candidate only when its   *)
(* level has been read. Workers fix, insert, remove and touch the frames   *)
(* meanwhile. What becomes of a page that is written to the SSD or         *)
(* requested from its owner is the subject of AsyncIO and EvictionBatch.   *)
(***************************************************************************)
EXTENDS Integers, Sequences, FiniteSets, SequencesExt

CONSTANTS
  Buckets,          \* buckets of the partition: the frames 0 .. Buckets - 1
  Overflow,         \* number of frames that are linked into chains
  RemoteFrames,     \* frames that hold pages of other nodes
  pp_batch_size, required_samples,
  CoolestOf,        \* evictCoolestEpochs is 1 / CoolestOf
  evict_to_ssd,
  MaxOutgoing,      \* room in the request to the owner
  MinUsed,          \* pages in use from which on the free pages are below freeBFLimit
  MaxEpoch, MaxChanges

Heads == 0 .. Buckets - 1
Frames == 0 .. Buckets + Overflow - 1
NoFrame == Buckets + Overflow

VARIABLES
  state,      \* [Frames -> {"FREE", "HOT", "EVICTED", "IO_RDMA"}]
  epoch, latched,
  moved,      \* [Frames -> BOOLEAN]: unlatched, which counts its version up, since the provider read the version
  next,       \* [Frames -> Frames \cup {NoFrame}]
  globalEpoch,
  outgoing,   \* frames in the current request, which stay latched
  changes,    \* what workers have done, bounded
  pp,         \* the thread
  visited,    \* frames this sweep has looked at
  rewired     \* a chain has changed since the sweep began

frameVars == <<state, epoch, latched, moved, next>>
vars == <<frameVars, globalEpoch, outgoing, changes, pp, visited, rewired>>

Idle == [pc |-> "round", offset |-> 0, begin |-> 0, end |-> 0, needed |-> TRUE, samples |-> <<>>, window |-> 0, sampling |-> FALSE,
         batch |-> <<>>, b_i |-> 1, write_idx |-> 0, candidates |-> <<>>, c_i |-> 1]

Init ==
  /\ state = [f \in Frames |-> IF f = 0 THEN "HOT" ELSE "FREE"]
  /\ epoch = [f \in Frames |-> 0] /\ latched = [f \in Frames |-> FALSE] /\ moved = [f \in Frames |-> FALSE]
  /\ next = [f \in Frames |-> NoFrame]
  /\ globalEpoch = 0 /\ outgoing = {} /\ changes = 0
  /\ pp = Idle /\ visited = {} /\ rewired = FALSE

Used(f) == state[f] \notin {"FREE", "EVICTED"}

\* The batch after offset o, clipped at the end of the partition
BatchEnd(o) == IF o + pp_batch_size > Buckets THEN Buckets ELSE o + pp_batch_size


BatchOf(b, e) == [i \in 1 .. e - b |-> b + i - 1]

Advance(o) == BatchEnd(o) % Buckets

\* Start of batch_traverse_hashtable
StartBatch(p, b, e) == [p EXCEPT !.batch = BatchOf(b, e), !.b_i = 1, !.write_idx = 0, !.candidates = <<>>, !.pc = "visit"]

\* Eviction starts when free pages run short; the epoch may have been incremented before.
Round(incremented) ==
  LET o == pp.offset
      p == [pp EXCEPT !.begin = o, !.end = BatchEnd(o), !.offset = Advance(o), !.needed = @ \/ incremented]
  IN
  /\ pp.pc = "round" /\ Cardinality({f \in Frames : Used(f)}) >= MinUsed /\ (incremented => globalEpoch < MaxEpoch)
  /\ globalEpoch' = IF incremented THEN globalEpoch + 1 ELSE globalEpoch
  /\ pp' = IF evict_to_ssd /\ p.needed THEN [p EXCEPT !.pc = "sample", !.samples = <<>>, !.sampling = TRUE]
                                       ELSE StartBatch(p, p.begin, p.end)
  /\ visited' = {} /\ rewired' = FALSE
  /\ UNCHANGED <<frameVars, outgoing, changes>>

\* One batch of the loop that collects samples, or its end: sort and take the window
Sample ==
  /\ pp.pc = "sample"
  /\ IF Len(pp.samples) < required_samples
     THEN pp' = StartBatch([pp EXCEPT !.offset = Advance(@)], pp.offset, BatchEnd(pp.offset))
     ELSE LET sorted == SortSeq(pp.samples, <) IN
          pp' = StartBatch([pp EXCEPT !.window = sorted[(Len(sorted) \div CoolestOf) + 1], !.needed = FALSE, !.sampling = FALSE, !.samples = <<>>], pp.begin, pp.end)
  /\ UNCHANGED <<frameVars, globalEpoch, outgoing, changes, visited, rewired>>

AtFrame == pp.pc = "visit" /\ pp.b_i <= Len(pp.batch)

\* The condition of the sampling traversal; FALSE ends the level
VisitSample ==
  LET f == pp.batch[pp.b_i] IN
  /\ AtFrame /\ pp.sampling
  /\ pp' = IF Len(pp.samples) = required_samples THEN [pp EXCEPT !.b_i = Len(pp.batch) + 1]
           ELSE [pp EXCEPT !.samples = IF Used(f) THEN Append(@, epoch[f]) ELSE @, !.pc = "follow"]
  /\ UNCHANGED <<frameVars, globalEpoch, outgoing, changes, visited, rewired>>

Wanted(f) == IF evict_to_ssd THEN epoch[f] <= pp.window ELSE f \in RemoteFrames /\ state[f] = "HOT"

\* The condition of the evicting traversal
VisitCandidate ==
  LET f == pp.batch[pp.b_i] IN
  /\ AtFrame /\ ~pp.sampling
  /\ visited' = visited \cup {f}
  /\ pp' = [pp EXCEPT !.pc = IF Used(f) /\ ~latched[f] /\ Wanted(f) THEN "remember" ELSE "follow"]
  /\ UNCHANGED <<frameVars, globalEpoch, outgoing, changes, rewired>>

\* The epoch is read once more
Remember ==
  LET f == pp.batch[pp.b_i] IN
  /\ pp.pc = "remember" /\ pp' = [pp EXCEPT !.candidates = Append(@, <<epoch[f], f>>), !.pc = "follow"]
  /\ UNCHANGED <<frameVars, globalEpoch, outgoing, changes, visited, rewired>>

\* Mutant: the next level is written where the present one is still read
FollowAhead ==
  LET f == next[pp.batch[pp.b_i]] IN
  /\ pp.pc = "follow"
  /\ pp' = [pp EXCEPT !.pc = "visit", !.b_i = @ + 1,
                      !.write_idx = IF f = NoFrame THEN @ ELSE @ + 1,
                      !.batch = IF f = NoFrame \/ pp.write_idx + 2 > Len(@) THEN @ ELSE [@ EXCEPT ![pp.write_idx + 2] = f]]
  /\ UNCHANGED <<frameVars, globalEpoch, outgoing, changes, visited, rewired>>

\* In place: the pointer overwrites an entry of this level that has been read
Follow ==
  LET f == next[pp.batch[pp.b_i]] IN
  /\ pp.pc = "follow"
  /\ pp' = [pp EXCEPT !.pc = "visit", !.b_i = @ + 1,
                      !.write_idx = IF f = NoFrame THEN @ ELSE @ + 1,
                      !.batch = IF f = NoFrame THEN @ ELSE [@ EXCEPT ![pp.write_idx + 1] = f]]
  /\ UNCHANGED <<frameVars, globalEpoch, outgoing, changes, visited, rewired>>

\* post_process_level begins; the sampling traversal has none
EndLevel ==
  /\ pp.pc = "visit" /\ pp.b_i > Len(pp.batch)
  /\ pp' = [pp EXCEPT !.c_i = 1, !.pc = IF pp.sampling THEN "nextlevel" ELSE "candidate"]
  /\ UNCHANGED <<frameVars, globalEpoch, outgoing, changes, visited, rewired>>

NextLevel ==
  /\ pp.pc = "nextlevel"
  /\ pp' = IF pp.write_idx > 0
           THEN [pp EXCEPT !.batch = SubSeq(@, 1, pp.write_idx), !.b_i = 1, !.write_idx = 0, !.c_i = 1, !.candidates = <<>>, !.pc = "visit"]
           ELSE [pp EXCEPT !.pc = IF pp.sampling THEN "sample" ELSE "round", !.batch = <<>>, !.b_i = 1, !.c_i = 1, !.candidates = <<>>]
  /\ UNCHANGED <<frameVars, globalEpoch, outgoing, changes, visited, rewired>>

Victim == pp.candidates[pp.c_i][2]
Skip(p) == [p EXCEPT !.c_i = @ + 1, !.pc = "candidate"]

\* optimisticLatchOrRestart
OptimisticLatch ==
  /\ pp.pc = "candidate"
  /\ IF pp.c_i > Len(pp.candidates) THEN pp' = [pp EXCEPT !.pc = "nextlevel"] /\ UNCHANGED moved
     ELSE IF latched[Victim] THEN pp' = Skip(pp) /\ UNCHANGED moved
     ELSE pp' = [pp EXCEPT !.pc = "recheck"] /\ moved' = [moved EXCEPT ![Victim] = FALSE]
  /\ UNCHANGED <<state, epoch, latched, next, globalEpoch, outgoing, changes, visited, rewired>>

Recheck ==
  /\ pp.pc = "recheck"
  /\ pp' = IF epoch[Victim] # pp.candidates[pp.c_i][1] \/ ~Used(Victim) THEN Skip(pp) ELSE [pp EXCEPT !.pc = "upgrade"]
  /\ UNCHANGED <<frameVars, globalEpoch, outgoing, changes, visited, rewired>>

\* optimisticUpgradeToExclusive
Upgrade ==
  /\ pp.pc = "upgrade"
  /\ IF latched[Victim] \/ moved[Victim]
     THEN pp' = Skip(pp) /\ UNCHANGED latched
     ELSE latched' = [latched EXCEPT ![Victim] = TRUE] /\ pp' = [pp EXCEPT !.pc = "evict"]
  /\ UNCHANGED <<state, epoch, moved, next, globalEpoch, outgoing, changes, visited, rewired>>

Unlatch(f) == latched' = [latched EXCEPT ![f] = FALSE] /\ moved' = [moved EXCEPT ![f] = pp.pc \in {"recheck", "upgrade"}]

\* Unlinks f from its chain; a head stays where it is (removeFrame, BufferFrame::reset)
Unlink(f) ==
  IF f \in Heads THEN UNCHANGED next
  ELSE next' = [g \in Frames |-> IF g = f THEN NoFrame ELSE IF next[g] = f THEN next[f] ELSE next[g]]

\* A page of this node: removed, evicted with the frame kept, left as it is, or "dirty, and the write buffer is full"
EvictOwnerPage(outcome) ==
  LET f == Victim IN
  /\ pp.pc = "evict" /\ f \notin RemoteFrames
  /\ outcome \in {"removed", "evicted"} => state[f] = "HOT" /\ (outcome = "removed" => evict_to_ssd)
  /\ outcome = "full" => evict_to_ssd
  /\ Unlatch(f)
  /\ state' = [state EXCEPT ![f] = CASE outcome = "removed" -> "FREE" [] outcome = "evicted" -> "EVICTED" [] OTHER -> @]
  /\ IF outcome = "removed" THEN Unlink(f) /\ rewired' = TRUE ELSE UNCHANGED <<next, rewired>>
  /\ pp' = IF outcome = "full" THEN [pp EXCEPT !.pc = "nextlevel"] ELSE Skip(pp)
  /\ UNCHANGED <<epoch, globalEpoch, outgoing, changes, visited>>

\* A page of another node goes into the request; its frame stays latched.
EvictRemotePage ==
  LET f == Victim IN
  /\ pp.pc = "evict" /\ f \in RemoteFrames
  /\ IF Cardinality(outgoing) = MaxOutgoing
     THEN Unlatch(f) /\ outgoing' = outgoing /\ pp' = [pp EXCEPT !.pc = "nextlevel"]
     ELSE outgoing' = outgoing \cup {f} /\ UNCHANGED <<latched, moved>> /\ pp' = Skip(pp)
  /\ UNCHANGED <<state, epoch, next, globalEpoch, changes, visited, rewired>>

\* Phase 5 of a later round: the owner agreed, and the frame is removed; or it did not.
Answered(f, agreed) ==
  /\ pp.pc = "round" /\ f \in outgoing
  /\ outgoing' = outgoing \ {f} /\ Unlatch(f)
  /\ state' = [state EXCEPT ![f] = IF agreed THEN "FREE" ELSE @]
  /\ IF agreed THEN Unlink(f) ELSE UNCHANGED next
  /\ UNCHANGED <<epoch, globalEpoch, changes, pp, visited, rewired>>

-----------------------------------------------------------------------------
(* Workers *)

Change == changes < MaxChanges /\ changes' = changes + 1 /\ UNCHANGED <<globalEpoch, outgoing, pp, visited>>

\* A fix under a shared or optimistic latch gives the frame the present epoch.
Touch(f) ==
  /\ Change /\ state[f] = "HOT" /\ ~latched[f] /\ epoch[f] # globalEpoch
  /\ epoch' = [epoch EXCEPT ![f] = globalEpoch]
  /\ UNCHANGED <<state, latched, moved, next, rewired>>

Tails(b) == {f \in Frames : next[f] = NoFrame /\ (f = b \/ \E g \in Frames : next[g] = f /\ (g = b \/ next[b] = g))}

\* Where a page of bucket b is inserted: into the head, or an unused frame linked at the end of the chain
InsertFrame(b, f) ==
  /\ Change /\ state[f] = "FREE" /\ ~latched[f]
  /\ \/ f = b /\ UNCHANGED <<next, rewired>>
     \/ /\ f \notin Heads /\ next[f] = NoFrame /\ \A g \in Frames : next[g] # f
        /\ Used(b) /\ \E t \in Tails(b) : next' = [next EXCEPT ![t] = f]
        /\ rewired' = TRUE
  /\ latched' = [latched EXCEPT ![f] = TRUE] /\ state' = [state EXCEPT ![f] = "IO_RDMA"]
  /\ epoch' = [epoch EXCEPT ![f] = globalEpoch] /\ UNCHANGED moved

LatchedByWorker(f) == latched[f] /\ f \notin outgoing /\ ~(pp.pc = "evict" /\ Victim = f)

\* A worker that holds the latch releases it: page present; or no copy was to be had and the handler waits for the frame
UnlatchFrame(f, to) ==
  /\ Change /\ LatchedByWorker(f) /\ Unlatch(f)
  /\ to = "IO_RDMA" => f \in RemoteFrames /\ state[f] = "IO_RDMA"
  /\ state' = [state EXCEPT ![f] = to] /\ UNCHANGED <<epoch, next, rewired>>

LatchFrame(f) ==
  /\ Change /\ ~latched[f] /\ Used(f) /\ latched' = [latched EXCEPT ![f] = TRUE]
  /\ UNCHANGED <<state, epoch, moved, next, rewired>>

\* reclaimPage, or the page is given away to another node; one page of the partition stays in use
RemoveFrame(f) ==
  /\ Change /\ (\E g \in Frames \ {f} : Used(g)) /\ LatchedByWorker(f) /\ state[f] = "HOT"
  /\ state' = [state EXCEPT ![f] = "FREE"] /\ Unlatch(f) /\ Unlink(f)
  /\ rewired' = TRUE /\ UNCHANGED epoch

Provider ==
  \/ \E i \in BOOLEAN : Round(i)
  \/ Sample \/ VisitSample \/ VisitCandidate \/ Remember \/ Follow \/ EndLevel \/ NextLevel
  \/ OptimisticLatch \/ Recheck \/ Upgrade \/ EvictRemotePage
  \/ \E o \in {"removed", "evicted", "kept", "full"} : EvictOwnerPage(o)

Workers ==
  \/ \E f \in Frames : Touch(f) \/ LatchFrame(f) \/ RemoveFrame(f) \/ \E to \in {"HOT", "IO_RDMA"} : UnlatchFrame(f, to)
  \/ \E b \in Heads, f \in Frames : InsertFrame(b, f)

Next == Provider \/ Workers \/ \E f \in Frames, a \in BOOLEAN : Answered(f, a)

Spec == Init /\ [][Next]_vars

-----------------------------------------------------------------------------
(* Properties *)

\* The ensures behind optimisticUpgradeToExclusive: a frame that could be latched with the version of before is still in
\* use, although it was chosen and tested without a latch.
VictimIsUsed == pp.pc = "evict" => Used(Victim)

\* A sweep during which no chain was changed has looked at every frame of its buckets, whatever was latched or touched.
Chain(b) == {b} \cup {f \in Frames : next[b] = f \/ \E g \in Frames : next[b] = g /\ next[g] = f}
SweepIsComplete ==
  [][pp.pc = "nextlevel" /\ pp'.pc = "round" /\ ~rewired
       => \A b \in pp.begin .. pp.end - 1 : Chain(b) \subseteq visited]_vars

\* The loop that collects samples ends while the partition has a page: it wraps around as often as needed.
SamplingEnds == []<>(~pp.sampling)
=============================================================================
