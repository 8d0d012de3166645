----------------------------- MODULE MCMessaging -----------------------------
(***************************************************************************)
(* The threads of the message handler and of the page provider, the queue  *)
(* pairs they use and the pages they hand on, on small instances.  A       *)
(* behaviour is one of a part: the others keep their initial state.  The   *)
(* theorems behind the properties hold for any number of threads, workers, *)
(* pages and connections, and for every size of the queues.                *)
(***************************************************************************)
EXTENDS Integers, Sequences, FiniteSetTheorems, TLAPS

CONSTANTS
  Parts,
  Threads, Clients, MaxRequests, MaxRetries,                            \* MailboxLoop
  BatchPage, BatchSize, MinOutgoing, FailLimit, MaxFetches, None,       \* EvictionBatch
  MaxOutstanding, Garbage, MaxWrites, MaxQueue,                         \* EvictionQueuePair
  Buckets, Overflow, RemoteFrames, pp_batch_size, required_samples,     \* EvictionSweep
  CoolestOf, evict_to_ssd, MaxOutgoing, MinUsed, MaxEpoch, MaxChanges,
  Conn, ReusePage, pollingInterval, EvictCopies                         \* PageReuse

(***************************************************************************)
(* There is a message handler thread, write requests can be outstanding,   *)
(* and the handler polls after some number of posts: the defaults of       *)
(* FLAGS_messageHandlerThreads, maxOutstandingWrites and                   *)
(* FLAGS_pollingInterval are 4, 32 and 16, and the code divides by each or *)
(* counts up to it.                                                        *)
(***************************************************************************)
ASSUME MailboxAssumption == Threads \in Nat \ {0} /\ Clients \in Nat
ASSUME QueueAssumption == MaxOutstanding \in Nat \ {0}

VARIABLES
  part,       \* the one that runs
  \* MailboxLoop
  mailbox, client, loop, reads, connected, running,
  \* EvictionBatch
  frame, dir, batchOutgoing, failed, inflight, prev, expected, request, reading, slots, response, fetches,
  aborted,
  \* EvictionQueuePair
  sq, cq, queueWqe, readScheduled, readCompleted, pollCompleted, responseOutstanding, pc, back, early, writes,
  \* EvictionSweep
  state, epoch, latched, moved, next, globalEpoch, sweepOutgoing, changes, pp, visited, rewired,
  \* PageReuse
  reuseWqe, posts, comps, active, passive, pending, resident, free, waits

mailboxVars == <<mailbox, client, loop, reads, connected, running>>
batchVars == <<frame, dir, batchOutgoing, failed, inflight, prev, expected, request, reading, slots, response,
               fetches, aborted>>
queueVars == <<sq, cq, queueWqe, readScheduled, readCompleted, pollCompleted, responseOutstanding, pc, back,
               early, writes>>
sweepVars == <<state, epoch, latched, moved, next, globalEpoch, sweepOutgoing, changes, pp, visited, rewired>>
reuseVars == <<reuseWqe, posts, comps, active, passive, pending, resident, free, waits>>
vars == <<part, mailboxVars, batchVars, queueVars, sweepVars, reuseVars>>

M == INSTANCE MailboxLoop
E == INSTANCE EvictionBatch WITH Page <- BatchPage, outgoing <- batchOutgoing
Q == INSTANCE EvictionQueuePair WITH wqe <- queueWqe
S == INSTANCE EvictionSweep WITH outgoing <- sweepOutgoing
R == INSTANCE PageReuse WITH P <- pollingInterval, Conns <- Conn, Pages <- ReusePage, wqe <- reuseWqe

\* None, which stands for an owner that has no batch, is no set of pages
ASSUME BatchAssumption == BatchSize \in Nat /\ \A read \in SUBSET BatchPage : read # None

\* a partition of the page table has a bucket, and the heads of the buckets are frames
ASSUME SweepAssumption == Buckets \in Nat \ {0} /\ Overflow \in Nat /\ pp_batch_size \in Nat

ASSUME ReuseAssumption == pollingInterval \in Nat \ {0} /\ R!NoPage \notin ReusePage

\* only the part p runs
Rest(p) == /\ IF p = "mailboxes" THEN TRUE ELSE UNCHANGED mailboxVars
           /\ IF p = "batches" THEN TRUE ELSE UNCHANGED batchVars
           /\ IF p = "queue pair" THEN TRUE ELSE UNCHANGED queueVars
           /\ IF p = "sweep" THEN TRUE ELSE UNCHANGED sweepVars
           /\ IF p = "reuse" THEN TRUE ELSE UNCHANGED reuseVars
           /\ UNCHANGED part

Init == /\ part \in Parts
        /\ M!Init /\ E!Init /\ Q!Init /\ S!Init /\ R!Init

Mailboxes == part = "mailboxes" /\ M!Next /\ Rest("mailboxes")
Batches == part = "batches" /\ E!Next /\ Rest("batches")
QueuePair == part = "queue pair" /\ Q!Next /\ Rest("queue pair")
Sweep == part = "sweep" /\ S!Next /\ Rest("sweep")
Reuse == part = "reuse" /\ R!Next /\ Rest("reuse")

Next == Mailboxes \/ Batches \/ QueuePair \/ Sweep \/ Reuse

-----------------------------------------------------------------------------
(* Fairness *)

\* handler threads run, the SSD answers, and workers end and are followed by the end of the handler
MailboxStep(t) == part = "mailboxes" /\ M!Step(t) /\ Rest("mailboxes")
ReadsEnd(t) == part = "mailboxes" /\ M!ReadsEnd(t) /\ Rest("mailboxes")
WorkerEnds(c) == part = "mailboxes" /\ M!Finish(c) /\ Rest("mailboxes")
HandlerStops == part = "mailboxes" /\ M!StopThread /\ Rest("mailboxes")

\* both page providers go through their phases again and again
NodeStep == part = "batches" /\ ~ aborted /\ E!Node /\ Rest("batches")
OwnerStep == part = "batches" /\ ~ aborted /\ E!Owner /\ Rest("batches")

\* the network card completes what is posted, and the thread of the page provider runs
CardCompletes == part = "queue pair" /\ Q!Complete /\ Rest("queue pair")
QueueWait == part = "queue pair" /\ (Q!WaitRead \/ Q!WaitWrite) /\ Rest("queue pair")
QueueStep == part = "queue pair" /\ Q!Step /\ Rest("queue pair")
CardFinishes(c) == part = "reuse" /\ R!Finish(c) /\ Rest("reuse")
ReusePoll(c) == part = "reuse" /\ R!Poll(c) /\ Rest("reuse")

\* the provider's thread runs on; workers may stop
Provider == part = "sweep" /\ S!Provider /\ Rest("sweep")

Fairness ==
  /\ \A t \in M!Thread : WF_vars(MailboxStep(t)) /\ SF_vars(ReadsEnd(t))
  /\ \A c \in M!Client : WF_vars(WorkerEnds(c))
  /\ WF_vars(HandlerStops)
  /\ WF_vars(NodeStep) /\ WF_vars(OwnerStep)
  /\ WF_vars(CardCompletes) /\ WF_vars(QueueWait) /\ WF_vars(QueueStep)
  /\ \A c \in Conn : WF_vars(CardFinishes(c)) /\ WF_vars(ReusePoll(c))
  /\ WF_vars(Provider)

Spec == Init /\ [][Next]_vars /\ Fairness

-----------------------------------------------------------------------------
(* Properties *)

(***************************************************************************)
(* A request is answered once: its worker gets as many answers as it sent  *)
(* requests and waits only while its message is in its mailbox, in the     *)
(* hands of the one thread of its partition, or behind a read from the SSD *)
(* (MessageHandler::startThread).                                          *)
(***************************************************************************)
OneAnswerPerRequest == M!OneAnswerPerRequest

(***************************************************************************)
(* What the owner has taken over is removed from the node when the answer  *)
(* has been collected, although answers are written over the entries of    *)
(* older ones: no node keeps a page of which the owner no longer knows.    *)
(* Until then the frames of a batch are latched, each in one batch.        *)
(***************************************************************************)
NoOrphanFrame == E!NoOrphanFrame /\ E!BatchIsLatched

\* A page the owner has not taken over stays on the node: the owner counts on this copy, which may be the
\* only one (PageProvider.cpp, phase 5).
NoLostPage == E!NoLostPage

(***************************************************************************)
(* The answer to an eviction request is written only when the pages have   *)
(* been read, whoever polls the completion of the reads: the other node    *)
(* frees them as soon as it has the answer.  One signalled write in        *)
(* maxOutstandingWrites keeps the send queue short although the count      *)
(* starts again whenever a read has completed.                             *)
(***************************************************************************)
ResponseAfterRead == Q!ResponseAfterRead /\ Q!SendQueueIsBounded

(***************************************************************************)
(* A sweep of the page table during which no chain was changed has looked  *)
(* at every frame of its buckets, although levels are collected in place;  *)
(* and a frame that was chosen without latch and could be latched with the *)
(* version of before is still in use.                                      *)
(***************************************************************************)
SweepIsComplete == S!SweepIsComplete /\ [](part = "sweep" => S!VictimIsUsed)

(***************************************************************************)
(* A page on the free list is not the source of a write that the network   *)
(* card may still read: it is handed out only after the completion that    *)
(* follows the write.  The batches of invalidated pages never exceed their *)
(* arrays, and every page is in one place.                                 *)
(***************************************************************************)
NoReuseInFlight == R!NoReuseInFlight /\ R!BatchFits /\ R!PagesAreConserved

(***************************************************************************)
(* Nobody waits for ever: handler threads end when the workers, whose      *)
(* requests are all answered, have finished; a victim is released however  *)
(* small its batch is; a batch is answered whoever takes the completion of *)
(* its reads; the loop that collects samples ends; and a poll for a        *)
(* completion gets one.                                                    *)
(***************************************************************************)
WaitsEnd ==
  /\ <>[](part = "mailboxes" => \A t \in M!Thread : loop[t].pc = "ended")
  /\ E!VictimIsReleased /\ Q!BatchIsAnswered /\ S!SamplingEnds /\ R!PollEnds
-----------------------------------------------------------------------------
(* Proofs *)

(* A step of the composition is a step of one part and none of the others. *)
LEMMA MessagingParts ==
  [Next]_vars => /\ [M!Next]_mailboxVars /\ [E!Next]_batchVars /\ [Q!Next]_queueVars /\ [R!Next]_reuseVars
                 /\ [S!Next]_sweepVars
BY DEF Next, vars, Mailboxes, Batches, QueuePair, Sweep, Reuse, Rest

(* Sequences at their ends *)
(* Completions are taken from the front of a queue ... *)
LEMMA TailOf ==
  ASSUME NEW T, NEW s \in Seq(T), s # <<>>
  PROVE  /\ Tail(s) \in Seq(T) /\ Len(Tail(s)) = Len(s) - 1 /\ Len(s) \in Nat \ {0}
         /\ Head(s) = s[1] /\ \A i \in 1..Len(Tail(s)) : Tail(s)[i] = s[i + 1]
OBVIOUS

(* ... and work requests, completions and pages put at its end. *)
LEMMA AppendOf ==
  ASSUME NEW T, NEW s \in Seq(T), NEW e \in T
  PROVE  /\ Append(s, e) \in Seq(T) /\ Len(Append(s, e)) = Len(s) + 1 /\ Len(s) \in Nat
         /\ Append(s, e)[Len(s) + 1] = e /\ \A i \in 1..Len(s) : Append(s, e)[i] = s[i]
OBVIOUS

(* Sequences with the same elements are the same. *)
LEMMA SameSequence ==
  ASSUME NEW T, NEW s \in Seq(T), NEW z \in Seq(T), Len(s) = Len(z), \A i \in 1..Len(s) : s[i] = z[i]
  PROVE  s = z
OBVIOUS

-----------------------------------------------------------------------------
(* The mailboxes of the message handler *)

(* Every thread has a range of mailboxes, and the ranges are disjoint. *)
LEMMA RangesAreDisjoint ==
  ASSUME NEW B \in Nat, NEW t \in Nat, NEW u \in Nat, t < u
  PROVE  t * B + B <= u * B
<1>1. u = t + 1 + (u - t - 1) /\ u - t - 1 \in Nat
  OBVIOUS
<1>2. \A k \in Nat : k * B >= 0 /\ (t + 1 + k) * B = t * B + B + k * B
  OBVIOUS
<1> QED
  BY <1>1, <1>2

(* The blocks of all threads are no more than the mailboxes. *)
LEMMA Division ==
  ASSUME NEW n \in Nat, NEW d \in Nat \ {0}
  PROVE  n \div d \in Nat /\ d * (n \div d) <= n
OBVIOUS

(* startThread gives every thread its block of mailboxes, the last one the rest: they do not overlap. *)
LEMMA Sections ==
  ASSUME NEW t \in M!Thread
  PROVE  /\ M!BlockSize \in Nat /\ M!BeginId(t) \in Nat /\ M!BeginId(t) <= Clients
         /\ M!NumberMailboxes(t) \in Int /\ M!BeginId(t) + M!NumberMailboxes(t) <= Clients
         /\ \A u \in M!Thread : t < u => M!BeginId(t) + M!NumberMailboxes(t) <= M!BeginId(u)
<1> DEFINE B == M!BlockSize
<1>1. B \in Nat /\ Threads * B <= Clients
  BY MailboxAssumption, Division DEF M!BlockSize
<1>2. t \in Nat /\ t < Threads /\ \A u \in M!Thread : u \in Nat /\ u < Threads
  BY MailboxAssumption DEF M!Thread
<1> HIDE DEF B
<1>3. t * B \in Nat /\ t * B + B <= Threads * B
  BY <1>1, <1>2, MailboxAssumption, RangesAreDisjoint
<1>4. M!BeginId(t) = t * B /\ M!BlockSize = B
  BY DEF M!BeginId, B
<1>5. M!NumberMailboxes(t) = (IF t = Threads - 1 THEN Clients ELSE t * B + B) - t * B
  BY <1>4 DEF M!NumberMailboxes
<1>6. ASSUME NEW u \in M!Thread, t < u
      PROVE  M!BeginId(t) + M!NumberMailboxes(t) <= M!BeginId(u)
  <2>1. t # Threads - 1 /\ u \in Nat
    BY <1>2, <1>6, MailboxAssumption
  <2>2. M!BeginId(u) = u * B /\ t * B + B <= u * B
    BY <1>1, <1>2, <1>6, RangesAreDisjoint DEF M!BeginId, B
  <2>3. u * B \in Nat
    BY <1>1, <2>1
  <2> QED
    BY <1>1, <1>3, <1>4, <1>5, <2>1, <2>2, <2>3
<1> QED
  BY <1>1, <1>3, <1>4, <1>5, <1>6, MailboxAssumption

(* The variables of the mailboxes have these values. *)
MailTypes ==
  /\ mailbox \in [M!Client -> {0, 1}]
  /\ client \in [M!Client -> [state : {"idle", "waits", "finished"}, sent : Nat, retries : Nat,
                              answers : Int]]
  /\ loop \in [M!Thread -> [pc : {"visit", "handle", "ended"}, m : Nat, idx : Nat, start : Nat]]
  /\ reads \in SUBSET M!Client

(* A thread handles a message of its own mailboxes. *)
InOwnSection == \A t \in M!Thread : loop[t].pc = "handle" => loop[t].idx < M!NumberMailboxes(t)

(* The message of worker c is in the hands of a thread. *)
Held(c) == \E t \in M!Thread : M!Handling(t, c)

(* The message of a worker that waits is in one place, that of a worker that does not is nowhere *)
(* and a worker that has finished waits for no page.                        *)
MessageIsOnce ==
  \A c \in M!Client :
    /\ client[c].state = "waits" => \/ mailbox[c] = 1 /\ ~Held(c) /\ c \notin reads
                                    \/ mailbox[c] = 0 /\ Held(c) /\ c \notin reads
                                    \/ mailbox[c] = 0 /\ ~Held(c) /\ c \in reads
    /\ client[c].state = "idle" => mailbox[c] = 0 /\ ~Held(c) /\ c \notin reads
    /\ client[c].state = "finished" => c \notin reads
    /\ client[c].answers = client[c].sent - (IF client[c].state = "waits" THEN 1 ELSE 0)

(* The invariant of the mailboxes *)
MailInv == MailTypes /\ InOwnSection /\ MessageIsOnce

(* A mailbox is in the range of one thread. *)
LEMMA OneHandler ==
  ASSUME MailInv, NEW c \in M!Client, NEW t \in M!Thread, NEW u \in M!Thread,
         M!Handling(t, c), M!Handling(u, c)
  PROVE  t = u
<1>1. /\ c = M!BeginId(t) + loop[t].idx /\ loop[t].idx < M!NumberMailboxes(t) /\ loop[t].idx \in Nat
      /\ c = M!BeginId(u) + loop[u].idx /\ loop[u].idx < M!NumberMailboxes(u) /\ loop[u].idx \in Nat
  BY DEF MailInv, MailTypes, InOwnSection, M!Handling, M!Here
<1>2. t \in Nat /\ u \in Nat
  BY MailboxAssumption DEF M!Thread
<1>3. ~(t < u) /\ ~(u < t)
  BY <1>1, <1>2, Sections
<1> QED
  BY <1>2, <1>3

(* The mailbox at which a thread stands is one of the handler's. *)
LEMMA HereIsAMailbox ==
  ASSUME MailInv, NEW t \in M!Thread, loop[t].idx < M!NumberMailboxes(t)
  PROVE  M!Here(t) \in M!Client
<1>1. loop[t].idx \in Nat
  BY DEF MailInv, MailTypes
<1> QED
  BY <1>1, Sections, MailboxAssumption DEF M!Here, M!Client

(* Thread t takes a step; the others stand where they were. *)
Alone(t) == \A u \in M!Thread : u # t => loop'[u] = loop[u]

(* What the other threads hold stays in their hands. *)
LEMMA HeldByOthers ==
  ASSUME MailInv, NEW t \in M!Thread, Alone(t), NEW c \in M!Client
  PROVE  /\ M!Handling(t, c) => (Held(c)' <=> M!Handling(t, c)')
         /\ ~M!Handling(t, c) => (Held(c)' <=> Held(c) \/ M!Handling(t, c)')
<1>1. \A u \in M!Thread : u # t => (M!Handling(u, c)' <=> M!Handling(u, c))
  BY DEF Alone, M!Handling, M!Here
<1>2. ASSUME M!Handling(t, c), NEW u \in M!Thread, M!Handling(u, c)
      PROVE  t = u
  BY <1>2, OneHandler
<1> QED
  BY <1>1, <1>2 DEF Held

(* No request has been sent at the start. *)
LEMMA MailInit == M!Init => MailInv
<1> SUFFICES ASSUME M!Init PROVE MailInv
  OBVIOUS
<1>1. MailTypes /\ InOwnSection
  BY DEF M!Init, MailTypes, InOwnSection
<1>2. \A c \in M!Client : ~Held(c)
  BY DEF M!Init, Held, M!Handling
<1> QED
  BY <1>1, <1>2 DEF M!Init, MailInv, MessageIsOnce

(* A worker sends a request, or that it has finished. *)
LEMMA WorkerSends ==
  ASSUME MailInv, NEW c \in M!Client, M!Send(c) \/ M!Finish(c)
  PROVE  MailInv'
<1> USE DEF MailInv, MailTypes
<1>1. /\ client[c].state = "idle" /\ mailbox' = [mailbox EXCEPT ![c] = 1] /\ UNCHANGED <<loop, reads>>
      /\ \/ client' = [client EXCEPT ![c].state = "waits", ![c].sent = @ + 1, ![c].retries = 0]
         \/ client' = [client EXCEPT ![c].state = "finished"]
  BY DEF M!Send, M!Finish
<1>2. /\ client' \in [M!Client -> [state : {"idle", "waits", "finished"}, sent : Nat, retries : Nat,
                                   answers : Int]]
      /\ \A d \in M!Client : d # c => client'[d] = client[d] /\ mailbox'[d] = mailbox[d]
      /\ mailbox'[c] = 1
      /\ \/ /\ client'[c].state = "waits" /\ client'[c].sent = client[c].sent + 1
            /\ client'[c].answers = client[c].answers
         \/ /\ client'[c].state = "finished" /\ client'[c].sent = client[c].sent
            /\ client'[c].answers = client[c].answers
  BY <1>1
<1>3. \A d \in M!Client : Held(d)' <=> Held(d)
  BY <1>1 DEF Held, M!Handling, M!Here
<1>4. MailTypes' /\ InOwnSection'
  BY <1>1, <1>2 DEF InOwnSection
<1>5. MessageIsOnce'
  BY <1>1, <1>2, <1>3 DEF MessageIsOnce
<1> QED
  BY <1>4, <1>5

(* A thread goes on to the next mailbox, or back to its first one. *)
LEMMA ThreadGoesOn ==
  ASSUME MailInv, NEW t \in M!Thread, M!Wrap(t) \/ M!Skip(t)
  PROVE  MailInv'
<1> USE DEF MailInv, MailTypes
<1>1. loop[t].pc = "visit" /\ UNCHANGED <<mailbox, client, reads>>
  BY DEF M!Wrap, M!Skip, M!AtMailbox
<1>2. /\ loop' \in [M!Thread -> [pc : {"visit", "handle", "ended"}, m : Nat, idx : Nat, start : Nat]]
      /\ loop'[t].pc = "visit" /\ Alone(t)
  <2>1. CASE M!Wrap(t)
    BY <2>1, <1>1 DEF M!Wrap, Alone
  <2>2. CASE M!Skip(t)
    BY <2>2, <1>1 DEF M!Skip, M!Advance, Alone
  <2> QED
    BY <2>1, <2>2
<1>3. \A d \in M!Client : Held(d)' <=> Held(d)
  <2> SUFFICES ASSUME NEW d \in M!Client PROVE Held(d)' <=> Held(d)
    OBVIOUS
  <2>1. ~M!Handling(t, d) /\ ~M!Handling(t, d)'
    BY <1>1, <1>2 DEF M!Handling
  <2> QED
    BY <1>2, <2>1, HeldByOthers
<1>4. MailTypes' /\ InOwnSection'
  BY <1>1, <1>2 DEF InOwnSection, Alone
<1>5. MessageIsOnce'
  BY <1>1, <1>3 DEF MessageIsOnce
<1> QED
  BY <1>4, <1>5

(* A thread takes a message out of its mailbox. *)
LEMMA MessageIsTaken ==
  ASSUME MailInv, NEW t \in M!Thread, M!TakeMessage(t)
  PROVE  MailInv'
<1> DEFINE h == M!Here(t)
<1> USE DEF MailInv, MailTypes
<1>1. /\ loop[t].pc = "visit" /\ loop[t].idx < M!NumberMailboxes(t) /\ mailbox[h] = 1
      /\ mailbox' = [mailbox EXCEPT ![h] = 0] /\ loop' = [loop EXCEPT ![t].pc = "handle"]
      /\ UNCHANGED <<client, reads>>
  BY DEF M!TakeMessage, M!AtMailbox
<1>2. h \in M!Client
  BY <1>1, HereIsAMailbox
<1>3. /\ loop' \in [M!Thread -> [pc : {"visit", "handle", "ended"}, m : Nat, idx : Nat, start : Nat]]
      /\ loop'[t].pc = "handle" /\ loop'[t].idx = loop[t].idx /\ Alone(t)
  BY <1>1 DEF Alone
<1>4. \A d \in M!Client : Held(d)' <=> (Held(d) \/ d = h)
  <2> SUFFICES ASSUME NEW d \in M!Client PROVE Held(d)' <=> (Held(d) \/ d = h)
    OBVIOUS
  <2>1. ~M!Handling(t, d) /\ (M!Handling(t, d)' <=> d = h)
    BY <1>1, <1>3 DEF M!Handling, M!Here
  <2> QED
    BY <1>3, <2>1, HeldByOthers
<1>5. /\ mailbox' \in [M!Client -> {0, 1}] /\ mailbox'[h] = 0
      /\ \A d \in M!Client : d # h => mailbox'[d] = mailbox[d]
  BY <1>1, <1>2
<1>6. MailTypes' /\ InOwnSection'
  BY <1>1, <1>3, <1>5 DEF InOwnSection, Alone
<1> HIDE DEF h
<1>7. MessageIsOnce'
  BY <1>1, <1>2, <1>4, <1>5 DEF MessageIsOnce
<1> QED
  BY <1>6, <1>7

(* What handling a message leaves of it: the thread goes on, the message is no longer in its hands. *)
LEMMA ThreadLetsGo ==
  ASSUME MailInv, NEW t \in M!Thread, NEW c \in M!Client, M!Handling(t, c), M!Advance(t)
  PROVE  /\ loop' \in [M!Thread -> [pc : {"visit", "handle", "ended"}, m : Nat, idx : Nat, start : Nat]]
         /\ InOwnSection'
         /\ Held(c) /\ ~Held(c)' /\ \A d \in M!Client : d # c => (Held(d)' <=> Held(d))
<1> USE DEF MailInv, MailTypes
<1>1. /\ loop[t].pc = "handle" /\ c = M!Here(t)
      /\ loop' = [loop EXCEPT ![t].pc = "visit", ![t].m = @ + 1, ![t].idx = @ + 1]
  BY DEF M!Handling, M!Advance
<1>2. /\ loop' \in [M!Thread -> [pc : {"visit", "handle", "ended"}, m : Nat, idx : Nat, start : Nat]]
      /\ loop'[t].pc = "visit" /\ Alone(t)
  BY <1>1 DEF Alone
<1>3. InOwnSection'
  BY <1>2 DEF InOwnSection, Alone
<1>4. \A d \in M!Client : ~M!Handling(t, d)' /\ (d # c => ~M!Handling(t, d))
  BY <1>1, <1>2 DEF M!Handling
<1>5. Held(c)
  BY DEF Held
<1> QED
  BY <1>2, <1>3, <1>4, <1>5, HeldByOthers

(* A message is answered, put back into its mailbox or put behind a read,   *)
(* or it was the last one of its worker.                                   *)
LEMMA MessageIsHandled ==
  ASSUME MailInv, NEW t \in M!Thread, M!Handle(t)
  PROVE  MailInv'
<1> USE DEF MailInv, MailTypes
<1>1. CASE M!HandleFinish(t)
  <2>1. PICK c \in M!Client : /\ M!Handling(t, c) /\ client[c].state = "finished" /\ M!Advance(t)
                              /\ UNCHANGED <<mailbox, client, reads>>
    BY <1>1 DEF M!HandleFinish
  <2>2. /\ MailTypes' /\ InOwnSection'
        /\ ~Held(c)' /\ \A d \in M!Client : d # c => (Held(d)' <=> Held(d))
    BY <2>1, ThreadLetsGo
  <2>3. MessageIsOnce'
    BY <2>1, <2>2 DEF MessageIsOnce
  <2> QED
    BY <2>2, <2>3
<1>2. CASE M!Reply(t)
  <2>1. PICK c \in M!Client : /\ M!Handling(t, c) /\ client[c].state # "finished" /\ M!Advance(t)
                              /\ client' = [client EXCEPT ![c].state = "idle", ![c].answers = @ + 1]
                              /\ UNCHANGED <<mailbox, reads>>
    BY <1>2 DEF M!Reply, M!Answer
  <2>2. /\ client' \in [M!Client -> [state : {"idle", "waits", "finished"}, sent : Nat, retries : Nat,
                                     answers : Int]]
        /\ client'[c].state = "idle" /\ client'[c].answers = client[c].answers + 1
        /\ client'[c].sent = client[c].sent
        /\ \A d \in M!Client : d # c => client'[d] = client[d]
    BY <2>1
  <2>3. /\ MailTypes' /\ InOwnSection'
        /\ Held(c) /\ ~Held(c)' /\ \A d \in M!Client : d # c => (Held(d)' <=> Held(d))
    BY <2>1, <2>2, ThreadLetsGo
  <2>4. client[c].state = "waits" /\ client[c].answers \in Int /\ client[c].sent \in Nat
    BY <2>1, <2>3 DEF MessageIsOnce
  <2>5. MessageIsOnce'
    BY <2>1, <2>2, <2>3, <2>4 DEF MessageIsOnce
  <2> QED
    BY <2>3, <2>5
<1>3. CASE M!PutBack(t) \/ M!AwaitRead(t)
  <2>1. PICK c \in M!Client :
          /\ M!Handling(t, c) /\ client[c].state # "finished" /\ M!Advance(t)
          /\ client' = [client EXCEPT ![c].retries = @ + 1]
          /\ \/ mailbox' = [mailbox EXCEPT ![c] = 1] /\ reads' = reads
             \/ mailbox' = mailbox /\ reads' = reads \cup {c}
    BY <1>3 DEF M!PutBack, M!AwaitRead
  <2>2. /\ client' \in [M!Client -> [state : {"idle", "waits", "finished"}, sent : Nat, retries : Nat,
                                     answers : Int]]
        /\ \A d \in M!Client : /\ client'[d].state = client[d].state /\ client'[d].sent = client[d].sent
                               /\ client'[d].answers = client[d].answers
    BY <2>1
  <2>3. /\ MailTypes' /\ InOwnSection'
        /\ Held(c) /\ ~Held(c)' /\ \A d \in M!Client : d # c => (Held(d)' <=> Held(d))
    BY <2>1, <2>2, ThreadLetsGo
  <2>4. client[c].state = "waits" /\ mailbox[c] = 0 /\ c \notin reads
    BY <2>1, <2>3 DEF MessageIsOnce
  <2>5. MessageIsOnce'
    BY <2>1, <2>2, <2>3, <2>4 DEF MessageIsOnce
  <2> QED
    BY <2>3, <2>5
<1> QED
  BY <1>1, <1>2, <1>3 DEF M!Handle

(* Behind a round: the messages whose pages have been read are in their mailboxes again. *)
LEMMA RoundEnds ==
  ASSUME MailInv, NEW t \in M!Thread, M!EndOfRound(t)
  PROVE  MailInv'
<1> USE DEF MailInv, MailTypes
<1>1. PICK gone \in SUBSET reads :
        /\ reads' = reads \ gone
        /\ mailbox' = [c \in M!Client |-> IF c \in gone THEN 1 ELSE mailbox[c]]
  BY DEF M!EndOfRound
<1>2. /\ loop[t].pc = "visit" /\ client' = client
      /\ \E s \in Nat, p \in {"visit", "ended"} :
           loop' = [loop EXCEPT ![t] = [pc |-> p, m |-> 0, idx |-> s, start |-> s]]
  <2> DEFINE s == IF loop[t].start < M!NumberMailboxes(t) THEN loop[t].start + 1 ELSE M!NumberMailboxes(t)
             p == IF running \/ connected > 0 THEN "visit" ELSE "ended"
  <2>1. /\ loop[t].pc = "visit" /\ client' = client /\ loop[t].m = M!NumberMailboxes(t)
        /\ loop' = [loop EXCEPT ![t] = [pc |-> p, m |-> 0, idx |-> s, start |-> s]]
    BY DEF M!EndOfRound
  <2>2. s \in Nat /\ p \in {"visit", "ended"}
    BY <2>1
  <2> HIDE DEF s, p
  <2> QED
    BY <2>1, <2>2
<1>3. /\ loop' \in [M!Thread -> [pc : {"visit", "handle", "ended"}, m : Nat, idx : Nat, start : Nat]]
      /\ loop'[t].pc # "handle" /\ Alone(t)
  BY <1>2 DEF Alone
<1>4. MailTypes' /\ InOwnSection'
  BY <1>1, <1>2, <1>3 DEF InOwnSection, Alone
<1>5. \A d \in M!Client : Held(d)' <=> Held(d)
  <2> SUFFICES ASSUME NEW d \in M!Client PROVE Held(d)' <=> Held(d)
    OBVIOUS
  <2>1. ~M!Handling(t, d) /\ ~M!Handling(t, d)'
    BY <1>2, <1>3 DEF M!Handling
  <2> QED
    BY <1>3, <2>1, HeldByOthers
<1>6. MessageIsOnce'
  BY <1>1, <1>2, <1>5 DEF MessageIsOnce
<1> QED
  BY <1>4, <1>6

(* Every step of workers and handler threads keeps the invariant. *)
LEMMA MailSteps == MailInv /\ [M!Next]_mailboxVars => MailInv'
<1> SUFFICES ASSUME MailInv, [M!Next]_mailboxVars PROVE MailInv'
  OBVIOUS
<1>1. CASE UNCHANGED <<mailbox, client, loop, reads>>
  <2>1. \A d \in M!Client : Held(d)' <=> Held(d)
    BY <1>1 DEF Held, M!Handling, M!Here
  <2> QED
    BY <1>1, <2>1 DEF MailInv, MailTypes, InOwnSection, MessageIsOnce
<1>2. CASE \E c \in M!Client : M!Send(c) \/ M!Finish(c)
  BY <1>2, WorkerSends
<1>3. CASE \E t \in M!Thread : M!Step(t)
  BY <1>3, ThreadGoesOn, MessageIsTaken, MessageIsHandled, RoundEnds DEF M!Step
<1> QED
  BY <1>1, <1>2, <1>3 DEF M!Next, M!StopThread, mailboxVars

(* One message, one place. *)
LEMMA MailIsAnsweredOnce == MailInv => OneAnswerPerRequest
<1> SUFFICES ASSUME MailInv, NEW c \in M!Client
             PROVE  /\ client[c].answers = client[c].sent - (IF client[c].state = "waits" THEN 1 ELSE 0)
                    /\ client[c].state = "waits" =>
                         mailbox[c] + M!Cardinality({t \in M!Thread : M!Handling(t, c)})
                           + (IF c \in reads THEN 1 ELSE 0) = 1
  BY DEF OneAnswerPerRequest, M!OneAnswerPerRequest
<1> DEFINE H == {t \in M!Thread : M!Handling(t, c)}
<1>1. M!Cardinality(H) = Cardinality(H)
  BY DEF M!Cardinality, Cardinality
<1>2. Held(c) => Cardinality(H) = 1
  <2> SUFFICES ASSUME Held(c) PROVE Cardinality(H) = 1
    OBVIOUS
  <2>1. PICK t \in M!Thread : M!Handling(t, c)
    BY DEF Held
  <2>2. H = {t}
    BY <2>1, OneHandler
  <2> QED
    BY <2>2, FS_Singleton
<1>3. ~Held(c) => Cardinality(H) = 0
  <2> SUFFICES ASSUME ~Held(c) PROVE Cardinality(H) = 0
    OBVIOUS
  <2>1. H = {}
    BY DEF Held
  <2> QED
    BY <2>1, FS_EmptySet
<1> HIDE DEF H
<1>4. client[c].state = "waits" => mailbox[c] + Cardinality(H) + (IF c \in reads THEN 1 ELSE 0) = 1
  BY <1>2, <1>3 DEF MailInv, MessageIsOnce
<1> QED
  BY <1>1, <1>4 DEF MailInv, MessageIsOnce, H

(***************************************************************************)
(* A request is answered once, for any number of threads and workers: the  *)
(* message of a worker that waits is in one place, because the sections of *)
(* the threads are disjoint (MessageHandler::startThread).                 *)
(***************************************************************************)
THEOREM RequestsAreAnsweredOnce == Spec => []OneAnswerPerRequest
<1>1. Init => M!Init
  BY DEF Init
<1> QED
  BY <1>1, MailInit, MailSteps, MailIsAnsweredOnce, MessagingParts, PTL DEF Spec

-----------------------------------------------------------------------------
(* The queue pair of a page provider *)

(* What can be in the send queue *)
WorkRequest == [op : {"read", "write"}, signaled : BOOLEAN]

(* What can be in the completion queue *)
NoneDone == <<>>
ReadDone == <<"read">>
WriteDone == <<"write">>
BothDone == <<"read", "write">>

(* These are different, and completions are added and taken one by one. *)
LEMMA Completions ==
  /\ NoneDone # ReadDone /\ NoneDone # WriteDone /\ NoneDone # BothDone
  /\ ReadDone # WriteDone /\ ReadDone # BothDone /\ WriteDone # BothDone
  /\ Append(NoneDone, "read") = ReadDone /\ Append(NoneDone, "write") = WriteDone
  /\ Append(ReadDone, "write") = BothDone
  /\ Tail(ReadDone) = NoneDone /\ Tail(WriteDone) = NoneDone /\ Tail(BothDone) = WriteDone
  /\ Head(ReadDone) = "read" /\ Head(WriteDone) = "write" /\ Head(BothDone) = "read"
  /\ Len(NoneDone) = 0 /\ Len(ReadDone) = 1
<1> USE DEF NoneDone, ReadDone, WriteDone, BothDone
<1>1. /\ NoneDone # ReadDone /\ NoneDone # WriteDone /\ NoneDone # BothDone
      /\ ReadDone # WriteDone /\ ReadDone # BothDone /\ WriteDone # BothDone
  OBVIOUS
<1>2. Append(NoneDone, "read") = ReadDone /\ Append(NoneDone, "write") = WriteDone
  OBVIOUS
<1>3. Append(ReadDone, "write") = BothDone
  <2> DEFINE a == Append(ReadDone, "write")
             b == BothDone
  <2>1. ReadDone \in Seq({"read", "write"}) /\ Len(ReadDone) = 1 /\ ReadDone[1] = "read"
    OBVIOUS
  <2>2. a \in Seq({"read", "write"}) /\ Len(a) = 2 /\ a[1] = "read" /\ a[2] = "write"
    BY ONLY <2>1, AppendOf
  <2>3. b \in Seq({"read", "write"}) /\ Len(b) = 2 /\ b[1] = "read" /\ b[2] = "write"
    OBVIOUS
  <2> HIDE DEF a, b
  <2>4. Len(a) = Len(b) /\ \A i \in 1..Len(a) : a[i] = b[i]
    BY ONLY <2>2, <2>3
  <2>5. a = b
    BY ONLY <2>2, <2>3, <2>4, SameSequence
  <2> QED
    BY ONLY <2>5 DEF a, b
<1>4. Tail(ReadDone) = NoneDone /\ Tail(WriteDone) = NoneDone
  OBVIOUS
<1>5. Tail(BothDone) = WriteDone
  OBVIOUS
<1>6. /\ Head(ReadDone) = "read" /\ Head(WriteDone) = "write" /\ Head(BothDone) = "read"
      /\ Len(NoneDone) = 0 /\ Len(ReadDone) = 1
  OBVIOUS
<1> QED
  BY <1>1, <1>2, <1>3, <1>4, <1>5, <1>6

(* The variables of the queue pair have these values. *)
QueueTypes ==
  /\ sq \in Seq(WorkRequest) /\ queueWqe \in 0..MaxOutstanding
  /\ readScheduled \in BOOLEAN /\ readCompleted \in BOOLEAN /\ responseOutstanding \in BOOLEAN
  /\ pc \in {"p1", "wait", "p6", "respond"} /\ back \in {"p1", "p6"}
  /\ ~pollCompleted /\ ~early

(* The entries up to n: only a read is signalled. *)
Unsignaled(n) == \A i \in 1..n : sq[i].signaled <=> sq[i].op = "read"

(* A signalled write is waited for, so that it is the last entry and its    *)
(* completion the last one.                                                *)
OneSignaledWrite ==
  \/ /\ pc # "wait" /\ Unsignaled(Len(sq)) /\ (cq = NoneDone \/ cq = ReadDone)
  \/ /\ pc = "wait" /\ queueWqe = MaxOutstanding /\ (cq = NoneDone \/ cq = ReadDone)
     /\ sq # <<>> /\ Unsignaled(Len(sq) - 1) /\ sq[Len(sq)] = [op |-> "write", signaled |-> TRUE]
  \/ /\ pc = "wait" /\ queueWqe = MaxOutstanding /\ (cq = WriteDone \/ cq = BothDone)
     /\ sq = <<>>

(* No read is posted. *)
NoReads == \A i \in 1..Len(sq) : sq[i].op = "write"

(* the write that is waited for *)
Extra == IF pc = "wait" THEN 1 ELSE 0

(* A batch is being read until the completion has been polled ... *)
Reads == readScheduled /\ ~readCompleted /\ pc # "respond"

(* ... and the read is in the send queue, or its completion is there, and   *)
(* with it all that was posted before has left the queue.                  *)
ReadIsPosted ==
  \E k \in 1..Len(sq) : /\ sq[k].op = "read" /\ Len(sq) - k <= queueWqe + Extra
                        /\ \A i \in 1..Len(sq) : i # k => sq[i].op = "write"

(* A batch that is being read has its read in one place, and no other batch has one. *)
ReadIsSomewhere ==
  \/ /\ Reads /\ (cq = NoneDone \/ cq = WriteDone) /\ ReadIsPosted
     /\ Len(sq) <= MaxOutstanding + queueWqe + 1 + Extra
  \/ /\ Reads /\ (cq = ReadDone \/ cq = BothDone)
     /\ NoReads /\ Len(sq) <= queueWqe + Extra
  \/ /\ ~Reads /\ (cq = NoneDone \/ cq = WriteDone)
     /\ NoReads /\ Len(sq) <= MaxOutstanding + queueWqe + Extra

(* The invariant of the queue pair *)
QueueInv ==
  /\ QueueTypes /\ OneSignaledWrite /\ ReadIsSomewhere
  /\ readScheduled => responseOutstanding
  /\ readCompleted => readScheduled
  /\ pc = "respond" => responseOutstanding

(* The queues are empty at the start. *)
LEMMA QueueInit == Q!Init => QueueInv
<1> SUFFICES ASSUME Q!Init PROVE QueueInv
  OBVIOUS
<1>1. sq = <<>> /\ sq \in Seq(WorkRequest) /\ Len(sq) = 0 /\ cq = NoneDone
  BY DEF Q!Init, NoneDone
<1>2. QueueTypes
  <2>1. 0 \in 0..MaxOutstanding
    BY QueueAssumption
  <2> QED
    BY <1>1, <2>1 DEF Q!Init, QueueTypes
<1>3. OneSignaledWrite /\ ReadIsSomewhere
  BY <1>1, <1>2, QueueAssumption
     DEF Q!Init, OneSignaledWrite, ReadIsSomewhere, Unsignaled, NoReads, Reads, Extra, QueueTypes
<1> QED
  BY <1>1, <1>2, <1>3 DEF Q!Init, QueueInv

(* An unsignalled write leaves the queue. *)
LEMMA ShorterQueue ==
  ASSUME QueueInv, sq # <<>>, sq[1].op = "write", sq' = Tail(sq), cq' = cq,
         UNCHANGED <<queueWqe, readScheduled, readCompleted, pc>>
  PROVE  ReadIsSomewhere'
<1> USE DEF QueueInv, QueueTypes
<1>1. /\ Len(sq') = Len(sq) - 1 /\ Len(sq) \in Nat \ {0}
      /\ \A i \in 1..Len(sq') : sq'[i] = sq[i + 1] /\ i + 1 \in 1..Len(sq)
  BY TailOf
<1>2. Extra' = Extra /\ (Reads' <=> Reads) /\ Extra \in {0, 1}
  BY DEF Extra, Reads
<1>3. CASE NoReads
  <2>1. NoReads' /\ ~ReadIsPosted
    BY <1>1, <1>3 DEF NoReads, ReadIsPosted
  <2>2. /\ Len(sq) <= queueWqe + Extra => Len(sq') <= queueWqe + Extra
        /\ Len(sq) <= MaxOutstanding + queueWqe + Extra => Len(sq') <= MaxOutstanding + queueWqe + Extra
    BY <1>1, <1>2, QueueAssumption
  <2> QED
    BY ONLY QueueInv, cq' = cq, queueWqe' = queueWqe, <1>2, <2>1, <2>2 DEF QueueInv, ReadIsSomewhere
<1>4. CASE ~NoReads
  <2>1. /\ Reads /\ (cq = NoneDone \/ cq = WriteDone) /\ ReadIsPosted
        /\ Len(sq) <= MaxOutstanding + queueWqe + 1 + Extra
    BY ONLY QueueInv, <1>4 DEF QueueInv, ReadIsSomewhere
  <2>2. PICK k \in 1..Len(sq) : /\ sq[k].op = "read" /\ Len(sq) - k <= queueWqe + Extra
                                /\ \A i \in 1..Len(sq) : i # k => sq[i].op = "write"
    BY <2>1 DEF ReadIsPosted
  <2>3. k # 1 /\ k - 1 \in 1..Len(sq') /\ Len(sq') - (k - 1) <= queueWqe + Extra
    BY <1>1, <1>2, <2>2
  <2>4. sq'[k - 1] = sq[k]
    BY <1>1, <2>3
  <2>5. \A i \in 1..Len(sq') : i # k - 1 => sq'[i] = sq[i + 1] /\ i + 1 \in 1..Len(sq) /\ i + 1 # k
    BY <1>1, <2>3
  <2>6. sq'[k - 1].op = "read" /\ \A i \in 1..Len(sq') : i # k - 1 => sq'[i].op = "write"
    BY ONLY <2>2, <2>4, <2>5
  <2>7. ReadIsPosted'
    BY <1>2, <2>3, <2>6 DEF ReadIsPosted
  <2>8. Len(sq') <= MaxOutstanding + queueWqe + 1 + Extra
    BY <1>1, <1>2, <2>1, QueueAssumption
  <2> QED
    BY ONLY cq' = cq, queueWqe' = queueWqe, <1>2, <2>1, <2>7, <2>8 DEF ReadIsSomewhere
<1> QED
  BY <1>3, <1>4

(* The network card completes the oldest work request. *)
LEMMA CardStep ==
  ASSUME QueueInv, Q!Complete
  PROVE  QueueInv'
<1> USE DEF QueueInv, QueueTypes, Extra, Reads
<1>1. /\ sq # <<>> /\ sq' = Tail(sq) /\ cq' = (IF sq[1].signaled THEN Append(cq, sq[1].op) ELSE cq)
      /\ UNCHANGED <<queueWqe, readScheduled, readCompleted, pollCompleted, responseOutstanding,
                     pc, back, early>>
  <2>1. Head(sq) = sq[1]
    BY TailOf DEF Q!Complete
  <2> QED
    BY <2>1 DEF Q!Complete, Q!flags
<1>2. /\ sq' \in Seq(WorkRequest) /\ Len(sq') = Len(sq) - 1 /\ Len(sq) \in Nat \ {0}
      /\ \A i \in 1..Len(sq') : sq'[i] = sq[i + 1] /\ i + 1 \in 1..Len(sq)
      /\ sq[1] \in WorkRequest
  BY <1>1, TailOf
<1>3. QueueTypes'
  BY <1>1, <1>2
<1>4. CASE pc # "wait"
  <2>1. (cq = NoneDone \/ cq = ReadDone) /\ Unsignaled(Len(sq))
    BY <1>4 DEF OneSignaledWrite
  <2>2. Unsignaled(Len(sq))' /\ (sq[1].signaled <=> sq[1].op = "read")
    BY <1>1, <1>2, <2>1 DEF Unsignaled
  <2>3. CASE sq[1].op = "read"
    <3>3. Reads /\ cq = NoneDone /\ ReadIsPosted
      BY <1>2, <2>1, <2>3, Completions DEF ReadIsSomewhere, NoReads
    <3>1. Reads /\ cq = NoneDone /\ Len(sq) - 1 <= queueWqe /\ \A i \in 1..Len(sq) : i # 1 => sq[i].op = "write"
      BY <1>2, <1>4, <2>3, <3>3 DEF ReadIsPosted
    <3>2. cq' = ReadDone /\ NoReads' /\ Len(sq') <= queueWqe
      BY <1>1, <1>2, <2>2, <2>3, <3>1, Completions DEF NoReads
    <3> QED
      BY <1>1, <1>3, <1>4, <2>2, <3>1, <3>2 DEF OneSignaledWrite, ReadIsSomewhere
  <2>4. CASE sq[1].op = "write"
    <3>1. cq' = cq
      BY <1>1, <2>2, <2>4
    <3>2. OneSignaledWrite'
      BY <1>1, <1>4, <2>1, <2>2, <3>1 DEF OneSignaledWrite
    <3>3. ReadIsSomewhere'
      BY <1>1, <2>4, <3>1, ShorterQueue
    <3> QED
      BY <1>1, <1>3, <3>2, <3>3
  <2> QED
    BY <1>2, <2>3, <2>4 DEF WorkRequest
<1>5. CASE pc = "wait" /\ Len(sq) > 1
  <2>1. /\ queueWqe = MaxOutstanding /\ (cq = NoneDone \/ cq = ReadDone) /\ Unsignaled(Len(sq) - 1)
        /\ sq[Len(sq)] = [op |-> "write", signaled |-> TRUE]
    BY <1>5, TailOf DEF OneSignaledWrite
  <2>2. Unsignaled(Len(sq) - 1)' /\ (sq[1].signaled <=> sq[1].op = "read") /\ Len(sq') > 0
    BY <1>1, <1>2, <1>5, <2>1 DEF Unsignaled
  <2>3. sq'[Len(sq')] = [op |-> "write", signaled |-> TRUE] /\ sq' # <<>>
    BY <1>2, <1>5, <2>1
  <2>4. CASE sq[1].op = "read"
    <3>1. Reads /\ cq = NoneDone /\ ReadIsPosted
      BY <1>2, <2>1, <2>4, Completions DEF ReadIsSomewhere, NoReads
    <3>2. Len(sq) - 1 <= queueWqe + 1 /\ \A i \in 1..Len(sq) : i # 1 => sq[i].op = "write"
      BY <1>2, <1>5, <2>4, <3>1 DEF ReadIsPosted
    <3>3. cq' = ReadDone
      BY <1>1, <2>2, <2>4, <3>1, Completions
    <3>4. NoReads' /\ Len(sq') <= queueWqe + 1
      BY <1>2, <3>2 DEF NoReads
    <3>5. OneSignaledWrite'
      BY <1>1, <1>5, <2>1, <2>2, <2>3, <3>3 DEF OneSignaledWrite
    <3>6. ReadIsSomewhere'
      BY <1>1, <1>5, <3>1, <3>3, <3>4 DEF ReadIsSomewhere
    <3> QED
      BY <1>1, <1>3, <3>5, <3>6
  <2>5. CASE sq[1].op = "write"
    <3>1. cq' = cq
      BY <1>1, <2>2, <2>5
    <3>2. OneSignaledWrite'
      BY <1>1, <1>5, <2>1, <2>2, <2>3, <3>1 DEF OneSignaledWrite
    <3>3. ReadIsSomewhere'
      BY <1>1, <2>5, <3>1, ShorterQueue
    <3> QED
      BY <1>1, <1>3, <3>2, <3>3
  <2> QED
    BY <1>2, <2>4, <2>5 DEF WorkRequest
<1>6. CASE pc = "wait" /\ Len(sq) = 1
  <2>1. /\ queueWqe = MaxOutstanding /\ (cq = NoneDone \/ cq = ReadDone)
        /\ sq[1] = [op |-> "write", signaled |-> TRUE]
    BY <1>1, <1>6 DEF OneSignaledWrite
  <2>2. sq' = <<>> /\ (cq = NoneDone => cq' = WriteDone) /\ (cq = ReadDone => cq' = BothDone)
    BY <1>1, <1>2, <1>6, <2>1, Completions
  <2>3. OneSignaledWrite'
    BY <1>1, <1>6, <2>1, <2>2 DEF OneSignaledWrite
  <2>4. ReadIsSomewhere'
    <3>1. NoReads /\ NoReads' /\ ~ReadIsPosted
      BY <1>2, <1>6, <2>1 DEF NoReads, ReadIsPosted
    <3>2. Reads' <=> Reads
      BY <1>1
    <3>3. Len(sq') <= queueWqe + Extra /\ Len(sq') <= MaxOutstanding + queueWqe + Extra
      BY <1>2, <1>6, QueueAssumption
    <3> QED
      BY <1>1, <2>1, <2>2, <3>1, <3>2, <3>3, Completions DEF ReadIsSomewhere
  <2> QED
    BY <1>1, <1>3, <2>3, <2>4
<1> QED
  BY <1>2, <1>4, <1>5, <1>6

(* A count below its limit can be raised. *)
LEMMA OneMore ==
  ASSUME NEW m \in Nat, NEW l \in Nat, NEW n \in Nat, NEW o \in Nat, NEW e \in Nat, o + e = n + 1
  PROVE  (l <= n => l + 1 <= o + e) /\ (l <= m + n => l + 1 <= m + o + e)
OBVIOUS

(* So can the one of the writes behind the read. *)
LEMMA OneMoreBehind ==
  ASSUME NEW m \in Nat, NEW l \in Nat, NEW k \in 1..l, NEW n \in Nat, NEW o \in Nat, NEW e \in Nat, NEW z,
         o + e = n + 1, z = l + 1, l - k <= n, l <= m + n + 1
  PROVE  z - k <= o + e /\ z <= m + o + 1 + e
OBVIOUS

(* A write is posted: one with which the count is full is signalled and waited for. *)
LEMMA WriteStep ==
  ASSUME QueueInv, NEW l \in {"p1", "p6"}, Q!Write(l), pc # "wait",
         cq' = cq, pollCompleted' = pollCompleted, ~early',
         responseOutstanding' \in BOOLEAN, readScheduled' \in BOOLEAN, readCompleted' \in BOOLEAN,
         readScheduled' => responseOutstanding', readCompleted' => readScheduled',
         Reads' <=> Reads
  PROVE  QueueInv'
<1> USE DEF QueueInv, QueueTypes
<1> DEFINE w == [op |-> "write", signaled |-> queueWqe = MaxOutstanding]
<1>1. /\ sq' = Append(sq, w)
      /\ \/ /\ queueWqe = MaxOutstanding /\ pc' = "wait" /\ back' = l /\ queueWqe' = queueWqe
         \/ /\ queueWqe # MaxOutstanding /\ pc' = l /\ back' = back /\ queueWqe' = queueWqe + 1
  BY DEF Q!Write
<1>2. w \in WorkRequest /\ w.op = "write"
  BY DEF WorkRequest
<1>3. /\ sq' \in Seq(WorkRequest) /\ Len(sq') = Len(sq) + 1 /\ Len(sq) \in Nat
      /\ sq'[Len(sq')] = w /\ \A i \in 1..Len(sq) : sq'[i] = sq[i]
  BY <1>1, <1>2, AppendOf
<1>4. queueWqe' \in 0..MaxOutstanding /\ queueWqe' + Extra' = queueWqe + 1 /\ Extra = 0
  BY <1>1, QueueAssumption DEF Extra
<1>8. queueWqe \in Nat /\ queueWqe' \in Nat /\ Extra' \in {0, 1} /\ MaxOutstanding \in Nat
  BY <1>4, QueueAssumption DEF Extra
<1>5. QueueTypes'
  BY <1>1, <1>3, <1>4
<1>6. OneSignaledWrite'
  <2>1. Unsignaled(Len(sq)) /\ (cq = NoneDone \/ cq = ReadDone)
    BY DEF OneSignaledWrite
  <2>2. \A i \in 1..Len(sq) : sq'[i].signaled <=> sq'[i].op = "read"
    BY <1>3, <2>1 DEF Unsignaled
  <2>3. CASE pc' = "wait"
    <3>1. Unsignaled(Len(sq) - 1)' /\ sq' # <<>>
      BY <1>3, <2>2 DEF Unsignaled
    <3>2. sq'[Len(sq')] = [op |-> "write", signaled |-> TRUE] /\ queueWqe' = MaxOutstanding
      BY <1>1, <1>3, <2>3
    <3> QED
      BY <2>1, <2>3, <3>1, <3>2 DEF OneSignaledWrite
  <2>4. CASE pc' # "wait"
    <3>1. ~w.signaled /\ \A i \in 1..Len(sq') : i \in 1..Len(sq) \/ sq'[i] = w
      <4>1. queueWqe # MaxOutstanding
        BY <1>1, <2>4
      <4>2. ~w.signaled
        BY <4>1
      <4>3. \A i \in 1..Len(sq') : i \in 1..Len(sq) \/ i = Len(sq')
        BY ONLY <1>3
      <4> QED
        BY ONLY <1>3, <4>2, <4>3
    <3>2. Unsignaled(Len(sq))'
      BY <1>2, <1>3, <2>2, <3>1 DEF Unsignaled
    <3> QED
      BY <2>1, <2>4, <3>2 DEF OneSignaledWrite
  <2> QED
    BY <2>3, <2>4
<1>7. ReadIsSomewhere'
  <2> HIDE DEF w
  <2>1. CASE NoReads
    <3>1. NoReads' /\ ~ReadIsPosted
      BY <1>2, <1>3, <2>1 DEF NoReads, ReadIsPosted
    <3>2. /\ Len(sq) <= queueWqe + Extra => Len(sq') <= queueWqe' + Extra'
          /\ Len(sq) <= MaxOutstanding + queueWqe + Extra =>
               Len(sq') <= MaxOutstanding + queueWqe' + Extra'
      <4>1. Len(sq') = Len(sq) + 1 /\ Len(sq) \in Nat
        BY ONLY <1>3
      <4>2. Extra' \in Nat /\ queueWqe + Extra = queueWqe /\ MaxOutstanding + queueWqe + Extra = MaxOutstanding + queueWqe
        BY <1>4, <1>8
      <4>3. /\ Len(sq) <= queueWqe => Len(sq) + 1 <= queueWqe' + Extra'
            /\ Len(sq) <= MaxOutstanding + queueWqe => Len(sq) + 1 <= MaxOutstanding + queueWqe' + Extra'
        <5>1. queueWqe' + Extra' = queueWqe + 1
          BY ONLY <1>4
        <5>2. Extra' \in Nat /\ Len(sq) \in Nat /\ queueWqe \in Nat /\ queueWqe' \in Nat /\ MaxOutstanding \in Nat
          BY ONLY <1>8, <4>1, <4>2
        <5> QED
          BY ONLY <5>1, <5>2, OneMore
      <4> QED
        BY ONLY <4>1, <4>2, <4>3
    <3> QED
      BY ONLY QueueInv, Reads' <=> Reads, cq' = cq, <3>1, <3>2 DEF QueueInv, ReadIsSomewhere
  <2>2. CASE ~NoReads
    <3>1. /\ Reads /\ (cq = NoneDone \/ cq = WriteDone) /\ ReadIsPosted
          /\ Len(sq) <= MaxOutstanding + queueWqe + 1 + Extra
      BY ONLY QueueInv, <2>2 DEF QueueInv, ReadIsSomewhere
    <3>2. PICK k \in 1..Len(sq) : /\ sq[k].op = "read" /\ Len(sq) - k <= queueWqe + Extra
                                  /\ \A i \in 1..Len(sq) : i # k => sq[i].op = "write"
      BY <3>1 DEF ReadIsPosted
    <3>4. /\ Len(sq') - k <= queueWqe' + Extra' /\ k \in 1..Len(sq')
          /\ Len(sq') <= MaxOutstanding + queueWqe' + 1 + Extra'
      <4>1. Len(sq) \in Nat /\ Len(sq') = Len(sq) + 1 /\ k \in 1..Len(sq)
        BY ONLY <1>3, <3>2
      <4>2. Len(sq) - k <= queueWqe /\ Len(sq) <= MaxOutstanding + queueWqe + 1
        BY ONLY <1>4, <1>8, <3>1, <3>2
      <4>3. k \in 1..Len(sq')
        BY ONLY <4>1
      <4>4. queueWqe' + Extra' = queueWqe + 1
        BY ONLY <1>4
      <4>5. Extra' \in Nat
        BY DEF Extra
      <4>6. queueWqe \in Nat /\ queueWqe' \in Nat /\ MaxOutstanding \in Nat
        BY ONLY <1>8
      <4>7. Len(sq') - k <= queueWqe' + Extra' /\ Len(sq') <= MaxOutstanding + queueWqe' + 1 + Extra'
        BY ONLY <4>1, <4>2, <4>4, <4>5, <4>6, OneMoreBehind
      <4> QED
        BY ONLY <4>3, <4>7
    <3>5. sq'[k].op = "read" /\ \A i \in 1..Len(sq') : i # k => sq'[i].op = "write"
      <4>1. \A i \in 1..Len(sq') : i \in 1..Len(sq) \/ sq'[i] = w
        BY <1>3
      <4> QED
        BY <1>2, <1>3, <3>2, <4>1
    <3>6. ReadIsPosted'
      BY <3>4, <3>5 DEF ReadIsPosted
    <3> QED
      BY ONLY Reads' <=> Reads, cq' = cq, <3>1, <3>4, <3>6 DEF ReadIsSomewhere
  <2> QED
    BY <2>1, <2>2
<1> QED
  BY <1>1, <1>5, <1>6, <1>7

(* A request of the other node arrives, and its pages are read. *)
LEMMA IncomingStep ==
  ASSUME QueueInv, NEW read \in BOOLEAN, Q!Incoming(read)
  PROVE  QueueInv'
<1> USE DEF QueueInv, QueueTypes
<1>1. /\ pc = "p1" /\ ~responseOutstanding /\ ~readScheduled /\ ~readCompleted /\ responseOutstanding' = TRUE
      /\ readScheduled' = read
      /\ UNCHANGED <<cq, queueWqe, readCompleted, pollCompleted, pc, back, early>>
  BY DEF Q!Incoming
<1>2. /\ ~Reads /\ (Reads' <=> read) /\ Extra = 0 /\ Extra' = 0
  BY <1>1 DEF Reads, Extra
<1>3. Unsignaled(Len(sq)) /\ NoReads /\ cq = NoneDone /\ Len(sq) <= MaxOutstanding + queueWqe
  <2>1. Unsignaled(Len(sq)) /\ (cq = NoneDone \/ cq = ReadDone)
    BY <1>1 DEF OneSignaledWrite
  <2>2. NoReads /\ (cq = NoneDone \/ cq = WriteDone) /\ Len(sq) <= MaxOutstanding + queueWqe + Extra
    BY ONLY QueueInv, <1>2 DEF QueueInv, ReadIsSomewhere
  <2>3. Len(sq) \in Nat /\ MaxOutstanding + queueWqe + 0 = MaxOutstanding + queueWqe
    BY QueueAssumption
  <2> QED
    BY ONLY <1>2, <2>1, <2>2, <2>3, Completions
<1>4. CASE ~read
  <2>1. sq' = sq
    BY <1>4 DEF Q!Incoming
  <2>2. QueueTypes'
    BY <1>1, <1>4, <2>1
  <2>3. Unsignaled(Len(sq))' /\ NoReads'
    BY <1>3, <2>1 DEF Unsignaled, NoReads
  <2>4. OneSignaledWrite' /\ ReadIsSomewhere'
    BY <1>1, <1>2, <1>3, <1>4, <2>1, <2>3 DEF OneSignaledWrite, ReadIsSomewhere
  <2> QED
    BY <1>1, <1>4, <2>2, <2>4
<1>5. CASE read
  <2> DEFINE r == [op |-> "read", signaled |-> TRUE]
  <2>1. sq' = Append(sq, r)
    BY <1>5 DEF Q!Incoming
  <2>2. r \in WorkRequest /\ r.op = "read" /\ r.signaled = TRUE
    BY DEF WorkRequest
  <2> HIDE DEF r
  <2>3. /\ sq' \in Seq(WorkRequest) /\ Len(sq') = Len(sq) + 1 /\ Len(sq) \in Nat
        /\ sq'[Len(sq')] = r /\ \A i \in 1..Len(sq) : sq'[i] = sq[i]
    BY <2>1, <2>2, AppendOf
  <2>4. QueueTypes'
    BY <1>1, <2>3
  <2>5. \A i \in 1..Len(sq') : i \in 1..Len(sq) \/ i = Len(sq')
    BY <2>3
  <2>6. Unsignaled(Len(sq))'
    BY <1>3, <2>2, <2>3, <2>5 DEF Unsignaled
  <2>7. ReadIsPosted'
    <3>1. Len(sq') \in 1..Len(sq') /\ Len(sq') - Len(sq') <= queueWqe' + Extra'
      BY <1>1, <1>2, <2>3, QueueAssumption
    <3>2. sq'[Len(sq')].op = "read" /\ \A i \in 1..Len(sq') : i # Len(sq') => sq'[i].op = "write"
      BY <1>3, <2>2, <2>3, <2>5 DEF NoReads
    <3> QED
      BY <3>1, <3>2 DEF ReadIsPosted
  <2>8. Len(sq') <= MaxOutstanding + queueWqe' + 1 + Extra'
    BY <1>1, <1>2, <1>3, <2>3, QueueAssumption
  <2>9. OneSignaledWrite'
    BY <1>1, <1>3, <2>6 DEF OneSignaledWrite
  <2>10. ReadIsSomewhere'
    BY <1>1, <1>2, <1>3, <1>5, <2>7, <2>8 DEF ReadIsSomewhere
  <2> QED
    BY <1>1, <1>5, <2>4, <2>9, <2>10
<1> QED
  BY <1>4, <1>5

(* A step that posts and completes nothing, and moves no read *)
LEMMA QuietStep ==
  ASSUME QueueInv, UNCHANGED <<sq, queueWqe, cq, early>>, ~pollCompleted', pc # "wait", pc' # "wait",
         pc' \in {"p1", "p6", "respond"}, back' = back,
         UNCHANGED <<readScheduled, readCompleted, responseOutstanding>>,
         pc' = "respond" => responseOutstanding,
         Reads' <=> Reads
  PROVE  QueueInv'
<1>1. QueueTypes'
  BY DEF QueueInv, QueueTypes
<1>2. OneSignaledWrite'
  BY DEF QueueInv, OneSignaledWrite, Unsignaled
<1>3. Extra' = Extra /\ (NoReads' <=> NoReads) /\ (ReadIsPosted' <=> ReadIsPosted)
  BY DEF Extra, NoReads, ReadIsPosted
<1>4. ReadIsSomewhere'
  BY <1>3 DEF QueueInv, ReadIsSomewhere
<1> QED
  BY <1>1, <1>2, <1>4 DEF QueueInv

(* Phase 6 looks for the completion of the read. *)
LEMMA PhaseSix ==
  ASSUME QueueInv, Q!SkipRequest \/ Q!NoResponse \/ Q!ReadIsComplete \/ Q!NoRead
  PROVE  QueueInv'
<1> USE DEF QueueInv, QueueTypes
<1>1. CASE Q!SkipRequest
  <2>1. Reads' <=> Reads
    BY <1>1 DEF Q!SkipRequest, Q!flags, Reads
  <2> QED
    BY <1>1, <2>1, QuietStep DEF Q!SkipRequest, Q!flags
<1>2. CASE Q!NoRead
  <2>1. Reads' <=> Reads
    BY <1>2 DEF Q!NoRead, Q!flags, Reads
  <2> QED
    BY <1>2, <2>1, QuietStep DEF Q!NoRead, Q!flags
<1>3. CASE Q!NoResponse
  <2>1. /\ pc = "p6" /\ pc' = "p1"
        /\ UNCHANGED <<sq, queueWqe, readScheduled, readCompleted, responseOutstanding, back, early>>
    BY <1>3 DEF Q!NoResponse
  <2>2. Reads' <=> Reads
    BY <2>1 DEF Reads
  <2>3. cq' = cq /\ ~pollCompleted'
    <3>1. CASE UNCHANGED <<cq, pollCompleted>>
      BY <3>1
    <3>2. CASE /\ \A i \in 1..Len(Q!Polled) : Q!Polled[i] # "read"
               /\ cq' = SubSeq(cq, Len(Q!Polled) + 1, Len(cq))
               /\ pollCompleted' = (pollCompleted \/ Q!Polled # <<>>)
      <4>1. cq = NoneDone \/ cq = ReadDone
        BY <2>1 DEF OneSignaledWrite
      <4>2. cq # ReadDone
        <5> SUFFICES ASSUME cq = ReadDone PROVE FALSE
          OBVIOUS
        <5>1. Len(cq) = 1 /\ cq[1] = "read" /\ cq = <<"read">>
          BY DEF ReadDone
        <5>2. Q!Polled = SubSeq(<<"read">>, 1, 1)
          BY <5>1 DEF Q!Polled
        <5>3. Len(Q!Polled) = 1 /\ Q!Polled[1] = "read"
          BY <5>2
        <5> QED
          BY <3>2, <5>3
      <4>3. cq = <<>> /\ Len(cq) = 0
        BY <4>1, <4>2 DEF NoneDone
      <4>4. Q!Polled = <<>> /\ Len(Q!Polled) = 0
        BY <4>3 DEF Q!Polled
      <4>5. SubSeq(cq, 1, 0) = <<>>
        BY <4>3
      <4>6. cq' = <<>>
        BY ONLY <3>2, <4>3, <4>4, <4>5
      <4>7. ~pollCompleted'
        BY <3>2, <4>4
      <4> QED
        BY <4>3, <4>6, <4>7
    <3> QED
      BY <1>3, <3>1, <3>2 DEF Q!NoResponse
  <2> QED
    BY <2>1, <2>2, <2>3, QuietStep
<1>4. CASE Q!ReadIsComplete
  <2>1. /\ pc = "p6" /\ pc' = "respond" /\ readScheduled /\ responseOutstanding
        /\ UNCHANGED <<sq, readScheduled, readCompleted, responseOutstanding, back, early>>
    BY <1>4 DEF Q!ReadIsComplete
  <2>2. CASE readCompleted
    <3>1. Reads' <=> Reads
      BY <2>1, <2>2 DEF Reads
    <3> QED
      BY <1>4, <2>1, <2>2, <3>1, QuietStep DEF Q!ReadIsComplete
  <2>3. CASE ~readCompleted
    <3>1. /\ \E i \in 1..Len(Q!Polled) : Q!Polled[i] = "read"
          /\ cq' = IF Head(cq) = "read" THEN Tail(cq) ELSE Tail(Tail(cq))
          /\ queueWqe' = 0 /\ pollCompleted' = (pollCompleted \/ Head(cq) # "read")
      BY <1>4, <2>3 DEF Q!ReadIsComplete
    <3>2. (cq = NoneDone \/ cq = ReadDone) /\ Unsignaled(Len(sq))
      BY <2>1 DEF OneSignaledWrite
    <3>3. cq # NoneDone
      <4> SUFFICES ASSUME cq = NoneDone PROVE FALSE
        OBVIOUS
      <4>1. cq = <<>> /\ Len(cq) = 0
        BY DEF NoneDone
      <4>2. Q!Polled = <<>> /\ Len(Q!Polled) = 0
        BY <4>1 DEF Q!Polled
      <4> QED
        BY <3>1, <4>2
    <3>4. cq' = NoneDone /\ ~pollCompleted'
      BY <3>1, <3>2, <3>3, Completions
    <3>5. Extra = 0 /\ Extra' = 0 /\ Reads /\ ~Reads'
      BY <2>1, <2>3 DEF Extra, Reads
    <3>6. NoReads /\ Len(sq) <= queueWqe + Extra
      BY ONLY QueueInv, <3>2, <3>3, <3>5, Completions DEF QueueInv, ReadIsSomewhere
    <3>7. QueueTypes'
      <4>1. 0 \in 0..MaxOutstanding
        BY QueueAssumption
      <4> QED
        BY <2>1, <3>1, <3>4, <4>1
    <3>8. Unsignaled(Len(sq))' /\ NoReads'
      BY <2>1, <3>2, <3>6 DEF Unsignaled, NoReads
    <3>9. Len(sq') <= MaxOutstanding + queueWqe' + Extra'
      <4>1. Len(sq) \in Nat /\ queueWqe \in Nat /\ queueWqe <= MaxOutstanding
        BY QueueAssumption
      <4> QED
        BY <2>1, <3>1, <3>5, <3>6, <4>1, QueueAssumption
    <3>10. OneSignaledWrite' /\ ReadIsSomewhere'
      BY <2>1, <3>4, <3>5, <3>8, <3>9 DEF OneSignaledWrite, ReadIsSomewhere
    <3> QED
      BY <2>1, <2>3, <3>7, <3>10
  <2> QED
    BY <2>2, <2>3
<1> QED
  BY <1>1, <1>2, <1>3, <1>4

(* A request, or the answer to one, is written.  The pages have been read then. *)
LEMMA WritesStep ==
  ASSUME QueueInv, Q!WriteRequest \/ Q!WriteResponse
  PROVE  QueueInv'
<1>1. CASE Q!WriteRequest
  <2>1. /\ pc = "p1" /\ Q!Write("p6")
        /\ UNCHANGED <<cq, readScheduled, readCompleted, pollCompleted, responseOutstanding, early>>
    BY <1>1 DEF Q!WriteRequest, Q!flags
  <2>2. pc' # "respond"
    BY <2>1 DEF Q!Write
  <2>3. Reads' <=> Reads
    BY <2>1, <2>2 DEF Reads
  <2>4. /\ ~early' /\ responseOutstanding' \in BOOLEAN /\ readScheduled' \in BOOLEAN
        /\ readCompleted' \in BOOLEAN /\ (readScheduled' => responseOutstanding')
        /\ (readCompleted' => readScheduled')
    BY <2>1 DEF QueueInv, QueueTypes
  <2> QED
    BY <2>1, <2>3, <2>4, WriteStep
<1>2. CASE Q!WriteResponse
  <2>1. /\ pc = "respond" /\ Q!Write("p1") /\ cq' = cq /\ pollCompleted' = pollCompleted
        /\ responseOutstanding' = FALSE /\ readScheduled' = FALSE /\ readCompleted' = FALSE
        /\ early' = (early \/ \E i \in 1..Len(sq) : sq[i].op = "read")
    BY <1>2 DEF Q!WriteResponse
  <2>2. ~Reads /\ ~Reads'
    BY <2>1 DEF Reads
  <2>3. NoReads
    BY <2>2 DEF QueueInv, ReadIsSomewhere
  <2>4. ~early'
    BY <2>1, <2>3 DEF QueueInv, QueueTypes, NoReads
  <2> QED
    BY <2>1, <2>2, <2>4, WriteStep
<1> QED
  BY <1>1, <1>2

(* The wait for a write takes completions from the queue. *)
LEMMA WaitStep ==
  ASSUME QueueInv, Q!Wait, "read" \notin Garbage
  PROVE  QueueInv'
<1> USE DEF QueueInv, QueueTypes
<1>1. CASE Q!WaitNothing
  <2>1. UNCHANGED <<sq, cq, queueWqe, readScheduled, pollCompleted, responseOutstanding, pc, back, early>>
    BY <1>1 DEF Q!WaitNothing
  <2>2. readCompleted' = readCompleted
    BY <1>1 DEF Q!WaitNothing
  <2>3. /\ Extra' = Extra /\ (NoReads' <=> NoReads) /\ (ReadIsPosted' <=> ReadIsPosted)
        /\ (Reads' <=> Reads)
    BY <2>1, <2>2 DEF Extra, NoReads, ReadIsPosted, Reads
  <2>4. OneSignaledWrite' /\ ReadIsSomewhere'
    BY <2>1, <2>3 DEF OneSignaledWrite, Unsignaled, ReadIsSomewhere
  <2> QED
    BY <2>1, <2>2, <2>4
<1>2. CASE Q!WaitRead
  <2>1. /\ pc = "wait" /\ cq # <<>> /\ Head(cq) = "read" /\ cq' = Tail(cq) /\ readCompleted' = TRUE
        /\ UNCHANGED <<sq, queueWqe, readScheduled, pollCompleted, responseOutstanding, pc, back, early>>
    BY <1>2 DEF Q!WaitRead
  <2>2. /\ cq = ReadDone \/ cq = BothDone
        /\ cq = ReadDone => cq' = NoneDone
        /\ cq = BothDone => cq' = WriteDone
    <3>1. cq # NoneDone
      BY <2>1 DEF NoneDone
    <3> QED
      BY <2>1, <3>1, Completions DEF OneSignaledWrite
  <2>3. Reads /\ NoReads /\ Len(sq) <= queueWqe + Extra
    BY ONLY QueueInv, <2>2, Completions DEF QueueInv, ReadIsSomewhere
  <2>4. ~Reads' /\ Extra' = Extra /\ Extra \in {0, 1} /\ NoReads' /\ readScheduled
    BY <2>1, <2>3 DEF Reads, Extra, NoReads
  <2>5. OneSignaledWrite'
    BY <2>1, <2>2, Completions DEF OneSignaledWrite, Unsignaled
  <2>6. Len(sq') <= MaxOutstanding + queueWqe' + Extra'
    <3>1. Len(sq) \in Nat /\ queueWqe \in Nat
      BY QueueAssumption
    <3> QED
      BY <2>1, <2>3, <2>4, <3>1, QueueAssumption
  <2>7. ReadIsSomewhere'
    BY <2>2, <2>4, <2>6 DEF ReadIsSomewhere
  <2> QED
    BY <2>1, <2>4, <2>5, <2>7
<1>3. CASE Q!WaitWrite
  <2>1. /\ pc = "wait" /\ cq # <<>> /\ Head(cq) = "write" /\ cq' = Tail(cq) /\ pc' = back
        /\ queueWqe' = 1 /\ pollCompleted' = FALSE
        /\ UNCHANGED <<sq, readScheduled, readCompleted, responseOutstanding, back, early>>
    BY <1>3 DEF Q!WaitWrite
  <2>2. cq = WriteDone /\ cq' = NoneDone /\ sq = <<>> /\ Len(sq) = 0
    <3>1. cq # NoneDone
      BY <2>1 DEF NoneDone
    <3>2. cq = WriteDone /\ sq = <<>>
      BY <2>1, <3>1, Completions DEF OneSignaledWrite
    <3> QED
      BY <2>1, <3>2, Completions
  <2>3. ~Reads /\ NoReads
    BY <2>2, Completions DEF ReadIsSomewhere, ReadIsPosted, NoReads
  <2>4. ~Reads' /\ NoReads' /\ Extra' = 0 /\ Unsignaled(Len(sq))'
    BY <2>1, <2>2, <2>3 DEF Reads, NoReads, Extra, Unsignaled
  <2>5. Len(sq') <= MaxOutstanding + queueWqe' + Extra' /\ queueWqe' \in 0..MaxOutstanding
    BY <2>1, <2>2, <2>4, QueueAssumption
  <2>6. OneSignaledWrite' /\ ReadIsSomewhere'
    BY <2>1, <2>2, <2>4, <2>5 DEF OneSignaledWrite, ReadIsSomewhere
  <2> QED
    BY <2>1, <2>5, <2>6
<1> QED
  BY <1>1, <1>2, <1>3 DEF Q!Wait

(* Every step of the card and of the provider's thread keeps the invariant. *)
LEMMA QueueSteps == "read" \notin Garbage /\ QueueInv /\ [Q!Next]_queueVars => QueueInv'
<1> SUFFICES ASSUME "read" \notin Garbage, QueueInv, [Q!Next]_queueVars PROVE QueueInv'
  OBVIOUS
<1>1. CASE UNCHANGED queueVars
  <2>1. /\ Extra' = Extra /\ (NoReads' <=> NoReads) /\ (ReadIsPosted' <=> ReadIsPosted)
        /\ (Reads' <=> Reads)
    BY <1>1 DEF queueVars, Extra, NoReads, ReadIsPosted, Reads
  <2> QED
    BY <1>1, <2>1 DEF queueVars, QueueInv, QueueTypes, OneSignaledWrite, Unsignaled, ReadIsSomewhere
<1>2. CASE Q!Next
  BY <1>2, CardStep, IncomingStep, PhaseSix, WritesStep, WaitStep DEF Q!Next, Q!Step
<1> QED
  BY <1>1, <1>2

(***************************************************************************)
(* The answer to an eviction request is written after the pages have been  *)
(* read, and the send queue stays short, for every maxOutstandingWrites.   *)
(* The poll of phase 6 compares the identifier of a completion that may    *)
(* not have been filled in with that of the read: the hypothesis is that   *)
(* the memory does not hold this value by chance                           *)
(* (PageProvider::startThread, writeResponse and pollCompletion).          *)
(***************************************************************************)
THEOREM AnswersFollowReads == "read" \notin Garbage => (Spec => []ResponseAfterRead)
<1> SUFFICES ASSUME "read" \notin Garbage PROVE Spec => []ResponseAfterRead
  OBVIOUS
<1>3. QueueInv /\ [Q!Next]_queueVars => QueueInv'
  BY QueueSteps
<1>1. Init => Q!Init
  BY DEF Init
<1>2. QueueInv => ResponseAfterRead
  <2> SUFFICES ASSUME QueueInv PROVE ~early /\ Len(sq) <= 2 * MaxOutstanding + 2
    BY DEF ResponseAfterRead, Q!ResponseAfterRead, Q!SendQueueIsBounded
  <2>1. /\ Len(sq) \in Nat /\ queueWqe \in Nat /\ queueWqe <= MaxOutstanding /\ MaxOutstanding \in Nat
        /\ Extra \in {0, 1}
    BY QueueAssumption DEF QueueInv, QueueTypes, Extra
  <2>2. Len(sq) <= MaxOutstanding + queueWqe + 1 + Extra
    BY <2>1 DEF QueueInv, ReadIsSomewhere
  <2> QED
    BY <2>1, <2>2 DEF QueueInv, QueueTypes
<1> QED
  BY <1>1, <1>2, <1>3, QueueInit, MessagingParts, PTL DEF Spec

-----------------------------------------------------------------------------
(* The pages a message handler has sent *)

(* The page is in the batch. *)
In(s, p) == \E i \in 1..Len(s) : s[i] = p
(* No page is in the batch twice. *)
Distinct(s) == \A i, j \in 1..Len(s) : s[i] = s[j] => i = j

(* A write that has been posted: the page it sends, and whether it is signalled *)
PostType == [page : ReusePage \cup {R!NoPage}, signal : BOOLEAN]

(* The variables of the delayed reuse have these values. *)
ReuseTypes ==
  /\ reuseWqe \in [Conn -> 0..(pollingInterval - 1)]
  /\ posts \in [Conn -> Seq(PostType)]
  /\ active \in [Conn -> Seq(ReusePage)] /\ passive \in [Conn -> Seq(ReusePage)]
  /\ pending \in [Conn -> [wait : BOOLEAN, add : ReusePage \cup {R!NoPage}]]
  /\ resident \in SUBSET ReusePage /\ free \in SUBSET ReusePage
  /\ waits \in [Conn -> ReusePage \cup {R!NoPage}]

(* The page is in the hands of connection c. *)
Sits(c, p) == In(active[c], p) \/ In(passive[c], p) \/ pending[c].add = p

(* Every page is in one place ... *)
OnePlace ==
  \A p \in ReusePage :
    /\ p \in free \/ p \in resident \/ \E c \in Conn : Sits(c, p)
    /\ ~(p \in free /\ p \in resident)
    /\ \A c \in Conn : /\ Sits(c, p) => p \notin free /\ p \notin resident
                       /\ In(active[c], p) => ~In(passive[c], p) /\ pending[c].add # p
                       /\ In(passive[c], p) => pending[c].add # p
                       /\ \A d \in Conn : Sits(c, p) /\ Sits(d, p) => c = d

(* ... and once in its batch. *)
OnceInBatch == \A c \in Conn : Distinct(active[c]) /\ Distinct(passive[c])

(* A batch has at most a page for every post of its interval, the page of   *)
(* the last post of the one before, and one more until the completion.     *)
BatchLengths ==
  \A c \in Conn : /\ ~pending[c].wait => Len(active[c]) <= reuseWqe[c] + 1 /\ pending[c].add = R!NoPage
                  /\ pending[c].wait => Len(active[c]) <= pollingInterval + 1 /\ reuseWqe[c] = 0
                  /\ Len(passive[c]) <= pollingInterval + 1

(* The invariant of the batches *)
ReuseInv == ReuseTypes /\ OnePlace /\ OnceInBatch /\ BatchLengths

(* A page in a batch is sent at most until the worker whose request made    *)
(* the handler give it away goes on, which is before the next completion.  *)
SentUntilReady ==
  /\ \A p \in free : ~R!InFlight(p)
  /\ \A c \in Conn : \A p \in ReusePage :
       Sits(c, p) /\ R!InFlight(p) => waits[c] = p /\ (In(passive[c], p) => ~pending[c].wait)

(* InvalidationBatch::add puts one page into the batch. *)
LEMMA InAppend ==
  ASSUME NEW s \in Seq(ReusePage), NEW p \in ReusePage
  PROVE  /\ Append(s, p) \in Seq(ReusePage) /\ Len(Append(s, p)) = Len(s) + 1 /\ Len(s) \in Nat
         /\ \A q : In(Append(s, p), q) <=> In(s, q) \/ q = p
         /\ Distinct(s) /\ ~In(s, p) => Distinct(Append(s, p))
<1> DEFINE z == Append(s, p)
<1>1. /\ z \in Seq(ReusePage) /\ Len(z) = Len(s) + 1 /\ Len(s) \in Nat
      /\ z[Len(s) + 1] = p /\ \A i \in 1..Len(s) : z[i] = s[i]
  OBVIOUS
<1> HIDE DEF z
<1>2. \A i \in 1..Len(z) : i \in 1..Len(s) \/ i = Len(s) + 1
  BY <1>1
<1>3. \A i \in 1..Len(s) : i \in 1..Len(z) /\ i # Len(s) + 1
  BY <1>1
<1>4. Len(s) + 1 \in 1..Len(z)
  BY <1>1
<1>5. \A q : In(z, q) <=> In(s, q) \/ q = p
  BY ONLY <1>1, <1>2, <1>3, <1>4 DEF In
<1>6. Distinct(s) /\ ~In(s, p) => Distinct(z)
  BY ONLY <1>1, <1>2 DEF In, Distinct
<1> QED
  BY <1>1, <1>5, <1>6 DEF z

(* The count of posts goes round. *)
LEMMA NextWqe ==
  ASSUME NEW n \in Nat \ {0}, NEW w \in 0..(n - 1)
  PROVE  /\ w = n - 1 => (w + 1) % n = 0
         /\ w # n - 1 => (w + 1) % n = w + 1
         /\ (w + 1) % n \in 0..(n - 1)
<1>1. CASE w = n - 1
  <2>1. w + 1 = n
    BY <1>1
  <2>2. n % n = 0
    OBVIOUS
  <2> QED
    BY <1>1, <2>1, <2>2
<1>2. CASE w # n - 1
  <2>1. w \in Nat /\ w + 1 < n
    BY <1>2
  <2>2. \A a \in Nat : a < n => a % n = a
    OBVIOUS
  <2>3. w + 1 \in Nat
    BY <2>1
  <2>4. (w + 1) % n = w + 1
    BY <2>1, <2>2, <2>3
  <2> QED
    BY <1>2, <2>1, <2>4
<1> QED
  BY <1>1, <1>2

(* All pages are free at the start. *)
LEMMA ReuseInit == R!Init => ReuseInv /\ SentUntilReady
<1> SUFFICES ASSUME R!Init PROVE ReuseInv /\ SentUntilReady
  OBVIOUS
<1>1. /\ free = ReusePage /\ resident = {}
      /\ \A c \in Conn : /\ active[c] = <<>> /\ passive[c] = <<>> /\ posts[c] = <<>> /\ reuseWqe[c] = 0
                         /\ pending[c] = [wait |-> FALSE, add |-> R!NoPage]
  BY DEF R!Init, R!Nothing
<1>2. ReuseTypes
  <2>1. 0 \in 0..(pollingInterval - 1)
    BY ReuseAssumption
  <2>2. <<>> \in Seq(PostType) /\ <<>> \in Seq(ReusePage)
    OBVIOUS
  <2> QED
    BY <2>1, <2>2 DEF R!Init, R!Nothing, ReuseTypes
<1>3. \A c \in Conn : \A p \in ReusePage : ~Sits(c, p) /\ ~In(active[c], p) /\ ~In(passive[c], p)
  BY <1>1, ReuseAssumption DEF Sits, In
<1>4. OnePlace
  BY <1>1, <1>3 DEF OnePlace
<1>5. OnceInBatch /\ BatchLengths
  BY <1>1, ReuseAssumption DEF OnceInBatch, Distinct, BatchLengths
<1>6. SentUntilReady
  BY <1>1, <1>3 DEF SentUntilReady, R!InFlight, R!Sends
<1> QED
  BY <1>2, <1>4, <1>5, <1>6 DEF ReuseInv

(* What a post does: the card has one more write to do, and the interval goes on. *)
Posts(c, p) ==
  /\ posts' = [posts EXCEPT ![c] = Append(@, [page |-> p, signal |-> reuseWqe[c] = 0])]
  /\ reuseWqe' = [reuseWqe EXCEPT ![c] = (@ + 1) % pollingInterval]

(* The page that is posted is sent, and no other one more than before. *)
LEMMA PostStep ==
  ASSUME ReuseInv, NEW c \in Conn, NEW p \in ReusePage \cup {R!NoPage}, Posts(c, p)
  PROVE  /\ posts' \in [Conn -> Seq(PostType)]
         /\ reuseWqe' \in [Conn -> 0..(pollingInterval - 1)]
         /\ \A d \in Conn : d # c => reuseWqe'[d] = reuseWqe[d]
         /\ reuseWqe[c] = pollingInterval - 1 => reuseWqe'[c] = 0
         /\ reuseWqe[c] # pollingInterval - 1 => reuseWqe'[c] = reuseWqe[c] + 1
         /\ \A q : R!InFlight(q)' <=> R!InFlight(q) \/ q = p
<1> DEFINE e == [page |-> p, signal |-> reuseWqe[c] = 0]
           z == Append(posts[c], e)
<1> USE DEF ReuseInv, ReuseTypes
<1>1. e \in PostType /\ e.page = p
  BY DEF PostType
<1>2. posts[c] \in Seq(PostType) /\ posts' = [posts EXCEPT ![c] = z]
  BY DEF Posts
<1> HIDE DEF e
<1>3. /\ z \in Seq(PostType) /\ Len(z) = Len(posts[c]) + 1 /\ Len(posts[c]) \in Nat
      /\ z[Len(posts[c]) + 1] = e /\ \A i \in 1..Len(posts[c]) : z[i] = posts[c][i]
  BY <1>1, <1>2, AppendOf
<1> HIDE DEF z
<1>4. posts' \in [Conn -> Seq(PostType)] /\ posts'[c] = z /\ \A d \in Conn : d # c => posts'[d] = posts[d]
  BY <1>2, <1>3
<1>5. R!Sends(c, p)'
  <2>1. Len(posts[c]) + 1 \in 1..Len(z)
    BY <1>3
  <2> QED
    BY <1>1, <1>3, <1>4, <2>1 DEF R!Sends
<1>6. \A q : R!Sends(c, q) => R!Sends(c, q)'
  <2>1. \A i \in 1..Len(posts[c]) : i \in 1..Len(z)
    BY <1>3
  <2> QED
    BY ONLY <1>3, <1>4, <2>1 DEF R!Sends
<1>7. \A q : R!Sends(c, q)' => R!Sends(c, q) \/ q = p
  <2>1. \A i \in 1..Len(z) : i \in 1..Len(posts[c]) \/ i = Len(posts[c]) + 1
    BY <1>3
  <2> QED
    BY ONLY <1>1, <1>3, <1>4, <2>1 DEF R!Sends
<1>8. \A q : \A d \in Conn : d # c => (R!Sends(d, q)' <=> R!Sends(d, q))
  BY <1>4 DEF R!Sends
<1>9. \A q : R!InFlight(q)' <=> R!InFlight(q) \/ q = p
  BY ONLY c \in Conn, <1>5, <1>6, <1>7, <1>8 DEF R!InFlight
<1>10. reuseWqe[c] \in 0..(pollingInterval - 1) /\ reuseWqe' = [reuseWqe EXCEPT ![c] = (reuseWqe[c] + 1) % pollingInterval]
  BY DEF Posts
<1>11. /\ reuseWqe[c] = pollingInterval - 1 => (reuseWqe[c] + 1) % pollingInterval = 0
       /\ reuseWqe[c] # pollingInterval - 1 => (reuseWqe[c] + 1) % pollingInterval = reuseWqe[c] + 1
       /\ (reuseWqe[c] + 1) % pollingInterval \in 0..(pollingInterval - 1)
  BY ONLY <1>10, ReuseAssumption, NextWqe
<1>12. /\ reuseWqe' \in [Conn -> 0..(pollingInterval - 1)]
       /\ reuseWqe'[c] = (reuseWqe[c] + 1) % pollingInterval
       /\ \A d \in Conn : d # c => reuseWqe'[d] = reuseWqe[d]
  BY <1>10, <1>11
<1> QED
  BY <1>4, <1>9, <1>11, <1>12

(* No page that connection c has given away is still sent when c is ready. *)
LEMMA ReadyIsQuiet ==
  ASSUME ReuseInv, SentUntilReady, NEW c \in Conn, R!Ready(c), NEW p \in ReusePage, Sits(c, p)
  PROVE  ~R!InFlight(p)
BY ReuseAssumption DEF SentUntilReady, R!Ready

(* A page leaves its frame for a batch of c, at once or after the next completion. *)
Dropped(c, p) ==
  /\ ~pending[c].wait /\ p \in resident
  /\ resident' = resident \ {p} /\ UNCHANGED <<passive, free>>
  /\ waits' = [waits EXCEPT ![c] = p]
  /\ \/ /\ active' = [active EXCEPT ![c] = Append(@, p)]
        /\ pending' = [pending EXCEPT ![c] = [wait |-> reuseWqe[c] = pollingInterval - 1, add |-> R!NoPage]]
     \/ /\ active' = active /\ reuseWqe[c] = pollingInterval - 1
        /\ pending' = [pending EXCEPT ![c] = [wait |-> TRUE, add |-> p]]

(* Both ways to give a page away are such a step. *)
LEMMA DropIsDrop ==
  ASSUME ReuseInv, NEW c \in Conn, NEW p \in ReusePage, R!SendAndDrop(c, p) \/ R!DropAndAnswer(c, p)
  PROVE  Dropped(c, p) /\ R!Ready(c) /\ \E q \in {p, R!NoPage} : Posts(c, q)
<1> USE DEF ReuseInv, ReuseTypes
<1>1. CASE R!SendAndDrop(c, p)
  <2>1. /\ ~pending[c].wait /\ p \in resident /\ resident' = resident \ {p} /\ UNCHANGED <<passive, free>>
        /\ waits' = [waits EXCEPT ![c] = p] /\ Posts(c, p) /\ R!Ready(c)
    BY <1>1 DEF R!SendAndDrop, R!Ready, Posts
  <2>2. CASE reuseWqe[c] = pollingInterval - 1
    BY <1>1, <2>1, <2>2 DEF R!SendAndDrop, Dropped
  <2>3. CASE reuseWqe[c] # pollingInterval - 1
    <3>1. active' = [active EXCEPT ![c] = Append(@, p)]
      <4>1. R!Add(active[c], p) = Append(active[c], p)
        BY ReuseAssumption DEF R!Add
      <4> QED
        BY <1>1, <2>3, <4>1 DEF R!SendAndDrop
    <3>2. pending' = [pending EXCEPT ![c] = [wait |-> FALSE, add |-> R!NoPage]]
      BY <1>1, <2>3 DEF R!SendAndDrop, R!Nothing
    <3>3. (reuseWqe[c] = pollingInterval - 1) = FALSE
      BY <2>3
    <3> QED
      BY <2>1, <3>1, <3>2, <3>3 DEF Dropped
  <2> QED
    BY <2>1, <2>2, <2>3
<1>2. CASE R!DropAndAnswer(c, p)
  <2>1. /\ ~pending[c].wait /\ p \in resident /\ resident' = resident \ {p} /\ UNCHANGED <<passive, free>>
        /\ waits' = [waits EXCEPT ![c] = p] /\ Posts(c, R!NoPage) /\ R!Ready(c)
        /\ pending' = [pending EXCEPT ![c].wait = (reuseWqe[c] = pollingInterval - 1)]
    BY <1>2 DEF R!DropAndAnswer, R!Ready, Posts, R!Post
  <2>2. active' = [active EXCEPT ![c] = Append(@, p)]
    <3>1. R!Add(active[c], p) = Append(active[c], p)
      BY ReuseAssumption DEF R!Add
    <3> QED
      BY <1>2, <3>1 DEF R!DropAndAnswer
  <2>3. pending[c].add = R!NoPage
    BY <2>1 DEF BatchLengths
  <2>4. pending' = [pending EXCEPT ![c] = [wait |-> reuseWqe[c] = pollingInterval - 1, add |-> R!NoPage]]
    <3> DEFINE b == (reuseWqe[c] = pollingInterval - 1)
    <3>1. pending[c] \in [wait : BOOLEAN, add : ReusePage \cup {R!NoPage}]
      OBVIOUS
    <3>2. pending' = [pending EXCEPT ![c] = [pending[c] EXCEPT !.wait = b]]
      BY <2>1
    <3> HIDE DEF b
    <3>3. [pending[c] EXCEPT !.wait = b] = [wait |-> b, add |-> R!NoPage]
      BY ONLY <2>3, <3>1
    <3> QED
      BY <3>2, <3>3 DEF b
  <2> QED
    BY <2>1, <2>2, <2>4 DEF Dropped
<1> QED
  BY <1>1, <1>2

(* A page is given away. *)
LEMMA DropStep ==
  ASSUME ReuseInv, NEW c \in Conn, NEW p \in ReusePage, R!SendAndDrop(c, p) \/ R!DropAndAnswer(c, p)
  PROVE  ReuseInv' /\ (SentUntilReady => SentUntilReady')
<1> USE DEF ReuseInv, ReuseTypes
<1>1. Dropped(c, p) /\ R!Ready(c)
  BY DropIsDrop
<1>2. PICK x \in {p, R!NoPage} : Posts(c, x)
  BY DropIsDrop
<1>3. /\ posts' \in [Conn -> Seq(PostType)]
      /\ reuseWqe' \in [Conn -> 0..(pollingInterval - 1)]
      /\ \A d \in Conn : d # c => reuseWqe'[d] = reuseWqe[d]
      /\ reuseWqe[c] = pollingInterval - 1 => reuseWqe'[c] = 0
      /\ reuseWqe[c] # pollingInterval - 1 => reuseWqe'[c] = reuseWqe[c] + 1
      /\ \A q : R!InFlight(q)' <=> R!InFlight(q) \/ q = x
  BY <1>2, PostStep
<1>4. /\ ~pending[c].wait /\ p \in resident /\ resident' = resident \ {p} /\ passive' = passive /\ free' = free
      /\ waits' \in [Conn -> ReusePage \cup {R!NoPage}] /\ waits'[c] = p
      /\ \A d \in Conn : d # c => waits'[d] = waits[d]
      /\ pending[c].add = R!NoPage /\ Len(active[c]) <= reuseWqe[c] + 1
  BY <1>1 DEF Dropped, BatchLengths
<1>5. /\ p \notin free /\ \A d \in Conn : ~Sits(d, p)
      /\ ~In(active[c], p) /\ ~In(passive[c], p)
  BY <1>4 DEF OnePlace, Sits
<1>6. /\ active[c] \in Seq(ReusePage)
      /\ active' \in [Conn -> Seq(ReusePage)]
      /\ pending' \in [Conn -> [wait : BOOLEAN, add : ReusePage \cup {R!NoPage}]]
      /\ \A d \in Conn : d # c => active'[d] = active[d] /\ pending'[d] = pending[d]
      /\ \/ /\ active'[c] = Append(active[c], p) /\ pending'[c].add = R!NoPage
            /\ (pending'[c].wait <=> reuseWqe[c] = pollingInterval - 1)
         \/ /\ active'[c] = active[c] /\ pending'[c].add = p /\ pending'[c].wait
            /\ reuseWqe[c] = pollingInterval - 1
  <2>1. active[c] \in Seq(ReusePage) /\ Append(active[c], p) \in Seq(ReusePage)
    BY InAppend
  <2>2. CASE /\ active' = [active EXCEPT ![c] = Append(@, p)]
             /\ pending' = [pending EXCEPT ![c] = [wait |-> reuseWqe[c] = pollingInterval - 1, add |-> R!NoPage]]
    <3>1. /\ active' \in [Conn -> Seq(ReusePage)] /\ active'[c] = Append(active[c], p)
          /\ \A d \in Conn : d # c => active'[d] = active[d]
      BY <2>1, <2>2
    <3>2. /\ pending' \in [Conn -> [wait : BOOLEAN, add : ReusePage \cup {R!NoPage}]]
          /\ pending'[c].add = R!NoPage /\ (pending'[c].wait <=> reuseWqe[c] = pollingInterval - 1)
          /\ \A d \in Conn : d # c => pending'[d] = pending[d]
      BY <2>2
    <3> QED
      BY <2>1, <3>1, <3>2
  <2>3. CASE /\ active' = active /\ reuseWqe[c] = pollingInterval - 1
             /\ pending' = [pending EXCEPT ![c] = [wait |-> TRUE, add |-> p]]
    BY <2>1, <2>3
  <2> QED
    BY <1>1, <2>2, <2>3 DEF Dropped
<1>7. ReuseTypes'
  BY <1>3, <1>4, <1>6
<1>8. /\ \A q : In(active'[c], q) => In(active[c], q) \/ q = p
      /\ \A q : In(active[c], q) => In(active'[c], q)
      /\ In(active'[c], p) <=> pending'[c].add # p
      /\ Distinct(active'[c])
      /\ pending'[c].add \in {R!NoPage, p}
  <2>1. Distinct(active[c])
    BY DEF OnceInBatch
  <2>2. /\ \A q : In(Append(active[c], p), q) <=> In(active[c], q) \/ q = p
        /\ Distinct(Append(active[c], p))
    BY ONLY p \in ReusePage, <1>5, <1>6, <2>1, InAppend
  <2>3. CASE active'[c] = Append(active[c], p) /\ pending'[c].add = R!NoPage
    BY ONLY p \in ReusePage, <2>2, <2>3, ReuseAssumption
  <2>4. CASE active'[c] = active[c] /\ pending'[c].add = p
    BY ONLY <1>5, <2>1, <2>4
  <2> QED
    BY <1>6, <2>3, <2>4
<1>9. \A q \in ReusePage : \A d \in Conn :
        /\ Sits(d, q)' <=> Sits(d, q) \/ (d = c /\ q = p)
        /\ d # c => (In(active[d], q)' <=> In(active[d], q)) /\ (In(passive[d], q)' <=> In(passive[d], q))
        /\ In(passive[d], q)' <=> In(passive[d], q)
  <2>1. \A q \in ReusePage : \A d \in Conn :
          /\ d # c => (In(active[d], q)' <=> In(active[d], q))
          /\ In(passive[d], q)' <=> In(passive[d], q)
    BY <1>4, <1>6 DEF In
  <2>2. \A q \in ReusePage : Sits(c, q)' <=> Sits(c, q) \/ q = p
    <3>1. \A q \in ReusePage : In(active[c], q)' <=> In(active'[c], q)
      BY DEF In
    <3> QED
      BY <1>4, <1>8, <2>1, <3>1, ReuseAssumption DEF Sits
  <2>3. \A q \in ReusePage : \A d \in Conn : d # c => (Sits(d, q)' <=> Sits(d, q))
    BY <1>6, <2>1 DEF Sits
  <2> QED
    BY <2>1, <2>2, <2>3
<1>10. OnePlace'
  <2> SUFFICES ASSUME NEW q \in ReusePage
               PROVE  /\ q \in free' \/ q \in resident' \/ \E d \in Conn : Sits(d, q)'
                      /\ ~(q \in free' /\ q \in resident')
                      /\ \A d \in Conn :
                           /\ Sits(d, q)' => q \notin free' /\ q \notin resident'
                           /\ In(active[d], q)' => ~In(passive[d], q)' /\ pending'[d].add # q
                           /\ In(passive[d], q)' => pending'[d].add # q
                           /\ \A e \in Conn : Sits(d, q)' /\ Sits(e, q)' => d = e
    BY DEF OnePlace
  <2>1. q \in free' \/ q \in resident' \/ \E d \in Conn : Sits(d, q)'
    BY <1>4, <1>9 DEF OnePlace
  <2>2. ~(q \in free' /\ q \in resident')
    BY <1>4 DEF OnePlace
  <2>3. ASSUME NEW d \in Conn
        PROVE  /\ Sits(d, q)' => q \notin free' /\ q \notin resident'
               /\ \A e \in Conn : Sits(d, q)' /\ Sits(e, q)' => d = e
    BY <1>4, <1>5, <1>9 DEF OnePlace
  <2>4. ASSUME NEW d \in Conn, d # c
        PROVE  /\ In(active[d], q)' => ~In(passive[d], q)' /\ pending'[d].add # q
               /\ In(passive[d], q)' => pending'[d].add # q
    BY <1>6, <1>9, <2>4 DEF OnePlace
  <2>5. /\ In(active[c], q)' => ~In(passive[c], q)' /\ pending'[c].add # q
        /\ In(passive[c], q)' => pending'[c].add # q
    <3>1. In(active[c], q)' <=> In(active'[c], q)
      BY DEF In
    <3>2. In(passive[c], q)' <=> In(passive[c], q)
      BY <1>9
    <3> QED
      BY <1>4, <1>5, <1>8, <3>1, <3>2, ReuseAssumption DEF OnePlace
  <2> QED
    BY <2>1, <2>2, <2>3, <2>4, <2>5
<1>11. OnceInBatch'
  <2>1. \A d \in Conn : (Distinct(passive[d])' <=> Distinct(passive[d])) /\ (Distinct(active[d])' <=> Distinct(active'[d]))
    BY <1>4 DEF Distinct
  <2> QED
    BY <1>6, <1>8, <2>1 DEF OnceInBatch
<1>12. BatchLengths'
  <2>1. /\ reuseWqe[c] \in Nat /\ reuseWqe[c] <= pollingInterval - 1 /\ Len(active[c]) \in Nat
        /\ pollingInterval \in Nat
    BY <1>6, ReuseAssumption
  <2>2. Len(active'[c]) = Len(active[c]) + 1 \/ (Len(active'[c]) = Len(active[c]) /\ reuseWqe[c] = pollingInterval - 1)
    BY <1>6, InAppend
  <2>3. /\ ~pending'[c].wait => Len(active'[c]) <= reuseWqe'[c] + 1 /\ pending'[c].add = R!NoPage
        /\ pending'[c].wait => Len(active'[c]) <= pollingInterval + 1 /\ reuseWqe'[c] = 0
    <3>1. /\ Len(active[c]) <= reuseWqe[c] + 1
          /\ reuseWqe[c] = pollingInterval - 1 => reuseWqe'[c] = 0
          /\ reuseWqe[c] # pollingInterval - 1 => reuseWqe'[c] = reuseWqe[c] + 1
      BY ONLY <1>3, <1>4
    <3>2. /\ pending'[c].wait => reuseWqe[c] = pollingInterval - 1
          /\ ~pending'[c].wait => reuseWqe[c] # pollingInterval - 1 /\ pending'[c].add = R!NoPage
      BY ONLY <1>6
    <3> QED
      BY ONLY <2>1, <2>2, <3>1, <3>2
  <2>4. /\ \A d \in Conn : d # c => /\ active'[d] = active[d] /\ pending'[d] = pending[d]
                                   /\ reuseWqe'[d] = reuseWqe[d]
        /\ passive' = passive
    BY ONLY <1>3, <1>4, <1>6
  <2> QED
    BY ONLY ReuseInv, <2>3, <2>4 DEF ReuseInv, BatchLengths
<1>13. ASSUME SentUntilReady PROVE SentUntilReady'
  <2>1. \A q \in ReusePage : Sits(c, q) => ~R!InFlight(q)
    BY <1>1, <1>13, ReadyIsQuiet
  <2>2. \A q \in free' : ~R!InFlight(q)'
    BY <1>3, <1>4, <1>5, <1>13, ReuseAssumption DEF SentUntilReady
  <2>3. ASSUME NEW d \in Conn, NEW q \in ReusePage, Sits(d, q)', R!InFlight(q)'
        PROVE  waits'[d] = q /\ (In(passive[d], q)' => ~pending'[d].wait)
    <3>1. CASE q = p
      <4>1. d = c
        BY <1>5, <1>9, <2>3, <3>1
      <4> QED
        BY <1>4, <1>5, <1>9, <3>1, <4>1
    <3>2. CASE q # p
      <4>1. Sits(d, q) /\ R!InFlight(q) /\ d # c
        BY <1>3, <1>9, <2>1, <2>3, <3>2, ReuseAssumption
      <4> QED
        BY <1>4, <1>6, <1>9, <1>13, <4>1 DEF SentUntilReady
    <3> QED
      BY <3>1, <3>2
  <2> QED
    BY <2>2, <2>3 DEF SentUntilReady
<1> QED
  BY <1>7, <1>10, <1>11, <1>12, <1>13

(* A copy or an answer without page is sent. *)
LEMMA CopyStep ==
  ASSUME ReuseInv, NEW c \in Conn, R!Answer(c) \/ \E p \in ReusePage : R!SendCopy(c, p)
  PROVE  ReuseInv' /\ (SentUntilReady => SentUntilReady')
<1> USE DEF ReuseInv, ReuseTypes
<1>1. PICK x \in ReusePage \cup {R!NoPage} : Posts(c, x) /\ (x \in resident \/ x = R!NoPage)
  BY DEF R!Answer, R!SendCopy, R!Post, Posts
<1>2. /\ R!Ready(c) /\ ~pending[c].wait /\ UNCHANGED <<active, passive, resident, free>>
      /\ waits' = [waits EXCEPT ![c] = R!NoPage]
      /\ pending' = [pending EXCEPT ![c].wait = (reuseWqe[c] = pollingInterval - 1)]
  BY DEF R!Answer, R!SendCopy, R!Post, R!Ready
<1>3. /\ posts' \in [Conn -> Seq(PostType)]
      /\ reuseWqe' \in [Conn -> 0..(pollingInterval - 1)]
      /\ \A d \in Conn : d # c => reuseWqe'[d] = reuseWqe[d]
      /\ reuseWqe[c] = pollingInterval - 1 => reuseWqe'[c] = 0
      /\ reuseWqe[c] # pollingInterval - 1 => reuseWqe'[c] = reuseWqe[c] + 1
      /\ \A q : R!InFlight(q)' <=> R!InFlight(q) \/ q = x
  BY <1>1, PostStep
<1>4. /\ waits' \in [Conn -> ReusePage \cup {R!NoPage}]
      /\ \A d \in Conn : d # c => waits'[d] = waits[d] /\ pending'[d] = pending[d]
      /\ pending' \in [Conn -> [wait : BOOLEAN, add : ReusePage \cup {R!NoPage}]]
      /\ pending'[c].add = pending[c].add /\ (pending'[c].wait <=> reuseWqe[c] = pollingInterval - 1)
  BY <1>2
<1>5. ReuseTypes'
  BY <1>2, <1>3, <1>4
<1>6. \A q \in ReusePage : \A d \in Conn : /\ Sits(d, q)' <=> Sits(d, q)
                                           /\ In(active[d], q)' <=> In(active[d], q)
                                           /\ In(passive[d], q)' <=> In(passive[d], q)
                                           /\ pending'[d].add = pending[d].add
  BY <1>2, <1>4 DEF Sits, In
<1>7. OnePlace'
  BY <1>2, <1>6 DEF OnePlace
<1>8. OnceInBatch'
  BY <1>2 DEF OnceInBatch, Distinct
<1>9. BatchLengths'
  <2>1. /\ reuseWqe[c] \in Nat /\ reuseWqe[c] <= pollingInterval - 1 /\ Len(active[c]) \in Nat
        /\ pollingInterval \in Nat /\ Len(active[c]) <= reuseWqe[c] + 1 /\ pending[c].add = R!NoPage
    BY <1>2, ReuseAssumption DEF BatchLengths
  <2>2. /\ ~pending'[c].wait => Len(active'[c]) <= reuseWqe'[c] + 1 /\ pending'[c].add = R!NoPage
        /\ pending'[c].wait => Len(active'[c]) <= pollingInterval + 1 /\ reuseWqe'[c] = 0
    BY <1>2, <1>3, <1>4, <2>1
  <2> QED
    BY <1>2, <1>3, <1>4, <2>2 DEF BatchLengths
<1>10. ASSUME SentUntilReady PROVE SentUntilReady'
  <2>1. \A q \in ReusePage : Sits(c, q) => ~R!InFlight(q)
    BY <1>2, <1>10, ReadyIsQuiet
  <2>2. \A q \in free' : ~R!InFlight(q)'
    BY <1>1, <1>2, <1>3, <1>10, ReuseAssumption DEF SentUntilReady, OnePlace
  <2>3. ASSUME NEW d \in Conn, NEW q \in ReusePage, Sits(d, q)', R!InFlight(q)'
        PROVE  waits'[d] = q /\ (In(passive[d], q)' => ~pending'[d].wait)
    <3>1. q # x
      BY <1>1, <1>6, <2>3, ReuseAssumption DEF OnePlace
    <3>2. Sits(d, q) /\ R!InFlight(q) /\ d # c
      BY <1>3, <1>6, <2>1, <2>3, <3>1
    <3> QED
      BY <1>4, <1>6, <1>10, <3>2 DEF SentUntilReady
  <2> QED
    BY <2>2, <2>3 DEF SentUntilReady
<1> QED
  BY <1>5, <1>7, <1>8, <1>9, <1>10

(* A completion: the pages of the passive batch are free, and the batches change places. *)
LEMMA PollStep ==
  ASSUME ReuseInv, NEW c \in Conn, R!Poll(c)
  PROVE  ReuseInv' /\ (SentUntilReady => SentUntilReady')
<1> USE DEF ReuseInv, ReuseTypes
<1> DEFINE a == R!Add(<<>>, pending[c].add)
           gone == {passive[c][i] : i \in 1..Len(passive[c])}
<1>1. /\ pending[c].wait /\ free' = free \cup gone
      /\ active' = [active EXCEPT ![c] = a] /\ passive' = [passive EXCEPT ![c] = active[c]]
      /\ pending' = [pending EXCEPT ![c] = [wait |-> FALSE, add |-> R!NoPage]]
      /\ UNCHANGED <<reuseWqe, posts, resident, waits>>
  BY DEF R!Poll, R!Nothing
<1>2. /\ a \in Seq(ReusePage) /\ Len(a) <= 1 /\ Distinct(a)
      /\ \A q \in ReusePage : In(a, q) <=> pending[c].add = q
  <2>0. pending[c].add \in ReusePage \cup {R!NoPage}
    OBVIOUS
  <2> DEFINE p == pending[c].add
  <2>1. CASE p = R!NoPage
    <3>1. a = <<>> /\ p \notin ReusePage
      BY <2>1, ReuseAssumption DEF R!Add
    <3> HIDE DEF a, p
    <3>2. a \in Seq(ReusePage) /\ Len(a) = 0
      BY ONLY <3>1
    <3> QED
      BY ONLY <3>1, <3>2 DEF In, Distinct, p
  <2>2. CASE p # R!NoPage
    <3>1. a = Append(<<>>, p) /\ p \in ReusePage
      BY <2>0, <2>2 DEF R!Add
    <3>2. <<>> \in Seq(ReusePage) /\ Len(<<>>) = 0 /\ Distinct(<<>>) /\ \A q : ~In(<<>>, q)
      BY DEF In, Distinct
    <3> HIDE DEF a, p
    <3>3. /\ Append(<<>>, p) \in Seq(ReusePage) /\ Len(Append(<<>>, p)) = Len(<<>>) + 1
          /\ \A q : In(Append(<<>>, p), q) <=> In(<<>>, q) \/ q = p
          /\ Distinct(<<>>) /\ ~In(<<>>, p) => Distinct(Append(<<>>, p))
      BY ONLY <3>1, <3>2, InAppend
    <3>4. a \in Seq(ReusePage) /\ Len(a) = 1 /\ Distinct(a)
      BY ONLY <3>1, <3>2, <3>3
    <3>5. \A q : In(a, q) <=> p = q
      BY ONLY <3>1, <3>2, <3>3
    <3> QED
      BY ONLY <3>4, <3>5 DEF p
  <2> QED
    BY <2>1, <2>2
<1>3. gone \subseteq ReusePage /\ \A q : q \in gone <=> In(passive[c], q)
  <2>1. passive[c] \in Seq(ReusePage)
    OBVIOUS
  <2>2. \A i \in 1..Len(passive[c]) : passive[c][i] \in ReusePage
    BY <2>1
  <2> QED
    BY <2>2 DEF In
<1> HIDE DEF a, gone
<1>4. /\ active' \in [Conn -> Seq(ReusePage)] /\ passive' \in [Conn -> Seq(ReusePage)]
      /\ active'[c] = a /\ passive'[c] = active[c]
      /\ pending' \in [Conn -> [wait : BOOLEAN, add : ReusePage \cup {R!NoPage}]]
      /\ ~pending'[c].wait /\ pending'[c].add = R!NoPage
      /\ \A d \in Conn : d # c => active'[d] = active[d] /\ passive'[d] = passive[d] /\ pending'[d] = pending[d]
  BY <1>1, <1>2
<1>5. ReuseTypes'
  BY <1>1, <1>3, <1>4
<1>6. \A q \in ReusePage :
        /\ In(active[c], q)' <=> pending[c].add = q
        /\ In(passive[c], q)' <=> In(active[c], q)
        /\ Sits(c, q)' <=> In(active[c], q) \/ pending[c].add = q
        /\ \A d \in Conn : d # c => /\ Sits(d, q)' <=> Sits(d, q)
                                    /\ In(active[d], q)' <=> In(active[d], q)
                                    /\ In(passive[d], q)' <=> In(passive[d], q)
                                    /\ pending'[d].add = pending[d].add
  <2>1. \A q \in ReusePage : /\ In(active[c], q)' <=> In(active'[c], q)
                             /\ In(passive[c], q)' <=> In(passive'[c], q)
    BY DEF In
  <2>2. \A q \in ReusePage : /\ In(active[c], q)' <=> pending[c].add = q
                             /\ In(passive[c], q)' <=> In(active[c], q)
    BY <1>2, <1>4, <2>1
  <2>3. \A q \in ReusePage : Sits(c, q)' <=> In(active[c], q) \/ pending[c].add = q
    BY <1>4, <2>2, ReuseAssumption DEF Sits
  <2>4. \A q \in ReusePage : \A d \in Conn : d # c => /\ In(active[d], q)' <=> In(active[d], q)
                                                      /\ In(passive[d], q)' <=> In(passive[d], q)
                                                      /\ pending'[d].add = pending[d].add
    BY <1>4 DEF In
  <2>5. \A q \in ReusePage : \A d \in Conn : d # c => (Sits(d, q)' <=> Sits(d, q))
    BY <2>4 DEF Sits
  <2> QED
    BY <2>2, <2>3, <2>4, <2>5
<1>7. OnePlace'
  <2> SUFFICES ASSUME NEW q \in ReusePage
               PROVE  /\ q \in free' \/ q \in resident' \/ \E d \in Conn : Sits(d, q)'
                      /\ ~(q \in free' /\ q \in resident')
                      /\ \A d \in Conn :
                           /\ Sits(d, q)' => q \notin free' /\ q \notin resident'
                           /\ In(active[d], q)' => ~In(passive[d], q)' /\ pending'[d].add # q
                           /\ In(passive[d], q)' => pending'[d].add # q
                           /\ \A e \in Conn : Sits(d, q)' /\ Sits(e, q)' => d = e
    BY DEF OnePlace
  <2>1. Sits(c, q)' => Sits(c, q) /\ q \notin gone
    BY <1>3, <1>6 DEF OnePlace, Sits
  <2>2. q \in gone => Sits(c, q)
    BY <1>3 DEF Sits
  <2>3. Sits(c, q) => Sits(c, q)' \/ q \in gone
    BY <1>3, <1>6 DEF Sits
  <2>4. q \in free' \/ q \in resident' \/ \E d \in Conn : Sits(d, q)'
    BY <1>1, <1>6, <2>3 DEF OnePlace
  <2>5. ~(q \in free' /\ q \in resident')
    BY <1>1, <2>2 DEF OnePlace
  <2>6. ASSUME NEW d \in Conn
        PROVE  /\ Sits(d, q)' => q \notin free' /\ q \notin resident'
               /\ \A e \in Conn : Sits(d, q)' /\ Sits(e, q)' => d = e
    <3>1. \A e \in Conn : Sits(e, q)' => Sits(e, q) /\ q \notin gone
      BY <1>6, <2>1, <2>2 DEF OnePlace
    <3> QED
      BY <1>1, <3>1 DEF OnePlace
  <2>7. ASSUME NEW d \in Conn
        PROVE  /\ In(active[d], q)' => ~In(passive[d], q)' /\ pending'[d].add # q
               /\ In(passive[d], q)' => pending'[d].add # q
    <3>1. CASE d = c
      BY <1>4, <1>6, <3>1, ReuseAssumption DEF OnePlace
    <3>2. CASE d # c
      BY <1>6, <3>2 DEF OnePlace
    <3> QED
      BY <3>1, <3>2
  <2> QED
    BY <2>4, <2>5, <2>6, <2>7
<1>8. OnceInBatch'
  <2>1. \A d \in Conn : (Distinct(passive[d])' <=> Distinct(passive'[d])) /\ (Distinct(active[d])' <=> Distinct(active'[d]))
    BY DEF Distinct
  <2> QED
    BY <1>2, <1>4, <2>1 DEF OnceInBatch
<1>9. BatchLengths'
  <2>1. Len(active[c]) <= pollingInterval + 1 /\ reuseWqe[c] = 0
    BY <1>1 DEF BatchLengths
  <2> QED
    BY <1>1, <1>2, <1>4, <2>1 DEF BatchLengths
<1>10. ASSUME SentUntilReady PROVE SentUntilReady'
  <2>1. \A q : R!InFlight(q)' <=> R!InFlight(q)
    BY <1>1 DEF R!InFlight, R!Sends
  <2>2. \A q \in gone : ~R!InFlight(q)
    BY <1>1, <1>3, <1>10 DEF SentUntilReady, Sits
  <2>3. \A q \in free' : ~R!InFlight(q)'
    BY <1>1, <1>10, <2>1, <2>2 DEF SentUntilReady
  <2>4. ASSUME NEW d \in Conn, NEW q \in ReusePage, Sits(d, q)', R!InFlight(q)'
        PROVE  waits'[d] = q /\ (In(passive[d], q)' => ~pending'[d].wait)
    <3>1. Sits(d, q) /\ R!InFlight(q)
      BY <1>6, <2>1, <2>4 DEF Sits
    <3> QED
      BY <1>1, <1>4, <1>6, <1>10, <3>1 DEF SentUntilReady
  <2> QED
    BY <2>3, <2>4 DEF SentUntilReady
<1> QED
  BY <1>5, <1>7, <1>8, <1>9, <1>10

(* The card finishes a write. *)
LEMMA FinishStep ==
  ASSUME ReuseInv, NEW c \in Conn, R!Finish(c)
  PROVE  ReuseInv' /\ (SentUntilReady => SentUntilReady')
<1> USE DEF ReuseInv, ReuseTypes
<1>1. /\ posts[c] # <<>> /\ posts[c] \in Seq(PostType) /\ posts' = [posts EXCEPT ![c] = Tail(posts[c])]
      /\ UNCHANGED <<reuseWqe, active, passive, pending, resident, free, waits>>
  BY DEF R!Finish
<1>2. /\ Tail(posts[c]) \in Seq(PostType) /\ Len(Tail(posts[c])) = Len(posts[c]) - 1 /\ Len(posts[c]) \in Nat
      /\ \A i \in 1..Len(Tail(posts[c])) : Tail(posts[c])[i] = posts[c][i + 1]
  BY <1>1, TailOf
<1>3. \A q : R!InFlight(q)' => R!InFlight(q)
  <2>1. \A i \in 1..Len(Tail(posts[c])) : i + 1 \in 1..Len(posts[c])
    BY <1>2
  <2>2. posts'[c] = Tail(posts[c]) /\ \A d \in Conn : d # c => posts'[d] = posts[d]
    BY <1>1
  <2>3. \A q : R!Sends(c, q)' => R!Sends(c, q)
    BY ONLY <1>2, <2>1, <2>2 DEF R!Sends
  <2>4. \A q : \A d \in Conn : d # c => (R!Sends(d, q)' => R!Sends(d, q))
    BY <2>2 DEF R!Sends
  <2> QED
    BY <2>3, <2>4 DEF R!InFlight
<1>4. ReuseTypes'
  BY <1>1, <1>2
<1>5. \A q \in ReusePage : \A d \in Conn : /\ Sits(d, q)' <=> Sits(d, q)
                                           /\ In(active[d], q)' <=> In(active[d], q)
                                           /\ In(passive[d], q)' <=> In(passive[d], q)
  BY <1>1 DEF Sits, In
<1>6. OnePlace'
  BY <1>1, <1>5 DEF OnePlace
<1>7. OnceInBatch' /\ BatchLengths'
  BY <1>1 DEF OnceInBatch, Distinct, BatchLengths
<1>8. SentUntilReady => SentUntilReady'
  BY <1>1, <1>3, <1>5 DEF SentUntilReady
<1> QED
  BY <1>4, <1>6, <1>7, <1>8

(* A free page is filled, or the page provider evicts a page. *)
LEMMA PageStep ==
  ASSUME ReuseInv, NEW p \in ReusePage, R!Fill(p) \/ R!EvictCopy(p)
  PROVE  ReuseInv' /\ (SentUntilReady /\ ~EvictCopies => SentUntilReady')
<1> USE DEF ReuseInv, ReuseTypes
<1>1. /\ UNCHANGED <<reuseWqe, posts, active, passive, pending, waits>>
      /\ \/ p \in free /\ free' = free \ {p} /\ resident' = resident \cup {p}
         \/ /\ p \in resident /\ free' = free \cup {p} /\ resident' = resident \ {p}
            /\ EvictCopies \/ ~R!InFlight(p)
  BY DEF R!Fill, R!EvictCopy
<1>2. ReuseTypes'
  BY <1>1
<1>3. \A q \in ReusePage : \A d \in Conn : /\ Sits(d, q)' <=> Sits(d, q)
                                           /\ In(active[d], q)' <=> In(active[d], q)
                                           /\ In(passive[d], q)' <=> In(passive[d], q)
  BY <1>1 DEF Sits, In
<1>4. OnePlace'
  BY <1>1, <1>3 DEF OnePlace
<1>5. OnceInBatch' /\ BatchLengths'
  BY <1>1 DEF OnceInBatch, Distinct, BatchLengths
<1>6. ASSUME SentUntilReady, ~EvictCopies PROVE SentUntilReady'
  <2>1. \A q : R!InFlight(q)' <=> R!InFlight(q)
    BY <1>1 DEF R!InFlight, R!Sends
  <2> QED
    BY <1>1, <1>3, <1>6, <2>1 DEF SentUntilReady
<1> QED
  BY <1>2, <1>4, <1>5, <1>6

(* Every step of handlers, network card and page provider keeps the invariants. *)
LEMMA ReuseSteps ==
  ReuseInv /\ [R!Next]_reuseVars => ReuseInv' /\ (SentUntilReady /\ ~EvictCopies => SentUntilReady')
<1> SUFFICES ASSUME ReuseInv, [R!Next]_reuseVars
             PROVE  ReuseInv' /\ (SentUntilReady /\ ~EvictCopies => SentUntilReady')
  OBVIOUS
<1>1. CASE UNCHANGED reuseVars
  <2>1. \A q : \A d \in Conn : /\ Sits(d, q)' <=> Sits(d, q)
                               /\ In(active[d], q)' <=> In(active[d], q)
                               /\ In(passive[d], q)' <=> In(passive[d], q)
                               /\ R!Sends(d, q)' <=> R!Sends(d, q)
    BY <1>1 DEF reuseVars, Sits, In, R!Sends
  <2>2. \A q : R!InFlight(q)' <=> R!InFlight(q)
    BY <2>1 DEF R!InFlight
  <2>3. ReuseTypes' /\ OnePlace' /\ OnceInBatch' /\ BatchLengths'
    BY <1>1, <2>1 DEF reuseVars, ReuseInv, ReuseTypes, OnePlace, OnceInBatch, Distinct, BatchLengths
  <2>4. SentUntilReady => SentUntilReady'
    BY <1>1, <2>1, <2>2 DEF reuseVars, SentUntilReady
  <2> QED
    BY <2>3, <2>4 DEF ReuseInv
<1>2. CASE R!Next
  BY <1>2, DropStep, CopyStep, PollStep, FinishStep, PageStep DEF R!Next, R!Handler
<1> QED
  BY <1>1, <1>2

(* A page is in a batch once or not at all. *)
LEMMA CountOf ==
  ASSUME NEW s \in Seq(ReusePage), NEW p, Distinct(s)
  PROVE  R!Count(s, p) = IF In(s, p) THEN 1 ELSE 0
<1>1. \A X : R!Cardinality(X) = Cardinality(X)
  BY DEF R!Cardinality, Cardinality
<1>2. CASE In(s, p)
  <2>1. PICK i \in 1..Len(s) : s[i] = p
    BY <1>2 DEF In
  <2>2. {j \in 1..Len(s) : s[j] = p} = {i}
    BY <2>1 DEF Distinct
  <2>3. Cardinality({i}) = 1
    BY FS_Singleton
  <2> QED
    BY <1>1, <1>2, <2>2, <2>3 DEF R!Count
<1>3. CASE ~In(s, p)
  <2>1. {j \in 1..Len(s) : s[j] = p} = {}
    BY <1>3 DEF In
  <2>2. Cardinality({}) = 0
    BY FS_EmptySet
  <2> QED
    BY <1>1, <1>3, <2>1, <2>2 DEF R!Count
<1> QED
  BY <1>2, <1>3

(* What the invariant says of the batches and of the places of pages *)
LEMMA ReuseFacts == ReuseInv => R!BatchFits /\ R!PagesAreConserved
<1> SUFFICES ASSUME ReuseInv PROVE R!BatchFits /\ R!PagesAreConserved
  OBVIOUS
<1> USE DEF ReuseInv
<1>1. R!BatchFits
  <2> SUFFICES ASSUME NEW c \in Conn
               PROVE  Len(active[c]) <= pollingInterval + 1 /\ Len(passive[c]) <= pollingInterval + 1
    BY DEF R!BatchFits
  <2>1. /\ reuseWqe[c] \in 0..(pollingInterval - 1) /\ pollingInterval \in Nat /\ Len(active[c]) \in Nat
        /\ pending[c].wait \in BOOLEAN
    BY ReuseAssumption DEF ReuseTypes
  <2>2. /\ ~pending[c].wait => Len(active[c]) <= reuseWqe[c] + 1
        /\ pending[c].wait => Len(active[c]) <= pollingInterval + 1
        /\ Len(passive[c]) <= pollingInterval + 1
    BY DEF BatchLengths
  <2> QED
    BY ONLY <2>1, <2>2
<1>2. \A c \in Conn : \A p \in ReusePage :
        /\ R!Count(active[c], p) = IF In(active[c], p) THEN 1 ELSE 0
        /\ R!Count(passive[c], p) = IF In(passive[c], p) THEN 1 ELSE 0
  <2>1. \A c \in Conn : /\ active[c] \in Seq(ReusePage) /\ passive[c] \in Seq(ReusePage)
                        /\ Distinct(active[c]) /\ Distinct(passive[c])
    BY DEF ReuseTypes, OnceInBatch
  <2> QED
    BY ONLY <2>1, CountOf
<1>3. \A c \in Conn : \A p \in ReusePage : R!Parked(c, p) = IF Sits(c, p) THEN 1 ELSE 0
  <2> SUFFICES ASSUME NEW c \in Conn, NEW p \in ReusePage
               PROVE  R!Parked(c, p) = IF Sits(c, p) THEN 1 ELSE 0
    OBVIOUS
  <2>1. /\ In(active[c], p) => ~In(passive[c], p) /\ pending[c].add # p
        /\ In(passive[c], p) => pending[c].add # p
    BY DEF OnePlace
  <2> QED
    BY ONLY <1>2, <2>1 DEF R!Parked, Sits
<1>4. R!PagesAreConserved
  <2> SUFFICES ASSUME NEW p \in ReusePage
               PROVE  \/ p \in free /\ p \notin resident /\ \A c \in Conn : R!Parked(c, p) = 0
                      \/ p \in resident /\ p \notin free /\ \A c \in Conn : R!Parked(c, p) = 0
                      \/ /\ p \notin free \cup resident
                         /\ \E c \in Conn : R!Parked(c, p) = 1 /\ \A d \in Conn \ {c} : R!Parked(d, p) = 0
    BY DEF R!PagesAreConserved
  <2>1. /\ p \in free \/ p \in resident \/ \E c \in Conn : Sits(c, p)
        /\ ~(p \in free /\ p \in resident)
        /\ \A c \in Conn : Sits(c, p) => p \notin free /\ p \notin resident
        /\ \A c, d \in Conn : Sits(c, p) /\ Sits(d, p) => c = d
    BY DEF OnePlace
  <2>2. \A c \in Conn : /\ Sits(c, p) => R!Parked(c, p) = 1
                        /\ ~Sits(c, p) => R!Parked(c, p) = 0
    BY <1>3
  <2>3. CASE \E c \in Conn : Sits(c, p)
    <3>1. PICK c \in Conn : Sits(c, p)
      BY <2>3
    <3>2. p \notin free \cup resident /\ R!Parked(c, p) = 1
      BY ONLY <2>1, <2>2, <3>1
    <3>3. \A d \in Conn \ {c} : R!Parked(d, p) = 0
      BY ONLY <2>1, <2>2, <3>1
    <3> QED
      BY <3>2, <3>3
  <2>4. CASE ~\E c \in Conn : Sits(c, p)
    BY ONLY <2>1, <2>2, <2>4
  <2> QED
    BY <2>3, <2>4
<1> QED
  BY <1>1, <1>4

(***************************************************************************)
(* Every page is free, in a frame or once in the batch of one connection,  *)
(* and no batch exceeds its array, for every pollingInterval and number of *)
(* connections (InvalidationBatch, reclaimInvalidations).                  *)
(***************************************************************************)
THEOREM PagesAreInOnePlace == Spec => [](R!BatchFits /\ R!PagesAreConserved)
<1>1. Init => ReuseInv
  BY ReuseInit DEF Init
<1>2. ReuseInv /\ [Next]_vars => ReuseInv'
  BY MessagingParts, ReuseSteps
<1> QED
  BY <1>1, <1>2, ReuseFacts, PTL DEF Spec

(***************************************************************************)
(* A page that the handler gave away is free only when the network card    *)
(* has sent it: the worker that asked for it has gone on before the        *)
(* completion with which the passive batch is reclaimed.  The hypothesis   *)
(* leaves out the page provider that evicts the owner's copy of a shared   *)
(* page while it is still sent: nothing in the code orders the two.        *)
(***************************************************************************)
THEOREM SentPagesAreNotReused == ~EvictCopies => (Spec => []NoReuseInFlight)
<1> SUFFICES ASSUME ~EvictCopies PROVE Spec => []NoReuseInFlight
  OBVIOUS
<1>1. Init => ReuseInv /\ SentUntilReady
  BY ReuseInit DEF Init
<1>2. ReuseInv /\ SentUntilReady /\ [Next]_vars => ReuseInv' /\ SentUntilReady'
  BY MessagingParts, ReuseSteps
<1>3. ReuseInv /\ SentUntilReady => NoReuseInFlight
  BY ReuseFacts DEF SentUntilReady, R!NoReuseInFlight, NoReuseInFlight
<1> QED
  BY <1>1, <1>2, <1>3, PTL DEF Spec

-----------------------------------------------------------------------------
(* Eviction batches *)

(* the pages of a batch, and that it has none of them twice *)
PagesOf(q) == {q[i] : i \in 1..Len(q)}
Once(q) == \A i, j \in 1..Len(q) : q[i] = q[j] => i = j

(* the type of the exchange *)
Slot == [pids : [1..BatchSize -> BatchPage \cup {None}], elements : Nat]
BatchTypes ==
  /\ frame \in [BatchPage -> {"held", "latched", "absent"}] /\ dir \subseteq BatchPage
  /\ inflight \in Seq(BatchPage) /\ Len(inflight) <= BatchSize /\ batchOutgoing = inflight
  /\ prev \in Seq(BatchPage) /\ Len(prev) <= BatchSize
  /\ request \in [flag : {0, 1}, body : Seq(BatchPage) \cup {None}]
  /\ response \in [flag : {0, 1}, body : Slot \cup {None}]
  /\ slots \in [current : Slot, prev : Slot]

(* A frame is latched for one batch. *)
FramesOfBatches ==
  /\ Once(inflight) /\ Once(prev) /\ PagesOf(inflight) \cap PagesOf(prev) = {}
  /\ \A p \in BatchPage : frame[p] = "latched" <=> p \in PagesOf(inflight) \cup PagesOf(prev)

(* The first n pids of a slot are those of n frames of the batch, in its order. *)
Picks(s, n, at) ==
  /\ n \in 0..Len(prev) /\ at \in [1..n -> 1..Len(prev)] /\ \A i, j \in 1..n : i < j => at[i] < at[j]
  /\ s.elements = n /\ \A i \in 1..n : s.pids[i] = prev[at[i]]
Answers(s) == \E n, at : Picks(s, n, at)
Given(s) == {s.pids[i] : i \in 1..s.elements}

(* The batch is in the request, with the owner, or in the response. *)
BatchIsSomewhere ==
  /\ request.flag = 1 => request.body = prev /\ reading = None /\ response.flag = 0 /\ expected
  /\ reading # None => response.flag = 0 /\ expected /\ Answers(slots.current)
  /\ response.flag = 1 => expected /\ response.body \in Slot /\ Answers(response.body)
  /\ reading = None => slots.current.elements = 0
  /\ ~ expected => prev = <<>>

(* What the owner has taken over is gone, or its pid is on the way. *)
GoneOrGiven ==
  \A p \in BatchPage : p \notin dir =>
    \/ frame[p] = "absent"
    \/ reading # None /\ p \in Given(slots.current)
    \/ response.flag = 1 /\ p \in Given(response.body)

BatchInv == BatchTypes /\ FramesOfBatches /\ BatchIsSomewhere /\ GoneOrGiven

(* All is there, and nothing on the way. *)
LEMMA BatchInit == E!Init => BatchInv
<1> SUFFICES ASSUME E!Init PROVE BatchInv
  OBVIOUS
<1> USE DEF E!Init, E!NoMessage, E!EmptySlot
<1>1. BatchTypes
  BY BatchAssumption DEF BatchTypes, Slot
<1>2. FramesOfBatches
  BY DEF FramesOfBatches, Once, PagesOf
<1>3. BatchIsSomewhere
  BY DEF BatchIsSomewhere
<1>4. GoneOrGiven
  BY DEF GoneOrGiven
<1> QED
  BY <1>1, <1>2, <1>3, <1>4 DEF BatchInv

(* Induction up to m, with a set for the formula *)
LEMMA Climbs ==
  ASSUME NEW m \in Nat, NEW A, 0 \in A, \A k \in 0..(m - 1) : k \in A => k + 1 \in A
  PROVE  \A k \in 0..m : k \in A
<1> DEFINE T == {k \in 0..m : k \notin A}
           U == {0..k : k \in T}
           R1 == StrictSubsetOrdering(Nat)
<1>1. IsWellFoundedOn(R1, FiniteSubsetsOf(Nat))
  BY FS_StrictSubsetOrderingWellFounded
<1>2. U \subseteq FiniteSubsetsOf(Nat)
  <2>1. ASSUME NEW k \in Nat PROVE IsFiniteSet(0..k) /\ 0..k \in SUBSET Nat
    BY FS_Interval
  <2> QED
    BY <2>1 DEF FiniteSubsetsOf
<1>3. \A x, y \in Nat : y < x => <<0..y, 0..x>> \in R1
  BY DEF StrictSubsetOrdering
<1>4. CASE T # {}
  <2> HIDE DEF R1
  <2>1. U # {}
    BY <1>4
  <2>2. \E V \in U : \A W \in U : ~ (<<W, V>> \in R1)
    <3> HIDE DEF U
    <3> QED
      BY ONLY <1>1, <1>2, <2>1, WFMin
  <2>3. PICK x \in T : \A y \in T : ~ (<<0..y, 0..x>> \in R1)
    BY <2>2
  <2>4. x \in Nat /\ x \in 0..m /\ x \notin A /\ x # 0
    OBVIOUS
  <2>5. x - 1 \in 0..(m - 1) /\ x - 1 \in Nat /\ x - 1 < x /\ (x - 1) + 1 = x
    BY <2>4
  <2>6. x - 1 \notin T
    BY <1>3, <2>3, <2>4, <2>5
  <2> QED
    BY <2>4, <2>5, <2>6
<1> QED
  BY <1>4

(* Frames are compared with one pid after the other: whatever the entries  *)
(* behind the answer hold, the frames of the answer are all found.         *)
LEMMA AllAreNamed ==
  ASSUME BatchInv, NEW s \in Slot, NEW n, NEW at, Picks(s, n, at),
         NEW r \in [0..Len(prev) -> 1..(BatchSize + 1)], E!Collect(s, r)
  PROVE  \A i \in 1..n : E!Named(s, r, at[i])
<1>1. /\ prev \in Seq(BatchPage) /\ Len(prev) \in Nat /\ Len(prev) <= BatchSize /\ Once(prev) /\ BatchSize \in Nat
      /\ n \in 0..Len(prev) /\ at \in [1..n -> 1..Len(prev)] /\ \A i \in 1..n : s.pids[i] = prev[at[i]]
      /\ \A i, j \in 1..n : i < j => at[i] < at[j]
  BY BatchAssumption DEF BatchInv, BatchTypes, FramesOfBatches, Picks
<1>2. /\ r[0] = 1
      /\ \A k \in 1..Len(prev) : r[k] = IF r[k - 1] <= BatchSize /\ prev[k] = s.pids[r[k - 1]] THEN r[k - 1] + 1
                                        ELSE r[k - 1]
  BY DEF E!Collect, E!Named
<1> DEFINE A == {k \in 0..Len(prev) : \A i \in 1..n : at[i] <= k <=> r[k] > i}
<1>3. 0 \in A
  BY <1>1, <1>2
<1>4. ASSUME NEW k \in 0..(Len(prev) - 1), k \in A PROVE k + 1 \in A
  <2>5. PICK l \in Nat : l = Len(prev)
    BY <1>1
  <2>6. k \in Nat /\ k \in 0..l /\ k + 1 \in 1..l /\ (k + 1) - 1 = k
    BY <1>1, <2>5
  <2>1. k + 1 \in 1..Len(prev) /\ k \in 0..Len(prev) /\ (k + 1) - 1 = k /\ r[k] \in 1..(BatchSize + 1) /\ k \in Nat
    BY <1>1, <2>5, <2>6
  <2>2. \A i \in 1..n : at[i] <= k <=> r[k] > i
    BY <1>4
  <2>3. r[k + 1] = IF r[k] <= BatchSize /\ prev[k + 1] = s.pids[r[k]] THEN r[k] + 1 ELSE r[k]
    BY <1>2, <2>1
  <2>4. ASSUME NEW i \in 1..n PROVE at[i] <= k + 1 <=> r[k + 1] > i
    <3>1. at[i] \in 1..Len(prev)
      BY <1>1
    <3>2. CASE at[i] <= k
      BY <2>1, <2>2, <2>3, <3>1, <3>2, <1>1
    <3>3. CASE at[i] = k + 1
      <4>1. r[k] <= i
        BY <2>1, <2>2, <3>1, <3>3, <1>1
      <4>2. r[k] >= i
        <5>1. CASE i = 1
          BY <2>1, <5>1
        <5>2. CASE i # 1
          <6>1. i - 1 \in 1..n /\ i - 1 < i
            BY <1>1, <5>2
          <6>2. at[i - 1] < at[i] /\ at[i - 1] \in 1..Len(prev)
            BY <1>1, <6>1
          <6>3. r[k] > i - 1
            BY <2>2, <3>1, <3>3, <6>1, <6>2
          <6> QED
            BY <2>1, <6>3, <1>1
        <5> QED
          BY <5>1, <5>2
      <4>3. r[k] = i
        BY <2>1, <4>1, <4>2, <1>1
      <4>4. prev[k + 1] = s.pids[i] /\ i <= BatchSize
        BY <1>1, <3>3
      <4> QED
        BY <2>3, <3>3, <4>3, <4>4, <1>1
    <3>4. CASE at[i] > k + 1
      <4>1. r[k] <= i
        BY <2>1, <2>2, <3>1, <3>4, <1>1
      <4>2. r[k] \in 1..n
        BY <2>1, <4>1, <1>1
      <4>3. at[r[k]] \in 1..Len(prev) /\ at[r[k]] > k /\ s.pids[r[k]] = prev[at[r[k]]]
        BY <1>1, <2>1, <2>2, <4>2
      <4>4. CASE r[k] = i
        <5>1. prev[k + 1] # s.pids[r[k]]
          BY <1>1, <2>1, <3>4, <4>3, <4>4 DEF Once
        <5> QED
          BY <2>1, <2>3, <3>1, <3>4, <4>4, <5>1, <1>1
      <4>5. CASE r[k] < i
        BY <2>1, <2>3, <3>1, <3>4, <4>5, <1>1
      <4> QED
        BY <2>1, <4>1, <4>4, <4>5, <1>1
    <3>5. at[i] <= k \/ at[i] = k + 1 \/ at[i] > k + 1
      BY <2>1, <3>1, <1>1
    <3> QED
      BY <3>2, <3>3, <3>4, <3>5
  <2> QED
    BY <2>1, <2>4, <1>1
<1>5. \A k \in 0..Len(prev) : k \in A
  <2> HIDE DEF A
  <2> QED
    BY <1>1, <1>3, <1>4, Climbs
<1> SUFFICES ASSUME NEW i \in 1..n PROVE r[at[i] - 1] <= BatchSize /\ prev[at[i]] = s.pids[r[at[i] - 1]]
  BY DEF E!Named
<1>6. at[i] \in 1..Len(prev) /\ at[i] - 1 \in 0..Len(prev) /\ r[at[i] - 1] \in 1..(BatchSize + 1)
  BY <1>1
<1>7. \A j \in 1..n : at[j] <= at[i] - 1 <=> r[at[i] - 1] > j
  BY <1>5, <1>6
<1>8. r[at[i] - 1] <= i
  BY <1>1, <1>6, <1>7
<1>9. r[at[i] - 1] >= i
  <2>1. CASE i = 1
    BY <1>6, <2>1
  <2>2. CASE i # 1
    <3>1. i - 1 \in 1..n /\ i - 1 < i
      BY <1>1, <2>2
    <3>2. at[i - 1] < at[i] /\ at[i - 1] \in 1..Len(prev)
      BY <1>1, <3>1
    <3>3. r[at[i] - 1] > i - 1
      BY <1>6, <1>7, <3>1, <3>2
    <3> QED
      BY <1>1, <1>6, <3>3
  <2> QED
    BY <2>1, <2>2
<1>10. r[at[i] - 1] = i /\ i <= BatchSize
  BY <1>1, <1>6, <1>8, <1>9
<1> QED
  BY <1>1, <1>10

(* A page is added to a batch. *)
LEMMA PageAdded ==
  ASSUME NEW q \in Seq(BatchPage), NEW p \in BatchPage, Once(q), p \notin PagesOf(q)
  PROVE  Append(q, p) \in Seq(BatchPage) /\ Once(Append(q, p)) /\ PagesOf(Append(q, p)) = PagesOf(q) \cup {p}
<1> DEFINE new == Append(q, p)
<1>1. /\ new \in Seq(BatchPage) /\ Len(new) = Len(q) + 1 /\ new[Len(q) + 1] = p /\ Len(q) \in Nat
      /\ \A i \in 1..Len(q) : new[i] = q[i]
  OBVIOUS
<1> HIDE DEF new
<1>2. \A i \in 1..Len(new) : i \in 1..Len(q) \/ i = Len(q) + 1
  BY <1>1
<1>3. Once(new)
  BY <1>1, <1>2 DEF Once, PagesOf
<1>4. PagesOf(new) = PagesOf(q) \cup {p}
  <2>1. \A i \in 1..Len(q) : i \in 1..Len(new)
    BY <1>1
  <2>2. Len(q) + 1 \in 1..Len(new)
    BY <1>1
  <2> QED
    BY <1>1, <1>2, <2>1, <2>2 DEF PagesOf
<1> QED
  BY <1>1, <1>3, <1>4 DEF new

(* The answer to a batch is one while the batch stays as it is. *)
LEMMA SameAnswers ==
  ASSUME UNCHANGED prev
  PROVE  /\ Answers(slots'.current) => Answers(slots.current)'
         /\ Answers(response'.body) => Answers(response.body)'
<1>1. ASSUME NEW n, NEW at, Picks(slots'.current, n, at) PROVE Answers(slots.current)'
  BY <1>1 DEF Answers, Picks
<1>2. ASSUME NEW n, NEW at, Picks(response'.body, n, at) PROVE Answers(response.body)'
  BY <1>2 DEF Answers, Picks
<1> QED
  BY <1>1, <1>2 DEF Answers

(* Nothing of the exchange itself moves. *)
LEMMA SameExchange ==
  ASSUME BatchInv, UNCHANGED <<prev, expected, request, reading, slots, response>>
  PROVE  BatchIsSomewhere'
<1>1. Answers(slots.current) => Answers(slots.current)'
  BY SameAnswers
<1>2. Answers(response.body) => Answers(response.body)'
  BY SameAnswers
<1> QED
  BY <1>1, <1>2 DEF BatchInv, BatchIsSomewhere, Slot

(* The frames that are latched for a batch, after a step *)
LEMMA NewBatches ==
  /\ (Once(inflight)' <=> Once(inflight')) /\ (Once(prev)' <=> Once(prev'))
  /\ PagesOf(inflight)' = PagesOf(inflight') /\ PagesOf(prev)' = PagesOf(prev')
BY DEF Once, PagesOf

(* A worker fixes a page again. *)
LEMMA FetchKeeps ==
  ASSUME BatchInv, NEW p \in BatchPage, E!Fetch(p)
  PROVE  BatchInv'
<1>1. /\ frame[p] = "absent" /\ p \notin dir /\ frame' = [frame EXCEPT ![p] = "held"] /\ dir' = dir \cup {p}
      /\ UNCHANGED <<batchOutgoing, inflight, prev, expected, request, reading, slots, response>>
  BY DEF E!Fetch, E!nodeVars, E!ownerVars
<1>2. /\ frame' \in [BatchPage -> {"held", "latched", "absent"}] /\ frame'[p] = "held"
      /\ \A q \in BatchPage : q # p => frame'[q] = frame[q]
  BY <1>1 DEF BatchInv, BatchTypes
<1>3. BatchTypes'
  BY <1>1, <1>2 DEF BatchInv, BatchTypes, Slot
<1>4. FramesOfBatches'
  BY <1>1, <1>2 DEF BatchInv, FramesOfBatches, Once, PagesOf
<1>5. BatchIsSomewhere'
  BY <1>1, SameExchange
<1>6. GoneOrGiven'
  BY <1>1, <1>2 DEF BatchInv, GoneOrGiven, Given
<1> QED
  BY <1>3, <1>4, <1>5, <1>6 DEF BatchInv

(* A victim is latched and put into the batch. *)
LEMMA ChooseKeeps ==
  ASSUME BatchInv, NEW p \in BatchPage, E!Choose(p)
  PROVE  BatchInv'
<1>1. /\ frame[p] = "held" /\ Len(batchOutgoing) < BatchSize /\ frame' = [frame EXCEPT ![p] = "latched"]
      /\ batchOutgoing' = Append(batchOutgoing, p) /\ inflight' = Append(inflight, p)
      /\ UNCHANGED <<dir, prev, expected, request, reading, slots, response>>
  BY DEF E!Choose, E!nodeVars, E!ownerVars
<1>2. /\ frame' \in [BatchPage -> {"held", "latched", "absent"}] /\ frame'[p] = "latched"
      /\ \A q \in BatchPage : q # p => frame'[q] = frame[q]
  BY <1>1 DEF BatchInv, BatchTypes
<1>3. /\ p \notin PagesOf(inflight) /\ p \notin PagesOf(prev) /\ Once(inflight) /\ inflight \in Seq(BatchPage)
      /\ Once(prev) /\ PagesOf(inflight) \cap PagesOf(prev) = {}
  BY <1>1 DEF BatchInv, BatchTypes, FramesOfBatches
<1>4. /\ inflight' \in Seq(BatchPage) /\ Once(inflight') /\ PagesOf(inflight') = PagesOf(inflight) \cup {p}
  BY <1>1, <1>3, PageAdded
<1>5. Len(inflight') <= BatchSize /\ batchOutgoing' = inflight'
  BY <1>1, <1>3, BatchAssumption DEF BatchInv, BatchTypes
<1>6. BatchTypes'
  BY <1>1, <1>2, <1>4, <1>5 DEF BatchInv, BatchTypes, Slot
<1>7. FramesOfBatches'
  <2>1. \A q \in BatchPage : frame'[q] = "latched" <=> q \in PagesOf(inflight') \cup PagesOf(prev)
    BY <1>2, <1>4 DEF BatchInv, FramesOfBatches
  <2>2. Once(inflight') /\ Once(prev) /\ PagesOf(inflight') \cap PagesOf(prev) = {}
    BY <1>3, <1>4
  <2> QED
    BY <1>1, <2>1, <2>2, NewBatches DEF FramesOfBatches
<1>8. BatchIsSomewhere'
  BY <1>1, SameExchange
<1>9. GoneOrGiven'
  BY <1>1, <1>2 DEF BatchInv, GoneOrGiven, Given
<1> QED
  BY <1>6, <1>7, <1>8, <1>9 DEF BatchInv

(* The batch is sent. *)
LEMMA SendRequestKeeps ==
  ASSUME BatchInv, E!SendRequest
  PROVE  BatchInv'
<1>1. /\ ~ expected /\ request' = [flag |-> 1, body |-> batchOutgoing] /\ expected' /\ batchOutgoing' = <<>>
      /\ inflight' = prev /\ prev' = inflight /\ UNCHANGED <<frame, dir, reading, slots, response>>
  BY DEF E!SendRequest
<1>2. prev = <<>> /\ reading = None /\ response.flag = 0 /\ slots.current.elements = 0 /\ batchOutgoing = inflight
  BY <1>1 DEF BatchInv, BatchTypes, BatchIsSomewhere
<1>3. request'.flag = 1 /\ request'.body = prev' /\ request' \in [flag : {0, 1}, body : Seq(BatchPage) \cup {None}]
  BY <1>1, <1>2 DEF BatchInv, BatchTypes
<1>4. BatchTypes'
  BY <1>1, <1>2, <1>3 DEF BatchInv, BatchTypes, Slot
<1>5. FramesOfBatches'
  BY <1>1, NewBatches DEF BatchInv, FramesOfBatches
<1>6. BatchIsSomewhere'
  BY <1>1, <1>2, <1>3 DEF BatchIsSomewhere
<1>7. GoneOrGiven'
  BY <1>1, <1>2 DEF BatchInv, GoneOrGiven
<1> QED
  BY <1>4, <1>5, <1>6, <1>7 DEF BatchInv

(* A small batch waits. *)
LEMMA NothingMoves ==
  ASSUME BatchInv, UNCHANGED <<frame, dir, batchOutgoing, inflight, prev, expected, request, reading, slots, response>>
  PROVE  BatchInv'
<1>1. BatchTypes'
  BY DEF BatchInv, BatchTypes, Slot
<1>2. FramesOfBatches'
  BY NewBatches DEF BatchInv, FramesOfBatches
<1>3. BatchIsSomewhere'
  BY SameExchange
<1>4. GoneOrGiven'
  BY DEF BatchInv, GoneOrGiven, Given
<1> QED
  BY <1>1, <1>2, <1>3, <1>4 DEF BatchInv

(* The owner takes over pages and puts their pids into its slot. *)
LEMMA TakeOverKeeps ==
  ASSUME BatchInv, E!TakeOver
  PROVE  BatchInv'
<1>1. PICK n \in 0..Len(request.body) : \E at \in E!Qualify(n) :
        LET pids == [i \in 1..n |-> request.body[at[i]]] IN \E read \in SUBSET E!ToSet(pids) :
          /\ slots' = [slots EXCEPT !.current = E!Added(@, pids)] /\ dir' = dir \ E!ToSet(pids) /\ reading' = read
  BY DEF E!TakeOver
<1>2. PICK at \in E!Qualify(n) :
        LET pids == [i \in 1..n |-> request.body[at[i]]] IN \E read \in SUBSET E!ToSet(pids) :
          /\ slots' = [slots EXCEPT !.current = E!Added(@, pids)] /\ dir' = dir \ E!ToSet(pids) /\ reading' = read
  BY <1>1
<1>3. PICK pids : pids = [i \in 1..n |-> request.body[at[i]]]
  OBVIOUS
<1>4. /\ slots' = [slots EXCEPT !.current = E!Added(@, pids)] /\ dir' = dir \ E!ToSet(pids)
      /\ reading' \in SUBSET E!ToSet(pids)
  BY <1>2, <1>3
<1>5. /\ request.flag = 1 /\ reading = None /\ request' = [request EXCEPT !.flag = 0]
      /\ UNCHANGED <<frame, batchOutgoing, inflight, prev, expected, response>>
  BY DEF E!TakeOver, E!nodeVars
<1>6. /\ request.body = prev /\ response.flag = 0 /\ expected /\ slots.current.elements = 0
      /\ prev \in Seq(BatchPage) /\ Len(prev) \in Nat /\ Len(prev) <= BatchSize /\ BatchSize \in Nat
      /\ slots \in [current : Slot, prev : Slot]
  BY <1>5, BatchAssumption DEF BatchInv, BatchTypes, BatchIsSomewhere
<1>7. /\ at \in [1..n -> 1..Len(prev)] /\ n \in 0..Len(prev) /\ n \in Nat
      /\ \A i, j \in 1..n : i < j => at[i] < at[j]
  BY <1>6 DEF E!Qualify
<1>8. /\ pids \in Seq(BatchPage) /\ Len(pids) = n /\ E!ToSet(pids) = {pids[i] : i \in 1..n}
      /\ \A i \in 1..n : pids[i] = prev[at[i]] /\ pids[i] \in BatchPage
  <2>1. \A i \in 1..n : prev[at[i]] \in BatchPage
    BY <1>6, <1>7
  <2>2. pids \in [1..n -> BatchPage] /\ \A i \in 1..n : pids[i] = prev[at[i]]
    BY <1>3, <1>6, <2>1
  <2>3. pids \in Seq(BatchPage) /\ Len(pids) = n /\ DOMAIN pids = 1..n
    BY <1>7, <2>2
  <2> QED
    BY <2>1, <2>2, <2>3 DEF E!ToSet
<1>9. PICK c : c = slots.current
  OBVIOUS
<1>10. PICK new : new = E!Added(c, pids)
  OBVIOUS
<1>11. new \in Slot /\ new.elements = n /\ \A i \in 1..n : new.pids[i] = pids[i]
  <2>1. c \in Slot /\ c.elements = 0
    BY <1>6, <1>9
  <2>2. /\ new.elements = n
        /\ new = [elements |-> n, pids |-> [i \in 1..BatchSize |-> IF i > 0 /\ i <= n THEN pids[i] ELSE c.pids[i]]]
    BY <1>7, <1>8, <1>10, <2>1 DEF E!Added
  <2>3. ASSUME NEW i \in 1..BatchSize PROVE (IF i > 0 /\ i <= n THEN pids[i] ELSE c.pids[i]) \in BatchPage \cup {None}
    BY <1>6, <1>7, <1>8, <2>1 DEF Slot
  <2>4. [i \in 1..BatchSize |-> IF i > 0 /\ i <= n THEN pids[i] ELSE c.pids[i]] \in [1..BatchSize -> BatchPage \cup {None}]
    BY <2>3
  <2>5. \A i \in 1..n : i \in 1..BatchSize
    BY <1>6, <1>7
  <2> QED
    BY <1>7, <2>2, <2>4, <2>5 DEF Slot
<1>12. slots' \in [current : Slot, prev : Slot] /\ slots'.current = new
  BY <1>4, <1>6, <1>9, <1>10, <1>11
<1>13. E!ToSet(pids) = Given(new)
  BY <1>8, <1>11 DEF Given
<1>14. Picks(new, n, at)
  BY <1>7, <1>8, <1>11 DEF Picks
<1>15. reading' # None
  <2>1. reading' \in SUBSET BatchPage
    BY <1>4, <1>8
  <2> QED
    BY <2>1, BatchAssumption
<1>16. request' \in [flag : {0, 1}, body : Seq(BatchPage) \cup {None}] /\ request'.flag = 0
  BY <1>5 DEF BatchInv, BatchTypes
<1>17. BatchTypes'
  BY <1>4, <1>5, <1>12, <1>16 DEF BatchInv, BatchTypes, Slot
<1>18. FramesOfBatches'
  BY <1>5 DEF BatchInv, FramesOfBatches, Once, PagesOf
<1>19. BatchIsSomewhere'
  <2>1. Answers(new)
    BY <1>14 DEF Answers
  <2>2. Answers(slots.current)'
    BY <1>5, <1>12, <2>1, SameAnswers
  <2> QED
    BY <1>5, <1>6, <1>15, <1>16, <2>2 DEF BatchIsSomewhere
<1>20. GoneOrGiven'
  <2> SUFFICES ASSUME NEW p \in BatchPage, p \notin dir'
               PROVE  frame'[p] = "absent" \/ (reading' # None /\ p \in Given(slots'.current))
    BY DEF GoneOrGiven, Given
  <2>1. CASE p \in dir
    BY <1>4, <1>12, <1>13, <1>15, <2>1
  <2>2. CASE p \notin dir
    BY <1>5, <1>6, <2>2 DEF BatchInv, GoneOrGiven
  <2> QED
    BY <2>1, <2>2
<1> QED
  BY <1>17, <1>18, <1>19, <1>20 DEF BatchInv

(* The slot is written to the node, and the next one is taken. *)
LEMMA RespondKeeps ==
  ASSUME BatchInv, E!Respond
  PROVE  BatchInv'
<1>1. /\ reading # None /\ response' = [flag |-> 1, body |-> slots.current] /\ reading' = None
      /\ slots' = [current |-> [slots.prev EXCEPT !.elements = 0], prev |-> slots.current]
      /\ UNCHANGED <<frame, dir, batchOutgoing, inflight, prev, expected, request>>
  BY DEF E!Respond, E!nodeVars
<1>2. expected /\ Answers(slots.current) /\ request.flag # 1 /\ response.flag = 0 /\ slots \in [current : Slot, prev : Slot]
  BY <1>1 DEF BatchInv, BatchIsSomewhere, BatchTypes
<1>3. /\ slots' \in [current : Slot, prev : Slot] /\ slots'.current.elements = 0
      /\ response' \in [flag : {0, 1}, body : Slot \cup {None}] /\ response'.flag = 1 /\ response'.body = slots.current
  BY <1>1, <1>2 DEF Slot
<1>4. BatchTypes'
  BY <1>1, <1>3 DEF BatchInv, BatchTypes, Slot
<1>5. FramesOfBatches'
  BY <1>1 DEF BatchInv, FramesOfBatches, Once, PagesOf
<1>6. BatchIsSomewhere'
  <2>1. Answers(response.body)'
    BY <1>1, <1>2, <1>3, SameAnswers
  <2> QED
    BY <1>1, <1>2, <1>3, <2>1 DEF BatchIsSomewhere
<1>7. GoneOrGiven'
  BY <1>1, <1>2, <1>3 DEF BatchInv, GoneOrGiven, Given
<1> QED
  BY <1>4, <1>5, <1>6, <1>7 DEF BatchInv

(* The answer is collected: what it names is removed, the rest unlatched. *)
LEMMA CollectKeeps ==
  ASSUME BatchInv, E!CollectResponse
  PROVE  BatchInv'
<1>1. PICK s : s = response.body
  OBVIOUS
<1>2. PICK r \in [0..Len(prev) -> 1..(BatchSize + 1)] :
        /\ E!Collect(s, r)
        /\ frame' = [p \in BatchPage |->
                      IF \E i \in {j \in 1..Len(prev) : s.elements > 0 /\ E!Named(s, r, j)} : prev[i] = p THEN "absent"
                      ELSE IF p \in E!ToSet(prev) THEN "held" ELSE frame[p]]
  BY <1>1 DEF E!CollectResponse
<1>3. /\ response.flag = 1 /\ prev' = <<>> /\ expected' = FALSE /\ response' = [response EXCEPT !.flag = 0]
      /\ UNCHANGED <<dir, batchOutgoing, inflight, request, reading, slots>>
  BY DEF E!CollectResponse, E!ownerVars
<1>4. /\ expected /\ Answers(s) /\ request.flag # 1 /\ reading = None /\ s \in Slot /\ slots.current.elements = 0
      /\ prev \in Seq(BatchPage) /\ Len(prev) \in Nat
  <2>1. expected /\ Answers(s) /\ request.flag # 1 /\ reading = None /\ slots.current.elements = 0 /\ s \in Slot
    BY <1>1, <1>3 DEF BatchInv, BatchIsSomewhere
  <2>2. prev \in Seq(BatchPage) /\ Len(prev) \in Nat
    BY DEF BatchInv, BatchTypes
  <2> QED
    BY <2>1, <2>2
<1>5. PICK n, at : Picks(s, n, at)
  BY <1>4 DEF Answers
<1>6. \A i \in 1..n : E!Named(s, r, at[i])
  BY <1>2, <1>4, <1>5, AllAreNamed
<1>7. E!ToSet(prev) = PagesOf(prev)
  BY <1>4 DEF E!ToSet, PagesOf
<1>8. \A p \in BatchPage : frame'[p] = "latched" => frame[p] = "latched" /\ p \notin PagesOf(prev)
  BY <1>2, <1>7
<1>9. \A p \in BatchPage : p \notin PagesOf(prev) => frame'[p] = frame[p]
  <2> SUFFICES ASSUME NEW p \in BatchPage, p \notin PagesOf(prev) PROVE frame'[p] = frame[p]
    OBVIOUS
  <2>1. ~ \E i \in 1..Len(prev) : prev[i] = p
    BY DEF PagesOf
  <2> QED
    BY <1>2, <1>7, <2>1
<1>10. \A p \in BatchPage : p \in Given(s) => frame'[p] = "absent"
  <2> SUFFICES ASSUME NEW p \in BatchPage, p \in Given(s) PROVE frame'[p] = "absent"
    OBVIOUS
  <2>1. PICK i \in 1..n : p = s.pids[i]
    BY <1>5 DEF Given, Picks
  <2>2. at[i] \in 1..Len(prev) /\ prev[at[i]] = p /\ s.elements > 0
    BY <1>4, <1>5, <2>1 DEF Picks
  <2>3. E!Named(s, r, at[i])
    BY <1>6
  <2> QED
    BY <1>2, <2>2, <2>3
<1>11. response' \in [flag : {0, 1}, body : Slot \cup {None}] /\ response'.flag = 0
  BY <1>3 DEF BatchInv, BatchTypes
<1>12. frame' \in [BatchPage -> {"held", "latched", "absent"}]
  BY <1>2 DEF BatchInv, BatchTypes
<1>13. BatchTypes'
  <2>1. <<>> \in Seq(BatchPage) /\ Len(<<>>) <= BatchSize
    BY BatchAssumption
  <2> QED
    BY <1>3, <1>11, <1>12, <2>1 DEF BatchInv, BatchTypes, Slot
<1>14. FramesOfBatches'
  <2>1. Once(<<>>) /\ PagesOf(<<>>) = {}
    BY DEF Once, PagesOf
  <2>2. \A p \in BatchPage : frame'[p] = "latched" <=> p \in PagesOf(inflight)
    BY <1>8, <1>9 DEF BatchInv, FramesOfBatches
  <2> QED
    BY <1>3, <2>1, <2>2, NewBatches DEF BatchInv, FramesOfBatches
<1>15. BatchIsSomewhere'
  BY <1>3, <1>4, <1>11 DEF BatchIsSomewhere
<1>16. GoneOrGiven'
  <2> SUFFICES ASSUME NEW p \in BatchPage, p \notin dir PROVE frame'[p] = "absent"
    BY <1>3 DEF GoneOrGiven
  <2>1. CASE p \in Given(s)
    BY <1>10, <2>1
  <2>2. CASE p \notin Given(s)
    <3>1. frame[p] = "absent"
      BY <1>1, <1>4, <2>2 DEF BatchInv, GoneOrGiven
    <3>2. p \notin PagesOf(prev)
      BY <3>1 DEF BatchInv, FramesOfBatches
    <3> QED
      BY <1>9, <3>1, <3>2
  <2> QED
    BY <2>1, <2>2
<1> QED
  BY <1>13, <1>14, <1>15, <1>16 DEF BatchInv

(* Every step keeps the invariant of the exchange. *)
LEMMA BatchStep == BatchInv /\ [E!Next]_batchVars => BatchInv'
<1> SUFFICES ASSUME BatchInv, [E!Next]_batchVars PROVE BatchInv'
  OBVIOUS
<1>1. ASSUME NEW p \in BatchPage, E!Fetch(p) \/ E!Choose(p) PROVE BatchInv'
  BY <1>1, FetchKeeps, ChooseKeeps
<1>2. CASE E!SendRequest \/ E!CollectResponse
  BY <1>2, SendRequestKeeps, CollectKeeps
<1>3. CASE E!SkipRequest
  BY <1>3, NothingMoves DEF E!SkipRequest, E!ownerVars
<1>4. CASE E!TakeOver \/ E!Respond
  BY <1>4, TakeOverKeeps, RespondKeeps
<1>5. CASE UNCHANGED batchVars
  BY <1>5, NothingMoves DEF batchVars
<1> QED
  BY <1>1, <1>2, <1>3, <1>4, <1>5 DEF E!Next, E!Node, E!Owner

(* A batch has as many frames as entries. *)
LEMMA BatchCounted ==
  ASSUME NEW q \in Seq(BatchPage), Once(q)
  PROVE  IsFiniteSet(PagesOf(q)) /\ Cardinality(PagesOf(q)) = Len(q)
<1>1. Len(q) \in Nat /\ q \in [1..Len(q) -> PagesOf(q)]
  BY DEF PagesOf
<1>2. q \in Bijection(1..Len(q), PagesOf(q))
  BY <1>1 DEF Bijection, Injection, Surjection, IsInjective, Once, PagesOf
<1>3. ExistsBijection(1..Len(q), PagesOf(q))
  BY <1>2 DEF ExistsBijection
<1>4. IsFiniteSet(1..Len(q)) /\ Cardinality(1..Len(q)) = Len(q)
  BY <1>1, FS_Interval, SMT
<1> QED
  BY <1>3, <1>4, FS_Bijection

(* What the invariant says of the batches is what the run checks. *)
LEMMA BatchDelivers == BatchInv => E!NoOrphanFrame /\ E!BatchIsLatched
<1> SUFFICES ASSUME BatchInv PROVE E!NoOrphanFrame /\ E!BatchIsLatched
  OBVIOUS
<1>1. E!NoOrphanFrame
  <2> SUFFICES ASSUME ~ expected, NEW p \in BatchPage, p \notin dir PROVE frame[p] = "absent"
    BY DEF E!NoOrphanFrame
  <2>1. reading = None /\ response.flag # 1
    BY DEF BatchInv, BatchIsSomewhere
  <2> QED
    BY <2>1 DEF BatchInv, GoneOrGiven
<1>2. /\ inflight \in Seq(BatchPage) /\ prev \in Seq(BatchPage) /\ batchOutgoing = inflight
      /\ Once(inflight) /\ Once(prev) /\ PagesOf(inflight) \cap PagesOf(prev) = {}
      /\ \A p \in BatchPage : frame[p] = "latched" <=> p \in PagesOf(inflight) \cup PagesOf(prev)
  BY DEF BatchInv, BatchTypes, FramesOfBatches
<1>3. E!ToSet(inflight) = PagesOf(inflight) /\ E!ToSet(prev) = PagesOf(prev)
  BY <1>2 DEF E!ToSet, PagesOf
<1>4. PagesOf(inflight) \subseteq BatchPage /\ PagesOf(prev) \subseteq BatchPage
  BY <1>2 DEF PagesOf
<1>5. {p \in BatchPage : frame[p] = "latched"} = PagesOf(inflight) \cup PagesOf(prev)
  BY <1>2, <1>4
<1>6. /\ IsFiniteSet(PagesOf(inflight)) /\ Cardinality(PagesOf(inflight)) = Len(inflight)
      /\ IsFiniteSet(PagesOf(prev)) /\ Cardinality(PagesOf(prev)) = Len(prev)
  BY <1>2, BatchCounted
<1>7. Cardinality(PagesOf(inflight) \cup PagesOf(prev)) = Len(inflight) + Len(prev)
  <2>1. Cardinality(PagesOf(inflight) \cap PagesOf(prev)) = 0
    BY <1>2, FS_EmptySet
  <2>2. Cardinality(PagesOf(inflight) \cup PagesOf(prev))
          = Cardinality(PagesOf(inflight)) + Cardinality(PagesOf(prev)) - Cardinality(PagesOf(inflight) \cap PagesOf(prev))
    BY <1>6, FS_Union
  <2>3. Len(inflight) \in Nat /\ Len(prev) \in Nat
    BY <1>2
  <2> QED
    BY <1>6, <2>1, <2>2, <2>3
<1>8. \A A : E!Cardinality(A) = Cardinality(A)
  BY DEF E!Cardinality, Cardinality
<1>9. E!BatchIsLatched
  BY <1>2, <1>3, <1>4, <1>5, <1>7, <1>8 DEF E!BatchIsLatched
<1> QED
  BY <1>1, <1>9

(***************************************************************************)
(* No node keeps a page of which the owner no longer knows, and the frames *)
(* of a batch stay latched until it is answered, for every size of the     *)
(* batches and whatever pids of older answers the entries behind elements  *)
(* hold (PageProvider::startThread, phases 1 and 3 to 6).                  *)
(***************************************************************************)
THEOREM NoFrameIsOrphaned == Spec => []NoOrphanFrame
<1>1. Init => BatchInv
  BY BatchInit DEF Init
<1>2. BatchInv /\ [Next]_vars => BatchInv'
  BY MessagingParts, BatchStep
<1>3. BatchInv => NoOrphanFrame
  BY BatchDelivers DEF NoOrphanFrame
<1> QED
  BY <1>1, <1>2, <1>3, PTL DEF Spec

-----------------------------------------------------------------------------
(* The sweep *)

(* the provider's thread as a record of its fields *)
ProviderFields(p) == [pc : {p.pc}, offset : {p.offset}, begin : {p.begin}, end : {p.end}, needed : {p.needed},
                 samples : {p.samples}, window : {p.window}, sampling : {p.sampling}, batch : {p.batch},
                 b_i : {p.b_i}, write_idx : {p.write_idx}, candidates : {p.candidates}, c_i : {p.c_i}]

Reading == {"remember", "follow"}                                       \* a frame of the level has been looked at
Evicting == {"candidate", "nextlevel", "recheck", "upgrade", "evict"}   \* the level has been read

(* the type of the thread, and where it can be in its batch *)
SweepThread(p) ==
  /\ p \in ProviderFields(p) /\ p.pc \in {"round", "sample", "visit"} \cup Reading \cup Evicting
  /\ p.offset \in 0..(Buckets - 1) /\ p.begin \in Nat /\ p.end \in p.begin..Buckets /\ p.sampling \in BOOLEAN
  /\ p.batch \in Seq(S!Frames) /\ p.b_i \in 1..(Len(p.batch) + 1) /\ p.write_idx \in 0..(p.b_i - 1)
  /\ p.candidates \in Seq(Nat \X S!Frames) /\ p.c_i \in Nat \ {0}
  /\ p.pc \in Reading => p.b_i <= Len(p.batch)
  /\ p.pc \in Evicting => p.b_i = Len(p.batch) + 1
  /\ p.pc \in {"recheck", "upgrade", "evict"} => p.c_i <= Len(p.candidates)
  /\ p.pc = "sample" => p.sampling

SweepTypes ==
  /\ state \in [S!Frames -> {"FREE", "HOT", "EVICTED", "IO_RDMA"}] /\ epoch \in [S!Frames -> Nat] /\ globalEpoch \in Nat
  /\ latched \in [S!Frames -> BOOLEAN] /\ moved \in [S!Frames -> BOOLEAN]
  /\ next \in [S!Frames -> S!Frames \cup {S!NoFrame}]

(* The victim is in use, or the version of its latch has moved on. *)
VictimKept ==
  /\ pp.pc = "upgrade" => S!Used(S!Victim) \/ moved[S!Victim]
  /\ pp.pc = "evict" => S!Used(S!Victim)

(* Frame f was looked at, or is in this level or in the next one. *)
InSight(f, p, v) ==
  \/ f \in v
  \/ \E i \in 1..p.write_idx : p.batch[i] = f
  \/ \E i \in p.b_i..Len(p.batch) : p.batch[i] = f

(* The buckets are in sight, and so is what follows a frame that was looked at. *)
Swept(p, v, nx) ==
  /\ \A b \in p.begin..(p.end - 1) : InSight(b, p, v)
  /\ \A f \in v : nx[f] = S!NoFrame \/ InSight(nx[f], p, v) \/ (p.pc \in Reading /\ f = p.batch[p.b_i])
  /\ p.pc \in Reading => p.batch[p.b_i] \in v

SweepKept ==
  /\ pp.sampling => visited = {}
  /\ ~ rewired /\ ~ pp.sampling /\ pp.pc # "round" => Swept(pp, visited, next)

SweepInv == SweepThread(pp) /\ SweepTypes /\ VictimKept /\ SweepKept

(* Batches stay in the partition. *)
LEMMA BatchBounds ==
  ASSUME NEW o \in 0..(Buckets - 1)
  PROVE  S!BatchEnd(o) \in o..Buckets /\ S!Advance(o) \in 0..(Buckets - 1) /\ o \in Nat
<1>1. S!BatchEnd(o) \in o..Buckets /\ o \in Nat
  BY SweepAssumption DEF S!BatchEnd
<1>2. PICK x \in Nat : x = S!BatchEnd(o)
  BY <1>1, SweepAssumption
<1>3. x % Buckets \in 0..(Buckets - 1)
  BY SweepAssumption, SMT
<1> QED
  BY <1>1, <1>2, <1>3 DEF S!Advance

(* The first level are the heads of the buckets. *)
LEMMA FirstLevel ==
  ASSUME NEW b \in Nat, NEW e \in b..Buckets
  PROVE  /\ S!BatchOf(b, e) \in Seq(S!Frames) /\ Len(S!BatchOf(b, e)) = e - b
         /\ \A f \in b..(e - 1) : \E i \in 1..(e - b) : S!BatchOf(b, e)[i] = f
<1>1. e - b \in Nat /\ e \in Nat /\ Buckets \in Nat /\ Overflow \in Nat
  BY SweepAssumption
<1>2. \A i \in 1..(e - b) : b + i - 1 \in S!Frames
  BY <1>1 DEF S!Frames
<1>3. S!BatchOf(b, e) \in [1..(e - b) -> S!Frames] /\ \A i \in 1..(e - b) : S!BatchOf(b, e)[i] = b + i - 1
  BY <1>2 DEF S!BatchOf
<1>4. S!BatchOf(b, e) \in Seq(S!Frames) /\ Len(S!BatchOf(b, e)) = e - b
  BY <1>1, <1>3
<1>5. ASSUME NEW f \in b..(e - 1) PROVE \E i \in 1..(e - b) : S!BatchOf(b, e)[i] = f
  <2>1. f - b + 1 \in 1..(e - b) /\ b + (f - b + 1) - 1 = f
    BY <1>1
  <2> QED
    BY <1>3, <2>1
<1> QED
  BY <1>4, <1>5

(* batch_traverse_hashtable begins: nothing was looked at, the heads are in sight. *)
LEMMA BatchStarts ==
  ASSUME NEW p, p \in ProviderFields(p), p.offset \in 0..(Buckets - 1), p.begin \in Nat, p.end \in p.begin..Buckets,
         p.sampling \in BOOLEAN, p.c_i \in Nat \ {0},
         NEW b \in Nat, NEW e \in b..Buckets, NEW q, q = S!StartBatch(p, b, e)
  PROVE  /\ SweepThread(q) /\ q.pc = "visit" /\ q.sampling = p.sampling
         /\ p.begin = b /\ p.end = e => \A nx : Swept(q, {}, nx)
<1>1. PICK x : x = S!BatchOf(b, e)
  OBVIOUS
<1>2. q = [p EXCEPT !.batch = x, !.b_i = 1, !.write_idx = 0, !.candidates = <<>>, !.pc = "visit"]
  BY <1>1 DEF S!StartBatch
<1>3. /\ q.pc = "visit" /\ q.batch = x /\ q.b_i = 1 /\ q.write_idx = 0 /\ q.candidates = <<>> /\ q.c_i = p.c_i
      /\ q.offset = p.offset /\ q.begin = p.begin /\ q.end = p.end /\ q.sampling = p.sampling
  BY <1>2 DEF ProviderFields
<1>4. q \in ProviderFields(q)
  BY <1>2 DEF ProviderFields
<1>5. x \in Seq(S!Frames) /\ Len(x) = e - b /\ e - b \in Nat /\ \A f \in b..(e - 1) : \E i \in 1..(e - b) : x[i] = f
  <2>1. e - b \in Nat
    BY SweepAssumption
  <2>2. /\ S!BatchOf(b, e) \in Seq(S!Frames) /\ Len(S!BatchOf(b, e)) = e - b
        /\ \A f \in b..(e - 1) : \E i \in 1..(e - b) : S!BatchOf(b, e)[i] = f
    BY ONLY b \in Nat, e \in b..Buckets, FirstLevel
  <2> QED
    BY <1>1, <2>1, <2>2
<1>6. SweepThread(q)
  <2>1. q.b_i \in 1..(Len(q.batch) + 1) /\ q.write_idx \in 0..(q.b_i - 1) /\ q.candidates \in Seq(Nat \X S!Frames)
    BY <1>3, <1>5
  <2>2. q.pc \notin Reading /\ q.pc \notin Evicting /\ q.pc \notin {"recheck", "upgrade", "evict", "sample"}
    BY <1>3 DEF Reading, Evicting
  <2> QED
    BY <1>3, <1>4, <1>5, <2>1, <2>2 DEF SweepThread
<1>7. ASSUME p.begin = b, p.end = e, NEW nx PROVE Swept(q, {}, nx)
  BY <1>3, <1>5, <1>7 DEF Swept, InSight, Reading
<1> QED
  BY <1>3, <1>6, <1>7

(* What is left alone while a level is read or its candidates are evicted *)
SameLevel(p, q) ==
  /\ q \in ProviderFields(q) /\ q.offset = p.offset /\ q.begin = p.begin /\ q.end = p.end
  /\ q.sampling = p.sampling /\ q.batch = p.batch /\ q.b_i = p.b_i /\ q.write_idx = p.write_idx

(* The thread goes to x, *)
LEMMA GoesTo ==
  ASSUME NEW p, p \in ProviderFields(p), NEW x, NEW q, q = [p EXCEPT !.pc = x]
  PROVE  SameLevel(p, q) /\ q.pc = x /\ q.c_i = p.c_i /\ q.candidates = p.candidates
<1>1. /\ q.pc = x /\ q.c_i = p.c_i /\ q.candidates = p.candidates /\ q.offset = p.offset /\ q.begin = p.begin
      /\ q.end = p.end /\ q.sampling = p.sampling /\ q.batch = p.batch /\ q.b_i = p.b_i /\ q.write_idx = p.write_idx
  BY DEF ProviderFields
<1>2. q \in ProviderFields(q)
  BY DEF ProviderFields
<1> QED
  BY <1>1, <1>2 DEF SameLevel

(* or to x with another candidate. *)
WithCandidate(p, c, x) == [p EXCEPT !.c_i = c, !.pc = x]

LEMMA GoesToCandidate ==
  ASSUME NEW p, p \in ProviderFields(p), NEW x, NEW c, NEW q, q = WithCandidate(p, c, x)
  PROVE  SameLevel(p, q) /\ q.pc = x /\ q.c_i = c /\ q.candidates = p.candidates
<1>1. /\ q.pc = x /\ q.c_i = c /\ q.candidates = p.candidates /\ q.offset = p.offset /\ q.begin = p.begin
      /\ q.end = p.end /\ q.sampling = p.sampling /\ q.batch = p.batch /\ q.b_i = p.b_i /\ q.write_idx = p.write_idx
  BY DEF ProviderFields, WithCandidate
<1>2. q \in ProviderFields(q)
  BY DEF ProviderFields, WithCandidate
<1> QED
  BY <1>1, <1>2 DEF SameLevel

(* Nothing that was in sight is lost while the level stays as it is. *)
LEMMA LevelStays ==
  ASSUME NEW p, NEW q, SameLevel(p, q), NEW v, NEW nx, Swept(p, v, nx),
         p.pc \in Reading => q.pc \in Reading, q.pc \in Reading => p.pc \in Reading
  PROVE  Swept(q, v, nx)
BY DEF SameLevel, Swept, InSight

(* the rules for a step that leaves the level alone *)
SweepGoesOn ==
  /\ pp.pc \in Reading => pp'.pc \in Reading
  /\ pp'.pc \in Reading => pp.pc \in Reading
  /\ pp'.pc # "round" => pp.pc # "round" /\ (~ rewired' => ~ rewired /\ next' = next)

(* The invariant for the time after a step *)
LEMMA SweptAfter == SweepKept' <=> /\ pp'.sampling => visited' = {}
                                   /\ ~ rewired' /\ ~ pp'.sampling /\ pp'.pc # "round" => Swept(pp', visited', next')
BY DEF SweepKept, Swept, InSight, Reading, S!NoFrame

(* Such a step keeps it. *)
LEMMA LevelKept ==
  ASSUME SweepInv, SameLevel(pp, pp'), SweepGoesOn, UNCHANGED visited
  PROVE  SweepKept'
<1>1. pp'.sampling = pp.sampling
  BY DEF SameLevel
<1>2. pp'.sampling => visited' = {}
  BY <1>1 DEF SweepInv, SweepKept
<1>3. ASSUME ~ rewired', ~ pp'.sampling, pp'.pc # "round" PROVE Swept(pp', visited', next')
  <2>1. PICK p, q, v, nx : p = pp /\ q = pp' /\ v = visited /\ nx = next
    OBVIOUS
  <2>2. Swept(p, v, nx) /\ SameLevel(p, q)
    BY <1>1, <1>3, <2>1 DEF SweepInv, SweepKept, SweepGoesOn
  <2>3. (p.pc \in Reading => q.pc \in Reading) /\ (q.pc \in Reading => p.pc \in Reading)
    BY <2>1 DEF SweepGoesOn
  <2>4. Swept(q, v, nx)
    BY <2>2, <2>3, LevelStays
  <2>5. v = visited' /\ nx = next' /\ q = pp'
    BY <1>3, <2>1 DEF SweepGoesOn
  <2> QED
    BY <2>4, <2>5
<1> QED
  BY <1>2, <1>3, SweptAfter

(* The type of the thread behind such a step *)
LEMMA ThreadStays ==
  ASSUME NEW p, NEW q, SweepThread(p), SameLevel(p, q), q.pc \in {"round", "sample", "visit"} \cup Reading \cup Evicting,
         q.candidates \in Seq(Nat \X S!Frames), q.c_i \in Nat \ {0},
         q.pc \in Reading => q.b_i <= Len(q.batch), q.pc \in Evicting => q.b_i = Len(q.batch) + 1,
         q.pc \in {"recheck", "upgrade", "evict"} => q.c_i <= Len(q.candidates), q.pc # "sample"
  PROVE  SweepThread(q)
BY DEF SweepThread, SameLevel

(* The victim is a frame. *)
LEMMA VictimIsAFrame ==
  ASSUME SweepInv, pp.c_i <= Len(pp.candidates)
  PROVE  S!Victim \in S!Frames
<1>1. pp.candidates \in Seq(Nat \X S!Frames) /\ pp.c_i \in 1..Len(pp.candidates)
  BY DEF SweepInv, SweepThread
<1>2. pp.candidates[pp.c_i] \in Nat \X S!Frames
  BY <1>1
<1> QED
  BY <1>2 DEF S!Victim

(* The sweep has not begun. *)
LEMMA SweepInit == S!Init => SweepInv
<1> SUFFICES ASSUME S!Init PROVE SweepInv
  OBVIOUS
<1>1. pp = S!Idle /\ visited = {} /\ rewired = FALSE
  BY DEF S!Init
<1>2. /\ pp.pc = "round" /\ pp.offset = 0 /\ pp.begin = 0 /\ pp.end = 0 /\ pp.sampling = FALSE /\ pp.batch = <<>>
      /\ pp.b_i = 1 /\ pp.write_idx = 0 /\ pp.candidates = <<>> /\ pp.c_i = 1
  BY <1>1 DEF S!Idle
<1>3. pp \in ProviderFields(pp)
  BY <1>1 DEF S!Idle, ProviderFields
<1>4. SweepThread(pp)
  <2>1. pp.pc \notin Reading /\ pp.pc \notin Evicting
    BY <1>2 DEF Reading, Evicting
  <2>2. pp.offset \in 0..(Buckets - 1) /\ pp.begin \in Nat /\ pp.end \in pp.begin..Buckets
    BY <1>2, SweepAssumption
  <2>5. pp.sampling \in BOOLEAN
    BY <1>2
  <2>4. pp.batch \in Seq(S!Frames) /\ Len(pp.batch) = 0 /\ pp.candidates \in Seq(Nat \X S!Frames)
    BY <1>2
  <2>3. /\ pp.batch \in Seq(S!Frames) /\ pp.b_i \in 1..(Len(pp.batch) + 1) /\ pp.write_idx \in 0..(pp.b_i - 1)
        /\ pp.candidates \in Seq(Nat \X S!Frames) /\ pp.c_i \in Nat \ {0}
    BY <1>2, <2>4
  <2> QED
    BY <1>2, <1>3, <2>1, <2>2, <2>3, <2>5 DEF SweepThread
<1>5. SweepTypes
  BY DEF S!Init, SweepTypes
<1>6. VictimKept
  BY <1>2 DEF VictimKept
<1>7. SweepKept
  BY <1>1, <1>2 DEF SweepKept
<1> QED
  BY <1>4, <1>5, <1>6, <1>7 DEF SweepInv

-----------------------------------------------------------------------------
(* Workers *)

(* The thread does nothing meanwhile. *)
LEMMA WorkersKeep ==
  ASSUME SweepInv, UNCHANGED <<pp, visited>>, SweepTypes', VictimKept',
         pp.pc = "round" \/ (~ rewired' => ~ rewired /\ next' = next)
  PROVE  SweepInv'
<1>1. SameLevel(pp, pp') /\ SweepThread(pp')
  BY DEF SweepInv, SweepThread, SameLevel, ProviderFields
<1>2. SweepThread(pp)'
  BY DEF SweepInv, SweepThread, ProviderFields, S!Frames, Reading, Evicting
<1>3. SweepGoesOn
  BY DEF SweepGoesOn
<1>4. SweepKept'
  BY <1>1, <1>3, LevelKept
<1> QED
  BY <1>2, <1>4 DEF SweepInv

(* The victim is used or its version moved, for the time after a step *)
LEMMA VictimAfter ==
  ASSUME SweepInv, UNCHANGED pp,
         pp.pc = "upgrade" => state'[S!Victim] \notin {"FREE", "EVICTED"} \/ moved'[S!Victim],
         pp.pc = "evict" => state'[S!Victim] \notin {"FREE", "EVICTED"}
  PROVE  VictimKept'
BY DEF VictimKept, S!Used, S!Victim

(* A page is touched or its frame latched. *)
LEMMA TouchKeeps ==
  ASSUME SweepInv, NEW f \in S!Frames, S!Touch(f) \/ S!LatchFrame(f)
  PROVE  SweepInv'
<1>1. UNCHANGED <<pp, visited, state, moved, next, globalEpoch, rewired>>
  BY DEF S!Touch, S!LatchFrame, S!Change
<1>2. SweepTypes'
  <2>1. epoch' \in [S!Frames -> Nat] /\ latched' \in [S!Frames -> BOOLEAN]
    BY DEF S!Touch, S!LatchFrame, SweepInv, SweepTypes
  <2> QED
    BY <1>1, <2>1 DEF SweepInv, SweepTypes, S!Frames, S!NoFrame
<1>3. VictimKept'
  BY <1>1 DEF SweepInv, VictimKept, S!Used, S!Victim
<1> QED
  BY <1>1, <1>2, <1>3, WorkersKeep

(* A page is inserted. *)
LEMMA InsertKeeps ==
  ASSUME SweepInv, NEW b \in S!Heads, NEW f \in S!Frames, S!InsertFrame(b, f)
  PROVE  SweepInv'
<1>1. /\ UNCHANGED <<pp, visited, moved, globalEpoch>> /\ state' = [state EXCEPT ![f] = "IO_RDMA"]
      /\ latched' = [latched EXCEPT ![f] = TRUE] /\ epoch' = [epoch EXCEPT ![f] = globalEpoch]
      /\ UNCHANGED <<next, rewired>> \/ (rewired' = TRUE /\ \E t \in S!Frames : next' = [next EXCEPT ![t] = f])
  BY DEF S!InsertFrame, S!Change, S!Tails
<1>2. next' \in [S!Frames -> S!Frames \cup {S!NoFrame}] /\ (~ rewired' => ~ rewired /\ next' = next)
  BY <1>1 DEF SweepInv, SweepTypes
<1>3. SweepTypes'
  <2>1. /\ state' \in [S!Frames -> {"FREE", "HOT", "EVICTED", "IO_RDMA"}] /\ epoch' \in [S!Frames -> Nat]
        /\ latched' \in [S!Frames -> BOOLEAN]
    BY <1>1 DEF SweepInv, SweepTypes
  <2> QED
    BY <1>1, <1>2, <2>1 DEF SweepInv, SweepTypes, S!Frames, S!NoFrame
<1>4. \A g \in S!Frames : state[g] \notin {"FREE", "EVICTED"} => state'[g] \notin {"FREE", "EVICTED"}
  BY <1>1 DEF SweepInv, SweepTypes
<1>5. VictimKept'
  <2>1. pp.pc \in {"upgrade", "evict"} => S!Victim \in S!Frames
    BY VictimIsAFrame DEF SweepInv, SweepThread
  <2> QED
    BY <1>1, <1>4, <2>1, VictimAfter DEF SweepInv, VictimKept, S!Used
<1> QED
  BY <1>1, <1>2, <1>3, <1>5, WorkersKeep

(* A worker gives the latch back, which counts the version up. *)
LEMMA UnlatchKeeps ==
  ASSUME SweepInv, NEW f \in S!Frames, NEW to \in {"HOT", "IO_RDMA"}, S!UnlatchFrame(f, to)
  PROVE  SweepInv'
<1>1. /\ UNCHANGED <<pp, visited, globalEpoch, epoch, next, rewired>> /\ state' = [state EXCEPT ![f] = to]
      /\ latched' = [latched EXCEPT ![f] = FALSE] /\ moved' = [moved EXCEPT ![f] = pp.pc \in {"recheck", "upgrade"}]
  BY DEF S!UnlatchFrame, S!Change, S!Unlatch
<1>2. SweepTypes'
  <2>1. /\ state' \in [S!Frames -> {"FREE", "HOT", "EVICTED", "IO_RDMA"}] /\ latched' \in [S!Frames -> BOOLEAN]
    BY <1>1 DEF SweepInv, SweepTypes
  <2>2. moved' \in [S!Frames -> BOOLEAN]
    BY <1>1 DEF SweepInv, SweepTypes
  <2> QED
    BY <1>1, <2>1, <2>2 DEF SweepInv, SweepTypes, S!Frames, S!NoFrame
<1>3. \A g \in S!Frames : IF g = f THEN state'[g] \notin {"FREE", "EVICTED"}
                          ELSE state'[g] = state[g] /\ moved'[g] = moved[g]
  BY <1>1 DEF SweepInv, SweepTypes
<1>4. VictimKept'
  <2>1. pp.pc \in {"upgrade", "evict"} => S!Victim \in S!Frames
    BY VictimIsAFrame DEF SweepInv, SweepThread
  <2> QED
    BY <1>1, <1>3, <2>1, VictimAfter DEF SweepInv, VictimKept, S!Used
<1> QED
  BY <1>1, <1>2, <1>4, WorkersKeep

(* A frame is taken from its chain. *)
LEMMA UnlinkTypes ==
  ASSUME SweepInv, NEW f \in S!Frames, S!Unlink(f)
  PROVE  next' \in [S!Frames -> S!Frames \cup {S!NoFrame}]
BY DEF SweepInv, SweepTypes, S!Unlink

(* A page is removed: not the victim that is latched, and of another one the version moves. *)
LEMMA RemoveKeeps ==
  ASSUME SweepInv, NEW f \in S!Frames, S!RemoveFrame(f)
  PROVE  SweepInv'
<1>1. /\ UNCHANGED <<pp, visited, globalEpoch, epoch>> /\ state' = [state EXCEPT ![f] = "FREE"] /\ rewired' = TRUE
      /\ latched' = [latched EXCEPT ![f] = FALSE] /\ moved' = [moved EXCEPT ![f] = pp.pc \in {"recheck", "upgrade"}]
      /\ S!Unlink(f) /\ ~ (pp.pc = "evict" /\ S!Victim = f)
  BY DEF S!RemoveFrame, S!Change, S!Unlatch, S!LatchedByWorker
<1>2. SweepTypes'
  <2>1. /\ state' \in [S!Frames -> {"FREE", "HOT", "EVICTED", "IO_RDMA"}] /\ latched' \in [S!Frames -> BOOLEAN]
    BY <1>1 DEF SweepInv, SweepTypes
  <2>2. moved' \in [S!Frames -> BOOLEAN]
    BY <1>1 DEF SweepInv, SweepTypes
  <2>3. next' \in [S!Frames -> S!Frames \cup {S!NoFrame}]
    BY <1>1, UnlinkTypes
  <2> QED
    BY <1>1, <2>1, <2>2, <2>3 DEF SweepInv, SweepTypes, S!Frames, S!NoFrame
<1>3. /\ \A g \in S!Frames : g # f => state'[g] = state[g] /\ moved'[g] = moved[g]
      /\ pp.pc = "upgrade" => moved'[f]
  BY <1>1 DEF SweepInv, SweepTypes
<1>4. VictimKept'
  <2>1. pp.pc \in {"upgrade", "evict"} => S!Victim \in S!Frames
    BY VictimIsAFrame DEF SweepInv, SweepThread
  <2> QED
    BY <1>1, <1>3, <2>1, VictimAfter DEF SweepInv, VictimKept, S!Used
<1> QED
  BY <1>1, <1>2, <1>4, WorkersKeep

(* The owner has answered, between two sweeps. *)
LEMMA AnsweredKeeps ==
  ASSUME SweepInv, NEW f \in S!Frames, NEW a \in BOOLEAN, S!Answered(f, a)
  PROVE  SweepInv'
<1>1. /\ UNCHANGED <<pp, visited, globalEpoch, epoch, rewired>> /\ pp.pc = "round"
      /\ latched' = [latched EXCEPT ![f] = FALSE] /\ moved' = [moved EXCEPT ![f] = pp.pc \in {"recheck", "upgrade"}]
      /\ state' = [state EXCEPT ![f] = IF a THEN "FREE" ELSE @] /\ (S!Unlink(f) \/ UNCHANGED next)
  BY DEF S!Answered, S!Unlatch
<1>2. SweepTypes'
  <2>1. latched' \in [S!Frames -> BOOLEAN] /\ state' \in [S!Frames -> {"FREE", "HOT", "EVICTED", "IO_RDMA"}]
    BY <1>1 DEF SweepInv, SweepTypes
  <2>2. moved' \in [S!Frames -> BOOLEAN]
    BY <1>1 DEF SweepInv, SweepTypes
  <2>3. next' \in [S!Frames -> S!Frames \cup {S!NoFrame}]
    BY <1>1, UnlinkTypes DEF SweepInv, SweepTypes
  <2> QED
    BY <1>1, <2>1, <2>2, <2>3 DEF SweepInv, SweepTypes, S!Frames, S!NoFrame
<1>3. VictimKept'
  BY <1>1 DEF VictimKept
<1> QED
  BY <1>1, <1>2, <1>3, WorkersKeep

-----------------------------------------------------------------------------
(* The thread of the provider *)

(* What holds of the thread after a step *)
LEMMA ThreadAfter == SweepThread(pp)' <=> SweepThread(pp')
BY DEF SweepThread, ProviderFields, S!Frames, Reading, Evicting

(* frames stay as they are *)
LEMMA FramesStay ==
  ASSUME SweepInv, UNCHANGED <<state, epoch, latched, moved, next>>, globalEpoch' \in Nat
  PROVE  SweepTypes'
BY DEF SweepInv, SweepTypes, S!Frames, S!NoFrame

(* A step to where there is no victim *)
LEMMA NoVictim ==
  ASSUME pp'.pc \notin {"upgrade", "evict"}
  PROVE  VictimKept'
BY DEF VictimKept

(* A step that leaves the level alone *)
LEMMA LevelStep ==
  ASSUME SweepInv, SameLevel(pp, pp'), SweepThread(pp'), SweepGoesOn, UNCHANGED visited, SweepTypes', VictimKept'
  PROVE  SweepInv'
BY LevelKept, ThreadAfter DEF SweepInv

(* A new sweep or sampling begins. *)
LEMMA RoundKeeps ==
  ASSUME SweepInv, NEW i \in BOOLEAN, S!Round(i)
  PROVE  SweepInv'
<1>1. PICK o, p : /\ o = pp.offset
                  /\ p = [pp EXCEPT !.begin = o, !.end = S!BatchEnd(o), !.offset = S!Advance(o), !.needed = @ \/ i]
  OBVIOUS
<1>2. /\ pp.pc = "round" /\ visited' = {} /\ UNCHANGED <<state, epoch, latched, moved, next>>
      /\ globalEpoch' = IF i THEN globalEpoch + 1 ELSE globalEpoch
      /\ pp' = IF evict_to_ssd /\ p.needed THEN [p EXCEPT !.pc = "sample", !.samples = <<>>, !.sampling = TRUE]
               ELSE S!StartBatch(p, p.begin, p.end)
  BY <1>1 DEF S!Round, S!frameVars
<1>3. o \in 0..(Buckets - 1) /\ o \in Nat /\ S!BatchEnd(o) \in o..Buckets /\ S!Advance(o) \in 0..(Buckets - 1)
  BY <1>1, BatchBounds DEF SweepInv, SweepThread
<1>4. /\ p.begin = o /\ p.end = S!BatchEnd(o) /\ p.offset = S!Advance(o) /\ p.sampling = pp.sampling /\ p.c_i = pp.c_i
      /\ p.batch = pp.batch /\ p.b_i = pp.b_i /\ p.write_idx = pp.write_idx /\ p.candidates = pp.candidates
      /\ p.pc = pp.pc
  BY <1>1 DEF SweepInv, SweepThread, ProviderFields
<1>5. p \in ProviderFields(p)
  BY <1>1 DEF SweepInv, SweepThread, ProviderFields
<1>6. SweepTypes'
  <2>1. globalEpoch' \in Nat
    BY <1>2 DEF SweepInv, SweepTypes
  <2> QED
    BY <1>2, <2>1, FramesStay
<1>7. PICK q : q = pp'
  OBVIOUS
<1>8. CASE evict_to_ssd /\ p.needed
  <2>1. q = [p EXCEPT !.pc = "sample", !.samples = <<>>, !.sampling = TRUE]
    BY <1>2, <1>7, <1>8
  <2>2. /\ q.pc = "sample" /\ q.sampling = TRUE /\ q.begin = p.begin /\ q.end = p.end /\ q.offset = p.offset
        /\ q.batch = p.batch /\ q.b_i = p.b_i /\ q.write_idx = p.write_idx /\ q.candidates = p.candidates /\ q.c_i = p.c_i
    BY <1>5, <2>1 DEF ProviderFields
  <2>3. q \in ProviderFields(q)
    BY <1>5, <2>1 DEF ProviderFields
  <2>4. q.pc \notin Reading /\ q.pc \notin Evicting
    BY <2>2 DEF Reading, Evicting
  <2>5. SweepThread(q)
    BY <1>3, <1>4, <2>2, <2>3, <2>4 DEF SweepInv, SweepThread
  <2>6. SweepKept'
    BY <1>2, <1>7, <2>2, SweptAfter
  <2> QED
    BY <1>6, <1>7, <2>2, <2>5, <2>6, ThreadAfter, NoVictim DEF SweepInv
<1>9. CASE ~ (evict_to_ssd /\ p.needed)
  <2>1. q = S!StartBatch(p, p.begin, p.end)
    BY <1>2, <1>7, <1>9
  <2>2. /\ p.offset \in 0..(Buckets - 1) /\ p.begin \in Nat /\ p.end \in p.begin..Buckets
    BY <1>3, <1>4
  <2>3. p.sampling \in BOOLEAN /\ p.c_i \in Nat \ {0}
    BY <1>4 DEF SweepInv, SweepThread
  <2>4. SweepThread(q) /\ q.pc = "visit" /\ \A nx : Swept(q, {}, nx)
    BY <1>5, <2>1, <2>2, <2>3, BatchStarts
  <2>5. SweepKept'
    BY <1>2, <1>7, <2>4, SweptAfter
  <2> QED
    BY <1>6, <1>7, <2>4, <2>5, ThreadAfter, NoVictim DEF SweepInv
<1> QED
  BY <1>8, <1>9

(* A sampling batch, or the sampled window is taken and the sweep begins. *)
LEMMA SampleKeeps ==
  ASSUME SweepInv, S!Sample
  PROVE  SweepInv'
<1>1. /\ pp.pc = "sample" /\ pp.sampling = TRUE /\ visited = {}
      /\ UNCHANGED <<state, epoch, latched, moved, next, globalEpoch, visited, rewired>>
  <2>1. pp.pc = "sample" /\ UNCHANGED <<state, epoch, latched, moved, next, globalEpoch, visited, rewired>>
    BY DEF S!Sample, S!frameVars
  <2>2. pp.sampling = TRUE
    BY <2>1 DEF SweepInv, SweepThread
  <2> QED
    BY <2>1, <2>2 DEF SweepInv, SweepKept
<1>2. SweepTypes'
  BY <1>1, FramesStay DEF SweepInv, SweepTypes
<1>3. PICK q : q = pp'
  OBVIOUS
<1>4. /\ pp \in ProviderFields(pp) /\ pp.offset \in 0..(Buckets - 1) /\ pp.begin \in Nat /\ pp.end \in pp.begin..Buckets
      /\ pp.c_i \in Nat \ {0}
  BY DEF SweepInv, SweepThread
<1>5. CASE Len(pp.samples) < required_samples
  <2>1. PICK o, e, p : /\ o = pp.offset /\ e = S!BatchEnd(o) /\ p = [pp EXCEPT !.offset = S!Advance(@)]
    OBVIOUS
  <2>2. q = S!StartBatch(p, o, e)
    BY <1>3, <1>5, <2>1 DEF S!Sample
  <2>3. o \in Nat /\ e \in o..Buckets /\ S!Advance(o) \in 0..(Buckets - 1)
    BY <1>4, <2>1, BatchBounds
  <2>4. /\ p.offset = S!Advance(o) /\ p.begin = pp.begin /\ p.end = pp.end /\ p.c_i = pp.c_i /\ p.sampling = TRUE
    BY <1>1, <1>4, <2>1 DEF ProviderFields
  <2>5. p \in ProviderFields(p)
    BY <1>4, <2>1 DEF ProviderFields
  <2>6. SweepThread(q) /\ q.pc = "visit" /\ q.sampling = TRUE
    BY <1>4, <2>2, <2>3, <2>4, <2>5, BatchStarts
  <2>7. SweepKept'
    BY <1>1, <1>3, <2>6, SweptAfter
  <2> QED
    BY <1>2, <1>3, <2>6, <2>7, ThreadAfter, NoVictim DEF SweepInv
<1>6. CASE ~ (Len(pp.samples) < required_samples)
  <2>1. PICK w, p : p = [pp EXCEPT !.window = w, !.needed = FALSE, !.sampling = FALSE, !.samples = <<>>]
                    /\ pp' = S!StartBatch(p, pp.begin, pp.end)
    BY <1>6 DEF S!Sample
  <2>2. p.begin = pp.begin /\ p.end = pp.end /\ p.c_i = pp.c_i /\ p.sampling = FALSE /\ p.offset = pp.offset
    BY <1>4, <2>1 DEF ProviderFields
  <2>3. p \in ProviderFields(p)
    BY <1>4, <2>1 DEF ProviderFields
  <2>4. q = S!StartBatch(p, p.begin, p.end)
    BY <1>3, <2>1, <2>2
  <2>5. /\ p.offset \in 0..(Buckets - 1) /\ p.begin \in Nat /\ p.end \in p.begin..Buckets /\ p.sampling \in BOOLEAN
        /\ p.c_i \in Nat \ {0}
    BY <1>4, <2>2
  <2>6. SweepThread(q) /\ q.pc = "visit" /\ q.sampling = FALSE /\ \A nx : Swept(q, {}, nx)
    BY <2>2, <2>3, <2>4, <2>5, BatchStarts
  <2>7. SweepKept'
    BY <1>1, <1>3, <2>6, SweptAfter
  <2> QED
    BY <1>2, <1>3, <2>6, <2>7, ThreadAfter, NoVictim DEF SweepInv
<1> QED
  BY <1>5, <1>6

(* The frame of the batch the thread is at *)
LEMMA AtAFrame ==
  ASSUME SweepInv, pp.b_i <= Len(pp.batch)
  PROVE  pp.batch[pp.b_i] \in S!Frames /\ pp.b_i \in 1..Len(pp.batch) /\ Len(pp.batch) \in Nat
<1>1. pp.batch \in Seq(S!Frames) /\ pp.b_i \in 1..(Len(pp.batch) + 1)
  BY DEF SweepInv, SweepThread
<1> QED
  BY <1>1

(* A frame is sampled, or the level is left because the samples suffice. *)
LEMMA VisitSampleKeeps ==
  ASSUME SweepInv, S!VisitSample
  PROVE  SweepInv'
<1>1. /\ pp.pc = "visit" /\ pp.b_i <= Len(pp.batch) /\ pp.sampling /\ visited = {}
      /\ UNCHANGED <<state, epoch, latched, moved, next, globalEpoch, visited, rewired>>
  BY DEF S!VisitSample, S!AtFrame, S!frameVars, SweepInv, SweepKept
<1>2. SweepTypes'
  BY <1>1, FramesStay DEF SweepInv, SweepTypes
<1>3. PICK q : q = pp'
  OBVIOUS
<1>4. SweepThread(pp) /\ pp \in ProviderFields(pp)
  BY DEF SweepInv, SweepThread
<1>5. SweepThread(q) /\ q.sampling = pp.sampling /\ q.pc \in {"visit", "follow"}
  <2>1. CASE Len(pp.samples) = required_samples
    <3>1. q = [pp EXCEPT !.b_i = Len(pp.batch) + 1]
      BY <1>3, <2>1 DEF S!VisitSample
    <3>2. /\ q.pc = pp.pc /\ q.offset = pp.offset /\ q.begin = pp.begin /\ q.end = pp.end /\ q.sampling = pp.sampling
          /\ q.batch = pp.batch /\ q.b_i = Len(pp.batch) + 1 /\ q.write_idx = pp.write_idx
          /\ q.candidates = pp.candidates /\ q.c_i = pp.c_i
      BY <1>4, <3>1 DEF ProviderFields
    <3>3. q \in ProviderFields(q)
      BY <1>4, <3>1 DEF ProviderFields
    <3>4. q.b_i \in 1..(Len(q.batch) + 1) /\ q.write_idx \in 0..(q.b_i - 1)
      BY <1>1, <1>4, <3>2 DEF SweepThread
    <3>5. q.pc \notin Reading /\ q.pc \notin Evicting
      BY <1>1, <3>2 DEF Reading, Evicting
    <3> QED
      BY <1>1, <1>4, <3>2, <3>3, <3>4, <3>5 DEF SweepThread
  <2>2. CASE Len(pp.samples) # required_samples
    <3>1. PICK x : q = [pp EXCEPT !.samples = x, !.pc = "follow"]
      BY <1>3, <2>2 DEF S!VisitSample
    <3>2. /\ q.pc = "follow" /\ q.offset = pp.offset /\ q.begin = pp.begin /\ q.end = pp.end /\ q.sampling = pp.sampling
          /\ q.batch = pp.batch /\ q.b_i = pp.b_i /\ q.write_idx = pp.write_idx
          /\ q.candidates = pp.candidates /\ q.c_i = pp.c_i
      BY <1>4, <3>1 DEF ProviderFields
    <3>3. q \in ProviderFields(q)
      BY <1>4, <3>1 DEF ProviderFields
    <3>4. q.pc \in Reading /\ q.pc \notin Evicting
      BY <3>2 DEF Reading, Evicting
    <3> QED
      BY <1>1, <1>4, <3>2, <3>3, <3>4 DEF SweepThread
  <2> QED
    BY <2>1, <2>2
<1>6. SweepKept'
  BY <1>1, <1>3, <1>5, SweptAfter
<1> QED
  BY <1>2, <1>3, <1>5, <1>6, ThreadAfter, NoVictim DEF SweepInv

(* A frame is looked at. *)
LEMMA VisitCandidateKeeps ==
  ASSUME SweepInv, S!VisitCandidate
  PROVE  SweepInv'
<1>1. PICK f, q, v : f = pp.batch[pp.b_i] /\ q = pp' /\ v = visited
  OBVIOUS
<1>2. /\ pp.pc = "visit" /\ pp.b_i <= Len(pp.batch) /\ ~ pp.sampling /\ visited' = v \cup {f}
      /\ UNCHANGED <<state, epoch, latched, moved, next, globalEpoch, rewired>>
  BY <1>1 DEF S!VisitCandidate, S!AtFrame, S!frameVars
<1>3. SweepTypes'
  BY <1>2, FramesStay DEF SweepInv, SweepTypes
<1>4. SweepThread(pp) /\ pp \in ProviderFields(pp)
  BY DEF SweepInv, SweepThread
<1>5. PICK x : x \in Reading /\ q = [pp EXCEPT !.pc = x]
  BY <1>1 DEF S!VisitCandidate, Reading
<1>6. SameLevel(pp, q) /\ q.pc = x /\ q.c_i = pp.c_i /\ q.candidates = pp.candidates
  BY <1>4, <1>5, GoesTo
<1>7. SweepThread(q)
  <2>1. q.pc \in Reading /\ q.pc \notin Evicting /\ q.pc \notin {"recheck", "upgrade", "evict", "sample"}
    BY <1>5, <1>6 DEF Reading, Evicting
  <2> QED
    BY <1>2, <1>4, <1>6, <2>1 DEF SweepThread, SameLevel
<1>8. SweepKept'
  <2>1. ~ q.sampling
    BY <1>2, <1>6 DEF SameLevel
  <2>2. ASSUME ~ rewired' PROVE Swept(q, v \cup {f}, next)
    <3>1. Swept(pp, v, next)
      BY <1>1, <1>2, <2>2 DEF SweepInv, SweepKept
    <3>2. \A g : InSight(g, pp, v) => InSight(g, q, v \cup {f})
      BY <1>6 DEF InSight, SameLevel
    <3>3. q.pc \in Reading /\ q.batch[q.b_i] = f /\ pp.pc \notin Reading /\ q.begin = pp.begin /\ q.end = pp.end
      BY <1>1, <1>2, <1>5, <1>6 DEF SameLevel, Reading
    <3> QED
      BY <3>1, <3>2, <3>3 DEF Swept
  <2> QED
    BY <1>1, <1>2, <2>1, <2>2, SweptAfter
<1>9. q.pc \notin {"upgrade", "evict"}
  BY <1>5, <1>6 DEF Reading
<1> QED
  BY <1>1, <1>3, <1>7, <1>8, <1>9, ThreadAfter, NoVictim DEF SweepInv

(* The candidate is noted. *)
LEMMA RememberKeeps ==
  ASSUME SweepInv, S!Remember
  PROVE  SweepInv'
<1>1. PICK f, q : f = pp.batch[pp.b_i] /\ q = pp'
  OBVIOUS
<1>2. /\ pp.pc = "remember" /\ q = [pp EXCEPT !.candidates = Append(@, <<epoch[f], f>>), !.pc = "follow"]
      /\ UNCHANGED <<state, epoch, latched, moved, next, globalEpoch, visited, rewired>>
  BY <1>1 DEF S!Remember, S!frameVars
<1>3. SweepTypes'
  BY <1>2, FramesStay DEF SweepInv, SweepTypes
<1>4. SweepThread(pp) /\ pp \in ProviderFields(pp) /\ pp.b_i <= Len(pp.batch)
  BY <1>2 DEF SweepInv, SweepThread, Reading
<1>5. /\ q.pc = "follow" /\ q.offset = pp.offset /\ q.begin = pp.begin /\ q.end = pp.end /\ q.sampling = pp.sampling
      /\ q.batch = pp.batch /\ q.b_i = pp.b_i /\ q.write_idx = pp.write_idx
      /\ q.candidates = Append(pp.candidates, <<epoch[f], f>>) /\ q.c_i = pp.c_i
  BY <1>2, <1>4 DEF ProviderFields
<1>6. q \in ProviderFields(q)
  BY <1>2, <1>4 DEF ProviderFields
<1>7. SameLevel(pp, q)
  BY <1>5, <1>6 DEF SameLevel
<1>8. q.pc \in Reading /\ q.pc \notin Evicting /\ pp.pc \in Reading
  BY <1>2, <1>5 DEF Reading, Evicting
<1>9. SweepThread(q)
  <2>1. f \in S!Frames /\ epoch[f] \in Nat
    BY <1>1, <1>4, AtAFrame DEF SweepInv, SweepTypes
  <2>2. q.candidates \in Seq(Nat \X S!Frames)
    <3>1. <<epoch[f], f>> \in Nat \X S!Frames /\ pp.candidates \in Seq(Nat \X S!Frames)
      BY <1>4, <2>1 DEF SweepThread
    <3> QED
      BY <1>5, <3>1
  <2> QED
    BY <1>4, <1>5, <1>6, <1>8, <2>2 DEF SweepThread
<1>10. SweepGoesOn
  BY <1>1, <1>2, <1>5, <1>8 DEF SweepGoesOn
<1>11. VictimKept'
  BY <1>1, <1>5, NoVictim
<1> QED
  BY <1>1, <1>2, <1>3, <1>7, <1>9, <1>10, <1>11, LevelStep

(* The next frame of the chain joins the next level, in the place of an entry of this one that has been read. *)
LEMMA FollowKeeps ==
  ASSUME SweepInv, S!Follow
  PROVE  SweepInv'
<1>1. PICK g, f, q, v, w : g = pp.batch[pp.b_i] /\ f = next[g] /\ q = pp' /\ v = visited /\ w = pp.write_idx
  OBVIOUS
<1>2. /\ pp.pc = "follow" /\ UNCHANGED <<state, epoch, latched, moved, next, globalEpoch, visited, rewired>>
      /\ q = [pp EXCEPT !.pc = "visit", !.b_i = @ + 1,
                        !.write_idx = IF f = S!NoFrame THEN @ ELSE @ + 1,
                        !.batch = IF f = S!NoFrame THEN @ ELSE [@ EXCEPT ![w + 1] = f]]
  BY <1>1 DEF S!Follow, S!frameVars
<1>3. SweepTypes'
  BY <1>2, FramesStay DEF SweepInv, SweepTypes
<1>4. /\ SweepThread(pp) /\ pp \in ProviderFields(pp) /\ pp.b_i <= Len(pp.batch) /\ pp.pc \in Reading
  BY <1>2 DEF SweepInv, SweepThread, Reading
<1>5. /\ q.pc = "visit" /\ q.offset = pp.offset /\ q.begin = pp.begin /\ q.end = pp.end /\ q.sampling = pp.sampling
      /\ q.b_i = pp.b_i + 1 /\ q.write_idx = (IF f = S!NoFrame THEN w ELSE w + 1)
      /\ q.batch = (IF f = S!NoFrame THEN pp.batch ELSE [pp.batch EXCEPT ![w + 1] = f])
      /\ q.candidates = pp.candidates /\ q.c_i = pp.c_i
  BY <1>1, <1>2, <1>4 DEF ProviderFields
<1>6. q \in ProviderFields(q)
  BY <1>2, <1>4 DEF ProviderFields
<1>7. g \in S!Frames /\ f \in S!Frames \cup {S!NoFrame}
  <2>1. g \in S!Frames
    BY <1>1, <1>4, AtAFrame
  <2> QED
    BY <1>1, <2>1 DEF SweepInv, SweepTypes
<1>8. PICK n : n = Len(pp.batch)
  OBVIOUS
<1>9. /\ n \in Nat /\ pp.b_i \in 1..n /\ w \in 0..(pp.b_i - 1) /\ w + 1 \in 1..n /\ w + 1 <= pp.b_i
      /\ pp.batch \in Seq(S!Frames)
  <2>1. pp.batch \in Seq(S!Frames) /\ w \in 0..(pp.b_i - 1)
    BY <1>1, <1>4 DEF SweepThread
  <2>2. n \in Nat /\ pp.b_i \in 1..n
    BY <1>4, <1>8, AtAFrame
  <2> QED
    BY <2>1, <2>2
<1>10. /\ q.batch \in Seq(S!Frames) /\ Len(q.batch) = n
       /\ \A i \in 1..n : q.batch[i] = IF f # S!NoFrame /\ i = w + 1 THEN f ELSE pp.batch[i]
  BY <1>5, <1>7, <1>8, <1>9
<1>11. SweepThread(q)
  <2>1. q.b_i \in 1..(Len(q.batch) + 1) /\ q.write_idx \in 0..(q.b_i - 1)
    BY <1>5, <1>9, <1>10
  <2>2. q.pc \notin Reading /\ q.pc \notin Evicting /\ q.pc \notin {"recheck", "upgrade", "evict", "sample"}
    BY <1>5 DEF Reading, Evicting
  <2> QED
    BY <1>4, <1>5, <1>6, <1>10, <2>1, <2>2 DEF SweepThread
<1>12. ASSUME ~ rewired', ~ q.sampling PROVE Swept(q, v, next)
  <2>1. Swept(pp, v, next)
    BY <1>1, <1>2, <1>5, <1>12 DEF SweepInv, SweepKept
  <2>2. g \in v
    BY <1>1, <1>4, <2>1 DEF Swept
  <2>3. f # S!NoFrame => InSight(f, q, v)
    BY <1>5, <1>9, <1>10 DEF InSight
  <2>4. ASSUME NEW h, InSight(h, pp, v) PROVE InSight(h, q, v)
    <3>1. CASE h \in v
      BY <3>1 DEF InSight
    <3>2. CASE \E i \in 1..w : pp.batch[i] = h
      <4>1. PICK i \in 1..w : pp.batch[i] = h
        BY <3>2
      <4>2. i \in 1..n /\ i # w + 1 /\ i \in 1..q.write_idx
        BY <1>5, <1>9
      <4> QED
        BY <1>10, <4>1, <4>2 DEF InSight
    <3>3. CASE \E i \in pp.b_i..n : pp.batch[i] = h
      <4>1. PICK i \in pp.b_i..n : pp.batch[i] = h
        BY <3>3
      <4>2. i = pp.b_i => h = g
        BY <1>1, <4>1
      <4>3. i # pp.b_i => i \in 1..n /\ i # w + 1 /\ i \in q.b_i..n
        BY <1>5, <1>9
      <4>4. CASE i = pp.b_i
        BY <2>2, <4>2, <4>4 DEF InSight
      <4>5. CASE i # pp.b_i
        BY <1>10, <4>1, <4>3, <4>5 DEF InSight
      <4> QED
        BY <4>4, <4>5
    <3> QED
      BY <1>1, <1>8, <2>4, <3>1, <3>2, <3>3 DEF InSight
  <2>5. q.pc \notin Reading
    BY <1>5 DEF Reading
  <2>6. \A h \in v : next[h] = S!NoFrame \/ InSight(next[h], q, v)
    <3> SUFFICES ASSUME NEW h \in v, next[h] # S!NoFrame PROVE InSight(next[h], q, v)
      OBVIOUS
    <3>1. CASE h = g
      BY <1>1, <2>3, <3>1
    <3>2. CASE h # g
      BY <1>1, <2>1, <2>4, <3>2 DEF Swept
    <3> QED
      BY <3>1, <3>2
  <2>7. \A b \in q.begin..(q.end - 1) : InSight(b, q, v)
    BY <1>5, <2>1, <2>4 DEF Swept
  <2> QED
    BY <2>5, <2>6, <2>7 DEF Swept
<1>13. SweepKept'
  <2>1. q.sampling => visited' = {}
    BY <1>2, <1>5 DEF SweepInv, SweepKept
  <2> QED
    BY <1>1, <1>2, <1>12, <2>1, SweptAfter
<1> QED
  BY <1>1, <1>3, <1>5, <1>11, <1>13, ThreadAfter, NoVictim DEF SweepInv

(* The level has been read. *)
LEMMA EndLevelKeeps ==
  ASSUME SweepInv, S!EndLevel
  PROVE  SweepInv'
<1>1. PICK q : q = pp'
  OBVIOUS
<1>2. /\ pp.pc = "visit" /\ pp.b_i > Len(pp.batch)
      /\ UNCHANGED <<state, epoch, latched, moved, next, globalEpoch, visited, rewired>>
  BY DEF S!EndLevel, S!frameVars
<1>3. SweepTypes'
  BY <1>2, FramesStay DEF SweepInv, SweepTypes
<1>4. SweepThread(pp) /\ pp \in ProviderFields(pp)
  BY DEF SweepInv, SweepThread
<1>5. PICK x, c : x \in {"nextlevel", "candidate"} /\ c = 1 /\ q = WithCandidate(pp, c, x)
  BY <1>1 DEF S!EndLevel, WithCandidate
<1>6. SameLevel(pp, q) /\ q.pc = x /\ q.c_i = 1 /\ q.candidates = pp.candidates
  BY <1>4, <1>5, GoesToCandidate
<1>7. /\ q.pc \notin Reading /\ q.pc \in Evicting /\ pp.pc \notin Reading
      /\ q.pc \notin {"round", "sample", "recheck", "upgrade", "evict"}
  BY <1>2, <1>5, <1>6 DEF Reading, Evicting
<1>8. SweepThread(q)
  <2>1. pp.batch \in Seq(S!Frames) /\ pp.b_i \in 1..(Len(pp.batch) + 1)
    BY <1>4 DEF SweepThread
  <2>2. pp.b_i = Len(pp.batch) + 1
    BY <1>2, <2>1
  <2>3. q.b_i = Len(q.batch) + 1
    BY <1>6, <2>2 DEF SameLevel
  <2>4. q.candidates \in Seq(Nat \X S!Frames) /\ q.c_i \in Nat \ {0}
    BY <1>4, <1>6 DEF SweepThread
  <2> QED
    BY <1>4, <1>6, <1>7, <2>3, <2>4, ThreadStays
<1>9. SweepGoesOn
  BY <1>1, <1>2, <1>7 DEF SweepGoesOn
<1>10. VictimKept'
  BY <1>1, <1>7, NoVictim
<1> QED
  BY <1>1, <1>2, <1>3, <1>6, <1>8, <1>9, <1>10, LevelStep

(* The chains go on, and the frames that follow are the next level; or they have ended. *)
LEMMA NextLevelKeeps ==
  ASSUME SweepInv, S!NextLevel
  PROVE  SweepInv'
<1>1. PICK q, v, w : q = pp' /\ v = visited /\ w = pp.write_idx
  OBVIOUS
<1>2. /\ pp.pc = "nextlevel" /\ UNCHANGED <<state, epoch, latched, moved, next, globalEpoch, visited, rewired>>
  BY DEF S!NextLevel, S!frameVars
<1>3. SweepTypes'
  BY <1>2, FramesStay DEF SweepInv, SweepTypes
<1>4. SweepThread(pp) /\ pp \in ProviderFields(pp) /\ pp.b_i = Len(pp.batch) + 1 /\ pp.pc \notin Reading
  BY <1>2 DEF SweepInv, SweepThread, Evicting, Reading
<1>5. pp.batch \in Seq(S!Frames) /\ Len(pp.batch) \in Nat /\ w \in 0..Len(pp.batch)
  <2>1. pp.batch \in Seq(S!Frames) /\ pp.write_idx \in 0..(pp.b_i - 1)
    BY <1>4 DEF SweepThread
  <2> QED
    BY <1>1, <1>4, <2>1
<1>6. CASE w > 0
  <2>1. q = [pp EXCEPT !.batch = SubSeq(@, 1, w), !.b_i = 1, !.write_idx = 0, !.c_i = 1, !.candidates = <<>>, !.pc = "visit"]
    BY <1>1, <1>6 DEF S!NextLevel
  <2>2. /\ q.pc = "visit" /\ q.offset = pp.offset /\ q.begin = pp.begin /\ q.end = pp.end /\ q.sampling = pp.sampling
        /\ q.b_i = 1 /\ q.write_idx = 0 /\ q.batch = SubSeq(pp.batch, 1, w) /\ q.candidates = <<>> /\ q.c_i = 1
    BY <1>4, <2>1 DEF ProviderFields
  <2>3. q \in ProviderFields(q)
    BY <1>4, <2>1 DEF ProviderFields
  <2>4. q.batch \in Seq(S!Frames) /\ Len(q.batch) = w /\ \A i \in 1..w : q.batch[i] = pp.batch[i]
    BY <1>5, <2>2
  <2>5. SweepThread(q)
    <3>1. q.b_i \in 1..(Len(q.batch) + 1) /\ q.write_idx \in 0..(q.b_i - 1) /\ q.candidates \in Seq(Nat \X S!Frames)
      BY <1>5, <2>2, <2>4
    <3>2. q.pc \notin Reading /\ q.pc \notin Evicting /\ q.pc \notin {"recheck", "upgrade", "evict", "sample"}
      BY <2>2 DEF Reading, Evicting
    <3> QED
      BY <1>4, <2>2, <2>3, <2>4, <3>1, <3>2 DEF SweepThread
  <2>6. ASSUME ~ rewired', ~ q.sampling PROVE Swept(q, v, next)
    <3>1. Swept(pp, v, next)
      BY <1>1, <1>2, <2>2, <2>6 DEF SweepInv, SweepKept
    <3>2. \A h : InSight(h, pp, v) => InSight(h, q, v)
      BY <1>1, <1>4, <1>5, <2>2, <2>4 DEF InSight
    <3>3. q.pc \notin Reading
      BY <2>2 DEF Reading
    <3> QED
      BY <1>4, <2>2, <3>1, <3>2, <3>3 DEF Swept
  <2>7. SweepKept'
    <3>1. q.sampling => visited' = {}
      BY <1>2, <2>2 DEF SweepInv, SweepKept
    <3> QED
      BY <1>1, <1>2, <2>6, <3>1, SweptAfter
  <2> QED
    BY <1>1, <1>3, <2>2, <2>5, <2>7, ThreadAfter, NoVictim DEF SweepInv
<1>7. CASE ~ (w > 0)
  <2>1. PICK x : /\ x = (IF pp.sampling THEN "sample" ELSE "round")
                 /\ q = [pp EXCEPT !.pc = x, !.batch = <<>>, !.b_i = 1, !.c_i = 1, !.candidates = <<>>]
    BY <1>1, <1>7 DEF S!NextLevel
  <2>2. /\ q.pc = x /\ q.offset = pp.offset /\ q.begin = pp.begin /\ q.end = pp.end /\ q.sampling = pp.sampling
        /\ q.b_i = 1 /\ q.write_idx = w /\ q.batch = <<>> /\ q.candidates = <<>> /\ q.c_i = 1
    BY <1>1, <1>4, <2>1 DEF ProviderFields
  <2>3. q \in ProviderFields(q)
    BY <1>4, <2>1 DEF ProviderFields
  <2>4. SweepThread(q)
    <3>1. /\ q.batch \in Seq(S!Frames) /\ Len(q.batch) = 0 /\ q.write_idx = 0 /\ q.candidates \in Seq(Nat \X S!Frames)
      BY <1>5, <1>7, <2>2
    <3>2. q.pc \notin Reading /\ q.pc \notin Evicting /\ q.pc \notin {"recheck", "upgrade", "evict"}
      BY <2>1, <2>2 DEF Reading, Evicting
    <3>3. q.pc \in {"round", "sample"} /\ (q.pc = "sample" => q.sampling)
      BY <2>1, <2>2
    <3> QED
      BY <1>4, <2>2, <2>3, <3>1, <3>2, <3>3 DEF SweepThread
  <2>5. SweepKept'
    <3>1. q.sampling => visited' = {}
      BY <1>2, <2>2 DEF SweepInv, SweepKept
    <3>2. q.sampling \/ q.pc = "round"
      BY <2>1, <2>2
    <3> QED
      BY <1>1, <3>1, <3>2, SweptAfter
  <2>6. q.pc \notin {"upgrade", "evict"}
    BY <2>1, <2>2
  <2> QED
    BY <1>1, <1>3, <2>4, <2>5, <2>6, ThreadAfter, NoVictim DEF SweepInv
<1> QED
  BY <1>6, <1>7

(* The candidates of a level are tried one after the other: a step of this part leaves the level alone. *)
EvictingStep(q) ==
  /\ SameLevel(pp, q) /\ q.candidates = pp.candidates /\ q.c_i \in Nat \ {0}
  /\ q.pc \in {"candidate", "nextlevel", "recheck", "upgrade", "evict"}
  /\ q.pc \in {"recheck", "upgrade", "evict"} => q.c_i = pp.c_i /\ q.c_i <= Len(q.candidates)

LEMMA EvictingKeeps ==
  ASSUME SweepInv, pp.pc \in Evicting, EvictingStep(pp'), UNCHANGED visited, ~ rewired' => ~ rewired /\ next' = next,
         SweepTypes', VictimKept'
  PROVE  SweepInv'
<1>1. PICK q : q = pp'
  OBVIOUS
<1>2. SweepThread(pp) /\ SameLevel(pp, q) /\ q.candidates = pp.candidates /\ q.pc \in Evicting
  BY <1>1 DEF SweepInv, EvictingStep, Evicting
<1>3. pp.pc \notin Reading /\ q.pc \notin Reading /\ pp.pc # "round" /\ q.pc # "round" /\ q.pc # "sample"
  BY <1>2 DEF Evicting, Reading
<1>4. q.b_i = Len(q.batch) + 1 /\ q.candidates \in Seq(Nat \X S!Frames)
  BY <1>2 DEF SweepThread, SameLevel
<1>5. q.c_i \in Nat \ {0} /\ (q.pc \in {"recheck", "upgrade", "evict"} => q.c_i <= Len(q.candidates))
  BY <1>1 DEF EvictingStep
<1>6. SweepThread(q)
  BY <1>2, <1>3, <1>4, <1>5, ThreadStays
<1>7. SweepGoesOn
  BY <1>1, <1>3 DEF SweepGoesOn
<1> QED
  BY <1>1, <1>2, <1>6, <1>7, LevelStep

(* The steps of this part: to another place with the same candidate, *)
LEMMA EvictingGoes ==
  ASSUME SweepInv, NEW x \in {"nextlevel", "recheck", "upgrade", "evict"}, NEW q, q = [pp EXCEPT !.pc = x],
         x \in {"recheck", "upgrade", "evict"} => pp.c_i <= Len(pp.candidates)
  PROVE  EvictingStep(q) /\ q.pc = x /\ q.c_i = pp.c_i /\ q.candidates = pp.candidates
<1>1. pp \in ProviderFields(pp) /\ pp.c_i \in Nat \ {0}
  BY DEF SweepInv, SweepThread
<1>2. SameLevel(pp, q) /\ q.pc = x /\ q.c_i = pp.c_i /\ q.candidates = pp.candidates
  BY <1>1, GoesTo
<1> QED
  BY <1>1, <1>2 DEF EvictingStep

(* or on to the next candidate. *)
LEMMA EvictingSkips ==
  ASSUME SweepInv, NEW q, q = S!Skip(pp)
  PROVE  EvictingStep(q) /\ q.pc = "candidate"
<1>1. pp \in ProviderFields(pp) /\ pp.c_i \in Nat \ {0}
  BY DEF SweepInv, SweepThread
<1>2. PICK x, c : x = "candidate" /\ c = pp.c_i + 1
  OBVIOUS
<1>3. q = WithCandidate(pp, c, x)
  BY <1>2 DEF S!Skip, WithCandidate
<1>4. SameLevel(pp, q) /\ q.pc = x /\ q.c_i = c /\ q.candidates = pp.candidates
  BY <1>1, <1>3, GoesToCandidate
<1>5. q.c_i \in Nat \ {0}
  BY <1>1, <1>2, <1>4
<1> QED
  BY <1>2, <1>4, <1>5 DEF EvictingStep

(* The version of the candidate's latch is read. *)
LEMMA OptimisticLatchKeeps ==
  ASSUME SweepInv, S!OptimisticLatch
  PROVE  SweepInv'
<1>1. PICK q : q = pp'
  OBVIOUS
<1>2. /\ pp.pc = "candidate" /\ UNCHANGED <<state, epoch, latched, next, globalEpoch, visited, rewired>>
      /\ moved' = moved \/ moved' = [moved EXCEPT ![S!Victim] = FALSE]
      /\ \/ q = [pp EXCEPT !.pc = "nextlevel"] \/ q = S!Skip(pp)
         \/ ~ (pp.c_i > Len(pp.candidates)) /\ q = [pp EXCEPT !.pc = "recheck"]
  BY <1>1 DEF S!OptimisticLatch
<1>3. SweepTypes'
  <2>1. moved' \in [S!Frames -> BOOLEAN]
    BY <1>2 DEF SweepInv, SweepTypes
  <2> QED
    BY <1>2, <2>1 DEF SweepInv, SweepTypes, S!Frames, S!NoFrame
<1>4. pp.c_i \in Nat /\ Len(pp.candidates) \in Nat
  BY DEF SweepInv, SweepThread
<1>5. EvictingStep(q) /\ q.pc \in {"nextlevel", "candidate", "recheck"}
  <2>1. CASE q = [pp EXCEPT !.pc = "nextlevel"]
    BY <2>1, EvictingGoes
  <2>2. CASE q = S!Skip(pp)
    BY <2>2, EvictingSkips
  <2>3. CASE ~ (pp.c_i > Len(pp.candidates)) /\ q = [pp EXCEPT !.pc = "recheck"]
    <3>1. pp.c_i <= Len(pp.candidates)
      BY <1>4, <2>3
    <3> QED
      BY <2>3, <3>1, EvictingGoes
  <2> QED
    BY <1>2, <2>1, <2>2, <2>3
<1>6. VictimKept' /\ pp.pc \in Evicting
  BY <1>1, <1>2, <1>5, NoVictim DEF Evicting
<1> QED
  BY <1>1, <1>2, <1>3, <1>5, <1>6, EvictingKeeps

(* The candidate is tested again, behind the version. *)
LEMMA RecheckKeeps ==
  ASSUME SweepInv, S!Recheck
  PROVE  SweepInv'
<1>1. PICK q : q = pp'
  OBVIOUS
<1>2. /\ pp.pc = "recheck" /\ UNCHANGED <<state, epoch, latched, moved, next, globalEpoch, visited, rewired>>
      /\ q = S!Skip(pp) \/ (S!Used(S!Victim) /\ q = [pp EXCEPT !.pc = "upgrade"])
  BY <1>1 DEF S!Recheck, S!frameVars
<1>3. SweepTypes'
  BY <1>2, FramesStay DEF SweepInv, SweepTypes
<1>4. pp.c_i <= Len(pp.candidates) /\ pp.pc \in Evicting
  BY <1>2 DEF SweepInv, SweepThread, Evicting
<1>5. EvictingStep(q) /\ VictimKept'
  <2>1. CASE q = S!Skip(pp)
    <3>1. EvictingStep(q) /\ q.pc = "candidate"
      BY <2>1, EvictingSkips
    <3> QED
      BY <1>1, <3>1, NoVictim
  <2>2. CASE S!Used(S!Victim) /\ q = [pp EXCEPT !.pc = "upgrade"]
    <3>1. EvictingStep(q) /\ q.pc = "upgrade" /\ q.c_i = pp.c_i /\ q.candidates = pp.candidates
      BY <1>4, <2>2, EvictingGoes
    <3>2. VictimKept'
      BY <1>1, <1>2, <2>2, <3>1 DEF VictimKept, S!Used, S!Victim
    <3> QED
      BY <3>1, <3>2
  <2> QED
    BY <1>2, <2>1, <2>2
<1> QED
  BY <1>1, <1>2, <1>3, <1>4, <1>5, EvictingKeeps

(* The latch is taken when its version is the one of before. *)
LEMMA UpgradeKeeps ==
  ASSUME SweepInv, S!Upgrade
  PROVE  SweepInv'
<1>1. PICK q : q = pp'
  OBVIOUS
<1>2. /\ pp.pc = "upgrade" /\ UNCHANGED <<state, epoch, moved, next, globalEpoch, visited, rewired>>
      /\ \/ q = S!Skip(pp) /\ latched' = latched
         \/ /\ ~ moved[S!Victim] /\ q = [pp EXCEPT !.pc = "evict"]
            /\ latched' = [latched EXCEPT ![S!Victim] = TRUE]
  BY <1>1 DEF S!Upgrade
<1>3. SweepTypes'
  <2>1. latched' \in [S!Frames -> BOOLEAN]
    BY <1>2 DEF SweepInv, SweepTypes
  <2> QED
    BY <1>2, <2>1 DEF SweepInv, SweepTypes, S!Frames, S!NoFrame
<1>4. pp.c_i <= Len(pp.candidates) /\ pp.pc \in Evicting
  BY <1>2 DEF SweepInv, SweepThread, Evicting
<1>5. EvictingStep(q) /\ VictimKept'
  <2>1. CASE q = S!Skip(pp)
    <3>1. EvictingStep(q) /\ q.pc = "candidate"
      BY <2>1, EvictingSkips
    <3> QED
      BY <1>1, <3>1, NoVictim
  <2>2. CASE ~ moved[S!Victim] /\ q = [pp EXCEPT !.pc = "evict"]
    <3>1. EvictingStep(q) /\ q.pc = "evict" /\ q.c_i = pp.c_i /\ q.candidates = pp.candidates
      BY <1>4, <2>2, EvictingGoes
    <3>2. S!Used(S!Victim)
      BY <1>2, <2>2 DEF SweepInv, VictimKept
    <3>3. VictimKept'
      BY <1>1, <1>2, <3>1, <3>2 DEF VictimKept, S!Used, S!Victim
    <3> QED
      BY <3>1, <3>3
  <2> QED
    BY <1>2, <2>1, <2>2
<1> QED
  BY <1>1, <1>2, <1>3, <1>4, <1>5, EvictingKeeps

(* The latch is given back. *)
LEMMA UnlatchTypes ==
  ASSUME SweepInv, NEW f \in S!Frames, S!Unlatch(f)
  PROVE  moved' \in [S!Frames -> BOOLEAN]
<1>1. moved' = [moved EXCEPT ![f] = pp.pc \in {"recheck", "upgrade"}]
  BY DEF S!Unlatch
<1> QED
  BY <1>1 DEF SweepInv, SweepTypes

(* A page of another node goes into the request, or the request is full. *)
LEMMA EvictRemoteKeeps ==
  ASSUME SweepInv, S!EvictRemotePage
  PROVE  SweepInv'
<1>1. PICK q : q = pp'
  OBVIOUS
<1>2. /\ pp.pc = "evict" /\ UNCHANGED <<state, epoch, next, globalEpoch, visited, rewired>>
      /\ \/ q = [pp EXCEPT !.pc = "nextlevel"] /\ S!Unlatch(S!Victim)
         \/ q = S!Skip(pp) /\ UNCHANGED <<latched, moved>>
  BY <1>1 DEF S!EvictRemotePage
<1>3. S!Victim \in S!Frames
  BY <1>2, VictimIsAFrame DEF SweepInv, SweepThread
<1>7. SweepTypes'
  <2>1. latched' \in [S!Frames -> BOOLEAN]
    BY <1>2 DEF SweepInv, SweepTypes, S!Unlatch
  <2>2. moved' \in [S!Frames -> BOOLEAN]
    BY <1>2, <1>3, UnlatchTypes DEF SweepInv, SweepTypes
  <2> QED
    BY <1>2, <2>1, <2>2 DEF SweepInv, SweepTypes, S!Frames, S!NoFrame
<1>4. pp.pc \in Evicting
  BY <1>2 DEF Evicting
<1>5. EvictingStep(q) /\ q.pc \in {"nextlevel", "candidate"}
  <2>1. CASE q = [pp EXCEPT !.pc = "nextlevel"]
    BY <2>1, EvictingGoes
  <2>2. CASE q = S!Skip(pp)
    BY <2>2, EvictingSkips
  <2> QED
    BY <1>2, <2>1, <2>2
<1>6. VictimKept'
  BY <1>1, <1>5, NoVictim
<1> QED
  BY <1>1, <1>2, <1>4, <1>5, <1>6, <1>7, EvictingKeeps

(* A page of this node leaves, or stays because it is dirty and the write buffer is full. *)
LEMMA EvictOwnerKeeps ==
  ASSUME SweepInv, NEW o \in {"removed", "evicted", "kept", "full"}, S!EvictOwnerPage(o)
  PROVE  SweepInv'
<1>1. PICK q, f : q = pp' /\ f = S!Victim
  OBVIOUS
<1>2. /\ pp.pc = "evict" /\ UNCHANGED <<epoch, globalEpoch, visited>> /\ S!Unlatch(f)
      /\ state' = [state EXCEPT ![f] = CASE o = "removed" -> "FREE" [] o = "evicted" -> "EVICTED" [] OTHER -> @]
      /\ (S!Unlink(f) /\ rewired' = TRUE) \/ UNCHANGED <<next, rewired>>
      /\ q = [pp EXCEPT !.pc = "nextlevel"] \/ q = S!Skip(pp)
  BY <1>1 DEF S!EvictOwnerPage
<1>3. f \in S!Frames /\ pp.pc \in Evicting
  BY <1>1, <1>2, VictimIsAFrame DEF SweepInv, SweepThread, Evicting
<1>4. SweepTypes'
  <2>1. latched' \in [S!Frames -> BOOLEAN]
    BY <1>2 DEF SweepInv, SweepTypes, S!Unlatch
  <2>2. moved' \in [S!Frames -> BOOLEAN]
    BY <1>2, <1>3, UnlatchTypes DEF SweepInv, SweepTypes
  <2>3. state' \in [S!Frames -> {"FREE", "HOT", "EVICTED", "IO_RDMA"}]
    <3>1. PICK x : x = (CASE o = "removed" -> "FREE" [] o = "evicted" -> "EVICTED" [] OTHER -> state[f])
      OBVIOUS
    <3>2. state' = [state EXCEPT ![f] = x]
      BY <1>2, <3>1
    <3>3. x \in {"FREE", "HOT", "EVICTED", "IO_RDMA"}
      BY <1>3, <3>1 DEF SweepInv, SweepTypes
    <3> QED
      BY <3>2, <3>3 DEF SweepInv, SweepTypes
  <2>4. next' \in [S!Frames -> S!Frames \cup {S!NoFrame}]
    BY <1>2, <1>3, UnlinkTypes DEF SweepInv, SweepTypes
  <2> QED
    BY <1>2, <2>1, <2>2, <2>3, <2>4 DEF SweepInv, SweepTypes, S!Frames, S!NoFrame
<1>5. EvictingStep(q) /\ q.pc \in {"nextlevel", "candidate"}
  <2>1. CASE q = [pp EXCEPT !.pc = "nextlevel"]
    BY <2>1, EvictingGoes
  <2>2. CASE q = S!Skip(pp)
    BY <2>2, EvictingSkips
  <2> QED
    BY <1>2, <2>1, <2>2
<1>6. VictimKept'
  BY <1>1, <1>5, NoVictim
<1> QED
  BY <1>1, <1>2, <1>3, <1>4, <1>5, <1>6, EvictingKeeps

(* Every step keeps it. *)
LEMMA SweepStep == SweepInv /\ [S!Next]_sweepVars => SweepInv'
<1> SUFFICES ASSUME SweepInv, [S!Next]_sweepVars PROVE SweepInv'
  OBVIOUS
<1>1. CASE UNCHANGED sweepVars
  <2>1. UNCHANGED <<state, epoch, latched, moved, next, globalEpoch, pp, visited, rewired>>
    BY <1>1 DEF sweepVars
  <2>2. SweepTypes' /\ VictimKept'
    BY <2>1, FramesStay DEF SweepInv, SweepTypes, VictimKept, S!Used, S!Victim
  <2> QED
    BY <2>1, <2>2, WorkersKeep
<1>2. CASE S!Provider
  <2>1. CASE \E i \in BOOLEAN : S!Round(i)
    BY <2>1, RoundKeeps
  <2>2. CASE S!Sample \/ S!VisitSample \/ S!VisitCandidate \/ S!Remember
    BY <2>2, SampleKeeps, VisitSampleKeeps, VisitCandidateKeeps, RememberKeeps
  <2>3. CASE S!Follow \/ S!EndLevel \/ S!NextLevel
    BY <2>3, FollowKeeps, EndLevelKeeps, NextLevelKeeps
  <2>4. CASE S!OptimisticLatch \/ S!Recheck \/ S!Upgrade \/ S!EvictRemotePage
    BY <2>4, OptimisticLatchKeeps, RecheckKeeps, UpgradeKeeps, EvictRemoteKeeps
  <2>5. CASE \E o \in {"removed", "evicted", "kept", "full"} : S!EvictOwnerPage(o)
    BY <2>5, EvictOwnerKeeps
  <2> QED
    BY <1>2, <2>1, <2>2, <2>3, <2>4, <2>5 DEF S!Provider
<1>3. CASE S!Workers
  <2>1. CASE \E f \in S!Frames : S!Touch(f) \/ S!LatchFrame(f)
    BY <2>1, TouchKeeps
  <2>2. CASE \E f \in S!Frames : S!RemoveFrame(f)
    BY <2>2, RemoveKeeps
  <2>3. CASE \E f \in S!Frames, to \in {"HOT", "IO_RDMA"} : S!UnlatchFrame(f, to)
    BY <2>3, UnlatchKeeps
  <2>4. CASE \E b \in S!Heads, f \in S!Frames : S!InsertFrame(b, f)
    BY <2>4, InsertKeeps
  <2> QED
    BY <1>3, <2>1, <2>2, <2>3, <2>4 DEF S!Workers
<1>4. CASE \E f \in S!Frames, a \in BOOLEAN : S!Answered(f, a)
  BY <1>4, AnsweredKeeps
<1> QED
  BY <1>1, <1>2, <1>3, <1>4 DEF S!Next

(* At the end of a sweep nothing is in sight that was not looked at. *)
LEMMA SweepDelivers ==
  ASSUME SweepInv, [S!Next]_sweepVars, pp.pc = "nextlevel", pp'.pc = "round", ~ rewired,
         NEW b \in pp.begin..(pp.end - 1)
  PROVE  S!Chain(b) \subseteq visited
<1>1. /\ SweepThread(pp) /\ pp.b_i = Len(pp.batch) + 1 /\ pp.write_idx \in Nat /\ pp.batch \in Seq(S!Frames)
      /\ pp.pc \notin Reading
  BY DEF SweepInv, SweepThread, Evicting, Reading
<1>2. S!NextLevel
  <2>1. pp' # pp
    OBVIOUS
  <2>2. S!Provider
    BY <2>1 DEF sweepVars, S!Next, S!Workers, S!Touch, S!LatchFrame, S!RemoveFrame, S!UnlatchFrame, S!InsertFrame,
                S!Change, S!Answered
  <2> QED
    BY <2>2 DEF S!Provider, S!Round, S!Sample, S!VisitSample, S!VisitCandidate, S!AtFrame, S!Remember, S!Follow,
                S!EndLevel, S!OptimisticLatch, S!Recheck, S!Upgrade, S!EvictRemotePage, S!EvictOwnerPage
<1>3. ~ (pp.write_idx > 0) /\ ~ pp.sampling
  <2>1. pp \in ProviderFields(pp)
    BY <1>1 DEF SweepThread
  <2>2. ~ (pp.write_idx > 0)
    <3>1. SUFFICES ASSUME pp.write_idx > 0 PROVE pp'.pc = "visit"
      OBVIOUS
    <3> QED
      BY <1>2, <2>1, <3>1 DEF S!NextLevel, ProviderFields
  <2>3. ~ pp.sampling
    <3>1. SUFFICES ASSUME pp.sampling PROVE pp'.pc = "sample"
      OBVIOUS
    <3> QED
      BY <1>2, <2>1, <2>2, <3>1 DEF S!NextLevel, ProviderFields
  <2> QED
    BY <2>2, <2>3
<1>4. Swept(pp, visited, next)
  BY <1>3 DEF SweepInv, SweepKept
<1>5. \A f : InSight(f, pp, visited) => f \in visited
  <2>1. pp.write_idx = 0 /\ Len(pp.batch) \in Nat
    BY <1>1, <1>3
  <2>2. 1..pp.write_idx = {} /\ pp.b_i..Len(pp.batch) = {}
    BY <1>1, <2>1
  <2> QED
    BY <2>2 DEF InSight
<1>6. b \in visited /\ \A f \in visited : next[f] = S!NoFrame \/ next[f] \in visited
  BY <1>1, <1>4, <1>5 DEF Swept
<1>7. \A f \in S!Frames : f # S!NoFrame
  BY SweepAssumption DEF S!Frames, S!NoFrame
<1> QED
  BY <1>6, <1>7 DEF S!Chain

(***************************************************************************)
(* A sweep is complete unless a chain was changed while it went on, and    *)
(* the frame that is evicted behind it is in use, for every number of      *)
(* buckets and overflow frames, every size of the batches and whatever     *)
(* workers latch, touch, insert and remove meanwhile                       *)
(* (PageProvider::startThread, phases 2 and 3).                            *)
(***************************************************************************)
THEOREM SweepsAreComplete == Spec => SweepIsComplete
<1>1. Init => SweepInv
  BY SweepInit DEF Init
<1>2. SweepInv /\ [Next]_vars => SweepInv'
  BY MessagingParts, SweepStep
<1>3. SweepInv => (part = "sweep" => S!VictimIsUsed)
  BY DEF SweepInv, VictimKept, S!VictimIsUsed
<1>4. SweepInv /\ [Next]_vars
        => [pp.pc = "nextlevel" /\ pp'.pc = "round" /\ ~rewired
              => \A b \in pp.begin .. pp.end - 1 : S!Chain(b) \subseteq visited]_S!vars
  BY MessagingParts, SweepDelivers
<1> QED
  BY <1>1, <1>2, <1>3, <1>4, PTL DEF Spec, SweepIsComplete, S!SweepIsComplete
=============================================================================
