---------------------------- MODULE EvictionBatch ----------------------------
(***************************************************************************)
(* The exchange of eviction batches between the page provider of a node    *)
(* and the one of the owner of its pages: frames are latched and collected *)
(* in a batch (phase 3), the batch is sent (4), the owner takes over some  *)
(* of the pages (1), answers with their pids (6), and the node removes the *)
(* frames named by the answer and unlatches the others (5).                *)
(*                                                                         *)
(* Messages are written into memory of the other side, whole structs with  *)
(* whatever the entries behind elements hold.  What makes the owner refuse *)
(* a page (a latch, another version, a copy request) is in Coherence.      *)
(***************************************************************************)
EXTENDS Integers, Sequences, SequencesExt, FiniteSets

CONSTANTS
  Page,
  BatchSize,       \* batchSize
  MinOutgoing,     \* minOutgoingElements
  FailLimit,       \* rounds after which a small batch is sent, 100 in the code
  MaxFetches,      \* bound: pages that come back to the node
  None

VARIABLES
  frame,       \* [Page -> "held", "latched" or "absent"] on the node
  dir,         \* pages of which the owner records the node as possessor
  outgoing,    \* pids of outgoing.current
  failed,      \* its failedSend
  inflight,    \* inflightFrames.current
  prev,        \* inflightFrames.prev
  expected,    \* responseExpected
  request,     \* the owner's incoming entry and mailbox
  reading,     \* responseOutstanding on the owner: the pages that are being read
  slots,       \* outgoingResp.current and .prev of the owner
  response,    \* respIncoming of the node with its mailbox
  fetches,
  aborted      \* an ensure has failed

vars == <<frame, dir, outgoing, failed, inflight, prev, expected, request, reading, slots, response, fetches, aborted>>

NoMessage == [flag |-> 0, body |-> None]
EmptySlot == [pids |-> [i \in 1..BatchSize |-> None], elements |-> 0]

Init ==
  /\ frame = [p \in Page |-> "held"] /\ dir = Page
  /\ outgoing = <<>> /\ failed = 0 /\ inflight = <<>> /\ prev = <<>>
  /\ expected = FALSE /\ request = NoMessage /\ reading = None
  /\ slots = [current |-> EmptySlot, prev |-> EmptySlot]
  /\ response = NoMessage /\ fetches = 0 /\ aborted = FALSE

nodeVars == <<outgoing, failed, inflight, prev, expected>>
ownerVars == <<request, reading, slots>>

-----------------------------------------------------------------------------
(* The node *)

\* a worker fixes the page again
Fetch(p) ==
  /\ frame[p] = "absent" /\ p \notin dir /\ fetches < MaxFetches
  /\ frame' = [frame EXCEPT ![p] = "held"] /\ dir' = dir \cup {p} /\ fetches' = fetches + 1
  /\ UNCHANGED <<nodeVars, ownerVars, response, aborted>>

\* phase 3: a victim is latched and added; a full batch leaves it alone
Choose(p) ==
  /\ frame[p] = "held" /\ Len(outgoing) < BatchSize
  /\ frame' = [frame EXCEPT ![p] = "latched"]
  /\ outgoing' = Append(outgoing, p)
  /\ inflight' = Append(inflight, p)
  /\ UNCHANGED <<dir, failed, prev, expected, ownerVars, response, fetches, aborted>>

\* phase 4
MaySend == Len(outgoing) > MinOutgoing \/ (failed > FailLimit /\ Len(outgoing) > 0)

\* writeRequest; outgoing and inflightFrames are swapped, the new outgoing.current is reset
SendRequest ==
  /\ ~ expected /\ MaySend
  /\ request' = [flag |-> 1, body |-> outgoing]
  /\ expected' = TRUE
  /\ outgoing' = <<>> /\ failed' = 0
  /\ inflight' = prev /\ prev' = inflight
  /\ UNCHANGED <<frame, dir, reading, slots, response, fetches, aborted>>

\* Mutant: failed attempts are not counted
SkipRequestUncounted == FALSE /\ UNCHANGED vars

SkipRequest ==
  /\ ~ expected /\ ~ MaySend /\ failed <= FailLimit
  /\ failed' = failed + 1
  /\ UNCHANGED <<frame, dir, outgoing, inflight, prev, expected, ownerVars, response, fetches, aborted>>

\* phase 5 with r[i] for r_i behind the i-th frame: each is compared with the pid that comes next
Named(body, r, i) == r[i - 1] <= BatchSize /\ prev[i] = body.pids[r[i - 1]]
Collect(body, r) ==
  /\ r[0] = 1
  /\ \A i \in 1..Len(prev) : r[i] = IF Named(body, r, i) THEN r[i - 1] + 1 ELSE r[i - 1]

\* frames named by the response are removed, in the order of the batch, the others unlatched
CollectResponse ==
  /\ response.flag = 1
  /\ \E r \in [0..Len(prev) -> 1..(BatchSize + 1)] :
       LET body == response.body
           named == {i \in 1..Len(prev) : body.elements > 0 /\ Named(body, r, i)}
       IN /\ Collect(body, r)
          /\ frame' = [p \in Page |-> IF \E i \in named : prev[i] = p THEN "absent"
                                      ELSE IF p \in ToSet(prev) THEN "held" ELSE frame[p]]
          /\ aborted' = ~ \A i \in named : r[i - 1] - 1 <= body.elements
  /\ prev' = <<>> /\ expected' = FALSE
  /\ response' = [response EXCEPT !.flag = 0]
  /\ UNCHANGED <<dir, outgoing, failed, inflight, ownerVars, fetches>>

-----------------------------------------------------------------------------
(* The owner *)

Added(slot, pids) ==
  [elements |-> slot.elements + Len(pids),
   pids |-> [i \in 1..BatchSize |-> IF i > slot.elements /\ i <= slot.elements + Len(pids)
                                    THEN pids[i - slot.elements] ELSE slot.pids[i]]]

\* choices of n entries of the request, in their order
Qualify(n) == {at \in [1..n -> 1..Len(request.body)] : \A i, j \in 1..n : i < j => at[i] < at[j]}

\* phase 1: the pages that qualify are taken over and some of them are read from the node
TakeOver ==
  /\ request.flag = 1 /\ reading = None
  /\ \E n \in 0..Len(request.body) : \E at \in Qualify(n) :
       LET pids == [i \in 1..n |-> request.body[at[i]]] IN \E read \in SUBSET ToSet(pids) :
       /\ slots' = [slots EXCEPT !.current = Added(@, pids)]
       /\ dir' = dir \ ToSet(pids)
       /\ reading' = read
  /\ request' = [request EXCEPT !.flag = 0]
  /\ UNCHANGED <<frame, nodeVars, response, fetches, aborted>>

\* Mutant: the slot that is written next keeps its elements
RespondUnreset ==
  /\ reading # None
  /\ response' = [flag |-> 1, body |-> slots.current]
  /\ reading' = None
  /\ slots' = [current |-> slots.prev, prev |-> slots.current]
  /\ UNCHANGED <<frame, dir, nodeVars, request, fetches, aborted>>

\* phase 6: behind the completion of the reads; only elements is reset
Respond ==
  /\ reading # None
  /\ response' = [flag |-> 1, body |-> slots.current]
  /\ reading' = None
  /\ slots' = [current |-> [slots.prev EXCEPT !.elements = 0], prev |-> slots.current]
  /\ UNCHANGED <<frame, dir, nodeVars, request, fetches, aborted>>

Node == SendRequest \/ SkipRequest \/ CollectResponse
Owner == TakeOver \/ Respond
Next == /\ ~ aborted
        /\ Node \/ Owner \/ \E p \in Page : Fetch(p) \/ Choose(p)

Spec == Init /\ [][Next]_vars

-----------------------------------------------------------------------------
(* Properties *)

\* Frames in a batch are latched, and a frame is in one batch.
BatchIsLatched ==
  /\ \A p \in ToSet(inflight) \cup ToSet(prev) : frame[p] = "latched"
  /\ Len(inflight) + Len(prev) = Cardinality({p \in Page : frame[p] = "latched"})
  /\ outgoing = inflight

\* What the owner has taken over is removed from the node when the answer has been collected: no node
\* keeps a page of which the owner no longer knows.
NoOrphanFrame == ~ expected => \A p \in Page : p \notin dir => frame[p] = "absent"

\* A page the owner has not taken over stays on the node: the owner counts on this copy, which may be the
\* only one.
NoLostPage == ~ expected /\ ~ aborted => \A p \in dir : frame[p] # "absent"

\* A victim does not stay latched for ever, however small its batch is.
VictimIsReleased == \A p \in Page : []<>(frame[p] # "latched" \/ aborted)
=============================================================================
