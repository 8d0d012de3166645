-------------------------- MODULE CoherenceSafety --------------------------
(***************************************************************************)
(* The safety of the possession protocol, for every set of nodes and       *)
(* workers.  First come the types: the record types stay opaque wherever a *)
(* step only replaces whole records; the lemmas about the protocol's       *)
(* helpers open them once.                                                 *)
(*                                                                         *)
(* What a node may do with the page is spread over its frame, the mailbox  *)
(* of the worker that has the frame latched, and the progress of that      *)
(* worker and of the page providers.  View(n) puts these together to the   *)
(* copy of module Epochs: none, being moved here, being copied here, or    *)
(* present; of which epoch (pVersion), in which mode, and which nodes must *)
(* still give theirs up.  DirView does the same for the owner's frame.     *)
(* Under these views the protocol takes steps of Epochs, whose invariant   *)
(* EpochInv says when two nodes can use the page at once.                  *)
(*                                                                         *)
(* The inductive invariant SafetyInv has four parts: TypeOK; Control, what *)
(* latches, mailboxes, frames and evictions have to do with each other;    *)
(* PagesAreFresh; and EpochInv of the views.  Each action A has a lemma    *)
(* ASafe, with one step per conjunct of Control and one for the step of    *)
(* the epochs; in it <1>g names the action's guard and what it leaves      *)
(* alone, <1>v the new values, and <1>e that the page exists.              *)
(***************************************************************************)
EXTENDS Coherence, TLAPS

USE NodeAssumption, BoundAssumption

-----------------------------------------------------------------------------
(* Messages *)

(* An answered mailbox holds a response. *)
LEMMA AnsweredType ==
    ASSUME TypeOK, NEW w \in Worker, NEW n \in Node, Answered(w, n)
    PROVE  /\ mail[w][n] \in Response
           /\ mail[w][n].conflict \subseteq Node
           /\ mail[w][n].pVersion \in Nat
<1> DEFINE m == mail[w][n]
<1>1. m \in Message
  BY DEF TypeOK
<1>2. m # Nothing /\ m.type = "RESPONSE"
  BY DEF Answered
<1> HIDE DEF m
<1>3. m \notin Request
  BY <1>2 DEF Request
<1>4. m \in Response
  BY <1>1, <1>2, <1>3 DEF Message
<1>5. m.conflict \subseteq Node /\ m.pVersion \in Nat
  BY <1>4 DEF Response
<1> QED
  BY <1>4, <1>5 DEF m

(* What the handlers and the workers write into the mailboxes are messages. *)
LEMMA ReplyType ==
    ASSUME NEW result \in RESULT, NEW conflict \in SUBSET Node, NEW v \in Nat
    PROVE  Reply(result, conflict, v) \in Message
BY DEF Reply, Response, Message

LEMMA RequestType ==
    /\ \A t \in {"PRX", "PRS", "RAR"} : [type |-> t] \in Message
    /\ \A b \in BOOLEAN : [type |-> "PMR", needPage |-> b] \in Message
    /\ \A v, r \in Nat : [type |-> "PCR", pVersion |-> v, retries |-> r] \in Message
    /\ \A v \in Nat : [type |-> "PUR", pVersion |-> v] \in Message
    /\ Nothing \in Message
BY DEF Request, Message

LEMMA AskType ==
    ASSUME TypeOK, NEW w \in Worker, NEW n \in Node, NEW m \in Message,
           AskOne(w, n, m)
    PROVE  mail' \in [Worker -> [Node -> Message]]
BY DEF TypeOK, AskOne

-----------------------------------------------------------------------------
(* Latches and pages *)

LEMMA LatchType ==
    ASSUME TypeOK, NEW n \in Node,
           NEW h \in Worker \cup {MessageHandler, PageProvider, NoOne},
           LatchExclusive(n, h)
    PROVE  latch' \in [Node -> Latch] /\ downgrading' \subseteq Worker
<1>1. [latch[n] EXCEPT !.x = h] \in Latch
  BY DEF TypeOK, Latch
<1> QED
  BY <1>1 DEF TypeOK, LatchExclusive

LEMMA UnlatchType ==
    ASSUME TypeOK, NEW n \in Node, UnlatchExclusive(n)
    PROVE  latch' \in [Node -> Latch]
<1>1. [latch[n] EXCEPT !.x = NoOne] \in Latch
  BY DEF TypeOK, Latch
<1> QED
  BY <1>1 DEF TypeOK, UnlatchExclusive

LEMMA BriefType ==
    ASSUME TypeOK, NEW n \in Node, LatchBriefly(n)
    PROVE  latch' \in [Node -> Latch] /\ downgrading' \subseteq Worker
BY DEF TypeOK, LatchBriefly

LEMMA CopyPageType ==
    ASSUME TypeOK, NEW src \in Node, NEW dst \in Node, CopyPage(src, dst)
    PROVE  fresh' \subseteq Node
BY DEF TypeOK, CopyPage

(* A frame after the assignments of an action *)
LEMMA FrameType ==
    ASSUME TypeOK, NEW n \in Node
    PROVE  /\ frame[n] \in Frame
           /\ frame[n].state \in BF_STATE
           /\ frame[n].possession \in POSSESSION
           /\ frame[n].possessors \subseteq Node
           /\ frame[n].pVersion \in Nat /\ frame[n].pVersion + 1 \in Nat
           /\ frame[n].mhWaiting \in BOOLEAN
<1>1. frame[n] \in Frame
  BY DEF TypeOK
<1> DEFINE f == frame[n]
<1> HIDE DEF f
<1>2. f \in Frame => /\ f.state \in BF_STATE /\ f.possession \in POSSESSION
                     /\ f.possessors \subseteq Node
                     /\ f.pVersion \in Nat /\ f.pVersion + 1 \in Nat
                     /\ f.mhWaiting \in BOOLEAN
  BY DEF Frame
<1> QED
  BY <1>1, <1>2 DEF f

LEMMA NewFrameType ==
    ASSUME NEW s \in BF_STATE, NEW p \in POSSESSION, NEW q \in SUBSET Node
    PROVE  /\ EmptyFrame \in Frame
           /\ [EmptyFrame EXCEPT !.state = s, !.possession = p,
                                 !.possessors = q] \in Frame
BY DEF EmptyFrame, Frame, BF_STATE, POSSESSION

-----------------------------------------------------------------------------
(* Workers *)

(* A worker's record after the assignments of an action *)
LEMMA WorkerType ==
    ASSUME TypeOK, NEW w \in Worker
    PROVE  /\ NodeOf[w] \in Node
           /\ worker[w] \in WorkerState
           /\ worker[w].mode \in MODE
           /\ worker[w].peers \subseteq Node
           /\ worker[w].pVersionOld \in Nat
           /\ \A pc \in PC : [worker[w] EXCEPT !.pc = pc] \in WorkerState
           /\ \A pc \in PC, m \in MODE :
                 [worker[w] EXCEPT !.pc = pc, !.mode = m] \in WorkerState
           /\ \A pc \in PC, q \in SUBSET Node :
                 [worker[w] EXCEPT !.pc = pc, !.peers = q] \in WorkerState
           /\ \A pc \in PC, v \in Nat :
                 [worker[w] EXCEPT !.pc = pc, !.pVersionOld = v] \in WorkerState
           /\ \A pc \in PC, q \in SUBSET Node, v \in Nat :
                 [worker[w] EXCEPT !.pc = pc, !.peers = q, !.pVersionOld = v]
                    \in WorkerState
<1>1. worker[w] \in WorkerState
  BY DEF TypeOK
<1> DEFINE r == worker[w]
<1> HIDE DEF r
<1>2. r \in WorkerState =>
         /\ r.mode \in MODE /\ r.peers \subseteq Node /\ r.pVersionOld \in Nat
         /\ \A pc \in PC : [r EXCEPT !.pc = pc] \in WorkerState
         /\ \A pc \in PC, m \in MODE :
               [r EXCEPT !.pc = pc, !.mode = m] \in WorkerState
         /\ \A pc \in PC, q \in SUBSET Node :
               [r EXCEPT !.pc = pc, !.peers = q] \in WorkerState
         /\ \A pc \in PC, v \in Nat :
               [r EXCEPT !.pc = pc, !.pVersionOld = v] \in WorkerState
         /\ \A pc \in PC, q \in SUBSET Node, v \in Nat :
               [r EXCEPT !.pc = pc, !.peers = q, !.pVersionOld = v]
                  \in WorkerState
  BY DEF WorkerState
<1> QED
  BY <1>1, <1>2 DEF r

LEMMA MoveType ==
    ASSUME TypeOK, NEW w \in Worker, NEW peers \in SUBSET Node,
           MovePageRnd(w, peers)
    PROVE  /\ mail' \in [Worker -> [Node -> Message]]
           /\ worker' \in [Worker -> WorkerState]
<1>1. PICK src \in peers :
         /\ AskOne(w, src, [type |-> "PMR", needPage |-> TRUE])
         /\ worker' = [worker EXCEPT ![w].pc = "move", ![w].peers = peers \ {src}]
  BY DEF MovePageRnd
<1>2. [worker[w] EXCEPT !.pc = "move", !.peers = peers \ {src}] \in WorkerState
  BY WorkerType DEF PC
<1>3. mail' \in [Worker -> [Node -> Message]]
  BY <1>1, RequestType, AskType
<1> QED
  BY <1>1, <1>2, <1>3 DEF TypeOK

LEMMA InvalidateType ==
    ASSUME TypeOK, NEW w \in Worker, NEW peers \in SUBSET Node,
           InvalidateSharedConflicts(w, peers)
    PROVE  /\ mail' \in [Worker -> [Node -> Message]]
           /\ worker' \in [Worker -> WorkerState]
<1>1. [worker[w] EXCEPT !.pc = "invalidate", !.peers = peers] \in WorkerState
  BY WorkerType DEF PC
<1>2. Invalidating(w, peers) \in [Node -> Message]
  BY RequestType DEF Invalidating
<1> QED
  BY <1>1, <1>2 DEF TypeOK, InvalidateSharedConflicts

LEMMA CopyType ==
    ASSUME TypeOK, NEW w \in Worker, NEW peers \in SUBSET Node, NEW v \in Nat,
           CopyPageRnd(w, peers, v)
    PROVE  /\ mail' \in [Worker -> [Node -> Message]]
           /\ worker' \in [Worker -> WorkerState]
<1> DEFINE box(src) == [n \in Node |-> IF n = src
                          THEN [type |-> "PCR", pVersion |-> v, retries |-> 0]
                          ELSE Nothing]
<1>1. PICK src \in peers :
         /\ mail' = [mail EXCEPT ![w] = box(src)]
         /\ worker' = [worker EXCEPT ![w].pc = "copy", ![w].peers = peers]
  BY DEF CopyPageRnd
<1>2. [worker[w] EXCEPT !.pc = "copy", !.peers = peers] \in WorkerState
  BY WorkerType DEF PC
<1>3. box(src) \in [Node -> Message]
  BY RequestType
<1> HIDE DEF box
<1> QED
  BY <1>1, <1>2, <1>3 DEF TypeOK

LEMMA PossessType ==
    ASSUME TypeOK, NEW w \in Worker, NEW v \in Nat, Possess(w, v)
    PROVE  /\ frame' \in [Node -> Frame]
           /\ latch' \in [Node -> Latch]
           /\ worker' \in [Worker -> WorkerState]
           /\ downgrading' \subseteq Worker
<1> DEFINE n == NodeOf[w]
           q == IF frame[n].possession = "SHARED" /\ worker[w].mode = "SHARED"
                THEN frame[n].possessors \cup {n} ELSE {n}
<1>1. frame' \in [Node -> Frame]
  <2>1. n \in Node /\ frame[n] \in Frame /\ q \in SUBSET Node
        /\ worker[w].mode \in POSSESSION
    BY FrameType, WorkerType DEF MODE, POSSESSION
  <2>2. frame' = [frame EXCEPT ![n] =
                    [frame[n] EXCEPT !.possession = worker[w].mode,
                       !.possessors = q, !.pVersion = v, !.state = "HOT"]]
    BY DEF Possess
  <2> HIDE DEF q, n
  <2>3. [frame[n] EXCEPT !.possession = worker[w].mode, !.possessors = q,
                         !.pVersion = v, !.state = "HOT"] \in Frame
    BY <2>1 DEF Frame, BF_STATE
  <2> QED
    BY <2>1, <2>2, <2>3 DEF TypeOK
<1>2. worker' \in [Worker -> WorkerState]
  <2>1. \A pc \in {"use", "downgrade"} :
          [worker[w] EXCEPT !.pc = pc, !.peers = {}, !.pVersionOld = 0]
             \in WorkerState
    BY WorkerType DEF PC
  <2> QED
    BY <2>1 DEF Possess, TypeOK
<1>3. latch' \in [Node -> Latch] /\ downgrading' \subseteq Worker
  BY UnlatchType, WorkerType DEF Possess, TypeOK
<1> QED
  BY <1>1, <1>2, <1>3

-----------------------------------------------------------------------------
(* The steps of the workers keep the types: calls and the hot path, ... *)
LEMMA CallTypes ==
    ASSUME TypeOK, NEW w \in Worker,
           \/ Begin(w) \/ NewPage(w) \/ NewRemotePage(w) \/ CollectAllocation(w)
           \/ FixHit(w) \/ FixInsert(w) \/ Downgrade(w) \/ Release(w)
    PROVE  TypeOK'
<1> DEFINE n == NodeOf[w]
           NewFrame(k) == [EmptyFrame EXCEPT !.state = "HOT",
                              !.possession = "EXCLUSIVE", !.possessors = {k}]
<1>1. n \in Node /\ \A k \in Node : NewFrame(k) \in Frame
  BY NewFrameType DEF BF_STATE, POSSESSION
<1>2. \A pc \in PC : [worker[w] EXCEPT !.pc = pc] \in WorkerState
  BY WorkerType
<1>3. \A pc \in PC, m \in MODE :
         [worker[w] EXCEPT !.pc = pc, !.mode = m] \in WorkerState
  BY WorkerType
<1>4. \A q \in SUBSET Worker : [latch[n] EXCEPT !.s = q] \in Latch
  BY <1>1 DEF TypeOK, Latch
<1>5. latch[n].s \subseteq Worker
  BY <1>1 DEF TypeOK, Latch
<1>a. CASE Begin(w)
  <2>1. PICK m \in MODE :
           worker' = [worker EXCEPT ![w].pc = "fix", ![w].mode = m]
    BY <1>a DEF Begin
  <2>2. worker' \in [Worker -> WorkerState]
    BY <1>3, <2>1 DEF TypeOK, PC
  <2>3. /\ fixes < MaxFix /\ fixes' = fixes + 1
        /\ UNCHANGED <<frame, latch, mail, inflightCRs, provider, fresh,
                       downgrading, evictions>>
    BY <1>a DEF Begin
  <2> QED
    BY <2>2, <2>3 DEF TypeOK
<1>b. CASE NewPage(w)
  <2>1. worker' \in [Worker -> WorkerState]
    BY <1>b, <1>3 DEF NewPage, TypeOK, PC, MODE
  <2>2. frame' \in [Node -> Frame]
    <3>1. frame' = [frame EXCEPT ![Owner] = NewFrame(Owner)]
      BY <1>b DEF NewPage
    <3> QED
      BY <1>1, <3>1 DEF TypeOK
  <2>3. latch' \in [Node -> Latch] /\ downgrading' \subseteq Worker
    BY <1>b, LatchType DEF NewPage
  <2> QED
    BY <1>b, <2>1, <2>2, <2>3 DEF NewPage, TypeOK
<1>c. CASE NewRemotePage(w)
  <2>1. worker' \in [Worker -> WorkerState]
    BY <1>c, <1>3 DEF NewRemotePage, TypeOK, PC, MODE
  <2>2. mail' \in [Worker -> [Node -> Message]]
    BY <1>c, AskType, RequestType DEF NewRemotePage
  <2> QED
    BY <1>c, <2>1, <2>2 DEF NewRemotePage, TypeOK
<1>d. CASE CollectAllocation(w)
  <2>1. worker' \in [Worker -> WorkerState]
    BY <1>d, <1>2 DEF CollectAllocation, TypeOK, PC
  <2>2. frame' \in [Node -> Frame]
    <3>1. frame' = [frame EXCEPT ![n] = NewFrame(n)]
      BY <1>d DEF CollectAllocation
    <3> QED
      BY <1>1, <3>1 DEF TypeOK
  <2>3. latch' \in [Node -> Latch] /\ downgrading' \subseteq Worker
    BY <1>1, <1>d, LatchType DEF CollectAllocation
  <2>4. mail' \in [Worker -> [Node -> Message]]
    BY <1>d, AskType, RequestType DEF CollectAllocation
  <2>5. fresh' \subseteq Node
    BY <1>1, <1>d DEF CollectAllocation
  <2> QED
    BY <1>d, <2>1, <2>2, <2>3, <2>4, <2>5 DEF CollectAllocation, TypeOK
<1>e. CASE FixHit(w)
  <2>1. worker' \in [Worker -> WorkerState]
    BY <1>e, <1>2 DEF FixHit, TypeOK, PC
  <2>2. latch' \in [Node -> Latch] /\ downgrading' \subseteq Worker
    <3>1. CASE LatchExclusive(n, w)
      BY <1>1, <3>1, LatchType
    <3>2. CASE /\ latch' = [latch EXCEPT ![n].s = @ \cup {w}]
               /\ UNCHANGED downgrading
      BY <1>1, <1>4, <1>5, <3>2 DEF TypeOK
    <3> QED
      BY <1>e, <3>1, <3>2 DEF FixHit
  <2> QED
    BY <1>e, <2>1, <2>2 DEF FixHit, TypeOK
<1>f. CASE FixInsert(w)
  <2>1. worker' \in [Worker -> WorkerState]
    BY <1>f, <1>2 DEF FixInsert, TypeOK, PC
  <2>2. frame' \in [Node -> Frame]
    <3>1. [frame[n] EXCEPT !.state = "IO_RDMA", !.possession = "NOBODY"] \in Frame
      BY <1>1, FrameType DEF Frame, BF_STATE, POSSESSION
    <3> QED
      BY <1>1, <1>f, <3>1 DEF FixInsert, TypeOK
  <2>3. latch' \in [Node -> Latch] /\ downgrading' \subseteq Worker
    BY <1>1, <1>f, LatchType DEF FixInsert
  <2>4. mail' \in [Worker -> [Node -> Message]]
    <3>1. [type |-> IF worker[w].mode = "EXCLUSIVE" THEN "PRX" ELSE "PRS"]
             \in Message
      BY RequestType
    <3> QED
      BY <1>f, <3>1, AskType DEF FixInsert
  <2> QED
    BY <1>f, <2>1, <2>2, <2>3, <2>4 DEF FixInsert, TypeOK
<1>g. CASE Downgrade(w)
  <2>1. worker' \in [Worker -> WorkerState]
    BY <1>g, <1>2 DEF Downgrade, TypeOK, PC
  <2>2. latch' \in [Node -> Latch]
    BY <1>1, <1>4, <1>5, <1>g DEF Downgrade, TypeOK
  <2> QED
    BY <1>g, <2>1, <2>2 DEF Downgrade, TypeOK
<1>h. CASE Release(w)
  <2>1. Resting \in WorkerState
    BY DEF Resting, WorkerState, PC, MODE
  <2>2. worker' \in [Worker -> WorkerState]
    BY <1>h, <2>1 DEF Release, TypeOK
  <2>3. latch' \in [Node -> Latch]
    <3>1. CASE UnlatchExclusive(n)
      BY <1>1, <3>1, UnlatchType
    <3>2. CASE latch' = [latch EXCEPT ![n].s = @ \ {w}]
      BY <1>1, <1>4, <1>5, <3>2 DEF TypeOK
    <3> QED
      BY <1>h, <3>1, <3>2 DEF Release
  <2>4. fresh' \subseteq Node
    BY <1>1, <1>h DEF Release, TypeOK
  <2> QED
    BY <1>h, <2>2, <2>3, <2>4 DEF Release, TypeOK
<1> QED
  BY <1>a, <1>b, <1>c, <1>d, <1>e, <1>f, <1>g, <1>h

(* ... requests for a possession, and ... *)
LEMMA RequestTypes ==
    ASSUME TypeOK, NEW w \in Worker, FixLocalChange(w) \/ FixUpgrade(w)
    PROVE  TypeOK'
<1> DEFINE n == NodeOf[w]
<1>1. n \in Node /\ frame[n] \in Frame /\ frame[Owner] \in Frame
      /\ frame[n].pVersion \in Nat /\ frame[Owner].pVersion \in Nat
      /\ frame[Owner].possessors \subseteq Node
  BY FrameType
<1>a. CASE FixLocalChange(w)
  <2> DEFINE f == frame[Owner]
             others == f.possessors \ {Owner}
  <2>1. \/ /\ frame' = [frame EXCEPT ![Owner].pVersion = @ + 1]
           /\ MovePageRnd(w, f.possessors)
        \/ /\ frame' = [frame EXCEPT ![Owner].pVersion = @ + 1,
                                     ![Owner].possessors = others]
           /\ MovePageRnd(w, others) \/ InvalidateSharedConflicts(w, others)
        \/ /\ CopyPageRnd(w, f.possessors, f.pVersion)
           /\ UNCHANGED frame
    BY <1>a DEF FixLocalChange, Insufficient
  <2>2. /\ mail' \in [Worker -> [Node -> Message]]
        /\ worker' \in [Worker -> WorkerState]
    <3> HIDE DEF f, others
    <3>1. f.possessors \in SUBSET Node /\ others \in SUBSET Node
          /\ f.pVersion \in Nat
      BY <1>1 DEF f, others
    <3> QED
      BY <2>1, <3>1, MoveType, InvalidateType, CopyType
  <2>3. frame' \in [Node -> Frame]
    <3>1. [frame[Owner] EXCEPT !.pVersion = frame[Owner].pVersion + 1] \in Frame
      BY <1>1 DEF Frame
    <3>2. \A v \in Nat, q \in SUBSET Node :
             [frame[Owner] EXCEPT !.pVersion = v, !.possessors = q] \in Frame
      BY <1>1 DEF Frame
    <3>3. frame[Owner].pVersion + 1 \in Nat /\ others \in SUBSET Node
      BY <1>1
    <3> HIDE DEF others
    <3>4. [frame[Owner] EXCEPT !.pVersion = frame[Owner].pVersion + 1,
                               !.possessors = others] \in Frame
      BY <3>2, <3>3
    <3> QED
      BY <2>1, <3>1, <3>4 DEF TypeOK
  <2>4. latch' \in [Node -> Latch] /\ downgrading' \subseteq Worker
    BY <1>a, LatchType DEF FixLocalChange, Insufficient
  <2>5. UNCHANGED <<inflightCRs, provider, fresh, fixes, evictions>>
    BY <1>a DEF FixLocalChange, Insufficient
  <2> QED
    BY <2>2, <2>3, <2>4, <2>5 DEF TypeOK
<1>b. CASE FixUpgrade(w)
  <2>1. frame' \in [Node -> Frame]
    <3>1. [frame[n] EXCEPT !.pVersion = frame[n].pVersion + 1] \in Frame
      BY <1>1 DEF Frame
    <3> QED
      BY <1>1, <1>b, <3>1 DEF FixUpgrade, Insufficient, TypeOK
  <2>2. worker' \in [Worker -> WorkerState]
    <3>1. [worker[w] EXCEPT !.pc = "update", !.pVersionOld = frame[n].pVersion]
             \in WorkerState
      BY <1>1, WorkerType DEF PC
    <3> QED
      BY <1>b, <3>1 DEF FixUpgrade, Insufficient, TypeOK
  <2>3. mail' \in [Worker -> [Node -> Message]]
    <3>1. [type |-> "PUR", pVersion |-> frame[n].pVersion] \in Message
      BY <1>1, RequestType
    <3> QED
      BY <1>b, <3>1, AskType DEF FixUpgrade, Insufficient
  <2>4. latch' \in [Node -> Latch] /\ downgrading' \subseteq Worker
    BY <1>1, <1>b, LatchType DEF FixUpgrade, Insufficient
  <2> QED
    BY <1>b, <2>1, <2>2, <2>3, <2>4 DEF FixUpgrade, Insufficient, TypeOK
<1> QED
  BY <1>a, <1>b

(* ... the collection of the answers to them. *)
LEMMA CollectTypes ==
    ASSUME TypeOK, NEW w \in Worker,
           \/ CollectPossession(w) \/ CollectMove(w) \/ CollectInvalidations(w)
           \/ CollectCopy(w) \/ CollectUpdate(w)
    PROVE  TypeOK'
<1> DEFINE n == NodeOf[w]
<1>1. n \in Node /\ frame[n] \in Frame /\ frame[n].pVersion \in Nat
      /\ worker[w].peers \in SUBSET Node /\ worker[w].pVersionOld \in Nat
  BY FrameType, WorkerType
<1>2. \A v \in Nat : [frame[n] EXCEPT !.pVersion = v] \in Frame
  BY <1>1 DEF Frame
<1>3. \A v \in Nat : frame' = [frame EXCEPT ![n].pVersion = v]
                       => frame' \in [Node -> Frame]
  BY <1>1, <1>2 DEF TypeOK
<1>a. CASE CollectPossession(w)
  <2> DEFINE r == mail[w][Owner]
  <2>1. r.conflict \in SUBSET Node /\ r.pVersion \in Nat
    BY <1>a, AnsweredType DEF CollectPossession
  <2>2. UNCHANGED <<inflightCRs, provider, fresh, fixes, evictions>>
    BY <1>a DEF CollectPossession
  <2>3. \/ AskOne(w, Owner, Nothing) /\ Possess(w, r.pVersion)
        \/ /\ frame' = [frame EXCEPT ![n].pVersion = r.pVersion]
           /\ \/ CopyPageRnd(w, r.conflict, r.pVersion)
              \/ InvalidateSharedConflicts(w, r.conflict)
              \/ \E src \in r.conflict :
                    /\ mail' = [mail EXCEPT
                             ![w][Owner] = Nothing,
                             ![w][src] = [type |-> "PMR", needPage |-> TRUE]]
                    /\ worker' = [worker EXCEPT ![w].pc = "move",
                                       ![w].peers = r.conflict \ {src}]
           /\ UNCHANGED <<latch, downgrading>>
    BY <1>a DEF CollectPossession
  <2> HIDE DEF r
  <2>4. CASE AskOne(w, Owner, Nothing) /\ Possess(w, r.pVersion)
    <3>1. mail' \in [Worker -> [Node -> Message]]
      BY <2>4, AskType, RequestType
    <3> QED
      BY <2>1, <2>2, <2>4, <3>1, PossessType DEF TypeOK
  <2>5. CASE /\ frame' = [frame EXCEPT ![n].pVersion = r.pVersion]
             /\ \/ CopyPageRnd(w, r.conflict, r.pVersion)
                \/ InvalidateSharedConflicts(w, r.conflict)
             /\ UNCHANGED <<latch, downgrading>>
    <3>1. frame' \in [Node -> Frame]
      BY <1>3, <2>1, <2>5
    <3>2. /\ mail' \in [Worker -> [Node -> Message]]
          /\ worker' \in [Worker -> WorkerState]
      BY <2>1, <2>5, CopyType, InvalidateType
    <3> QED
      BY <2>2, <2>5, <3>1, <3>2 DEF TypeOK
  <2>6. CASE /\ frame' = [frame EXCEPT ![n].pVersion = r.pVersion]
             /\ \E src \in r.conflict :
                    /\ mail' = [mail EXCEPT
                             ![w][Owner] = Nothing,
                             ![w][src] = [type |-> "PMR", needPage |-> TRUE]]
                    /\ worker' = [worker EXCEPT ![w].pc = "move",
                                       ![w].peers = r.conflict \ {src}]
             /\ UNCHANGED <<latch, downgrading>>
    <3>1. PICK src \in r.conflict :
             /\ mail' = [mail EXCEPT
                      ![w][Owner] = Nothing,
                      ![w][src] = [type |-> "PMR", needPage |-> TRUE]]
             /\ worker' = [worker EXCEPT ![w].pc = "move",
                                ![w].peers = r.conflict \ {src}]
      BY <2>6
    <3>2. frame' \in [Node -> Frame]
      BY <1>3, <2>1, <2>6
    <3>3. worker' \in [Worker -> WorkerState]
      <4>1. [worker[w] EXCEPT !.pc = "move", !.peers = r.conflict \ {src}]
               \in WorkerState
        BY <2>1, WorkerType DEF PC
      <4> QED
        BY <3>1, <4>1 DEF TypeOK
    <3>4. mail' \in [Worker -> [Node -> Message]]
      <4>1. [type |-> "PMR", needPage |-> TRUE] \in Message /\ Nothing \in Message
        BY RequestType
      <4>2. src \in Node /\ mail \in [Worker -> [Node -> Message]]
        BY <2>1 DEF TypeOK
      <4> QED
        BY <3>1, <4>1, <4>2
    <3> QED
      BY <2>2, <2>6, <3>2, <3>3, <3>4 DEF TypeOK
  <2> QED
    BY <2>3, <2>4, <2>5, <2>6
<1>b. CASE CollectMove(w)
  <2>1. /\ mail' \in [Worker -> [Node -> Message]]
        /\ worker' \in [Worker -> WorkerState]
    BY <1>1, <1>b, InvalidateType DEF CollectMove
  <2> QED
    BY <1>b, <2>1 DEF CollectMove, TypeOK
<1>c. CASE CollectInvalidations(w)
  <2>1. mail' \in [Worker -> [Node -> Message]]
    BY <1>c, RequestType DEF CollectInvalidations, TypeOK
  <2>2. Possess(w, frame[n].pVersion)
        /\ UNCHANGED <<inflightCRs, provider, fresh, fixes, evictions>>
    BY <1>c DEF CollectInvalidations
  <2> QED
    BY <1>1, <2>1, <2>2, PossessType DEF TypeOK
<1>d. CASE CollectCopy(w)
  <2>1. UNCHANGED <<inflightCRs, provider, fresh, fixes, evictions>>
    BY <1>d DEF CollectCopy
  <2>2. PICK src \in Node :
          \/ AskOne(w, src, Nothing) /\ Possess(w, frame[n].pVersion)
          \/ /\ UnlatchExclusive(n) /\ AskOne(w, src, Nothing)
             /\ worker' = [worker EXCEPT ![w].pc = "fix", ![w].peers = {}]
             /\ UNCHANGED <<frame, downgrading>>
          \/ /\ CopyPageRnd(w, worker[w].peers, frame[n].pVersion)
             /\ UNCHANGED <<frame, latch, downgrading>>
    BY <1>d DEF CollectCopy
  <2>3. AskOne(w, src, Nothing) => mail' \in [Worker -> [Node -> Message]]
    BY AskType, RequestType
  <2>4. CASE AskOne(w, src, Nothing) /\ Possess(w, frame[n].pVersion)
    BY <1>1, <2>1, <2>3, <2>4, PossessType DEF TypeOK
  <2>5. CASE /\ UnlatchExclusive(n) /\ AskOne(w, src, Nothing)
             /\ worker' = [worker EXCEPT ![w].pc = "fix", ![w].peers = {}]
             /\ UNCHANGED <<frame, downgrading>>
    <3>1. [worker[w] EXCEPT !.pc = "fix", !.peers = {}] \in WorkerState
      BY WorkerType DEF PC
    <3>2. worker' \in [Worker -> WorkerState]
      BY <2>5, <3>1 DEF TypeOK
    <3>3. latch' \in [Node -> Latch]
      BY <1>1, <2>5, UnlatchType
    <3> QED
      BY <2>1, <2>3, <2>5, <3>2, <3>3 DEF TypeOK
  <2>6. CASE /\ CopyPageRnd(w, worker[w].peers, frame[n].pVersion)
             /\ UNCHANGED <<frame, latch, downgrading>>
    BY <1>1, <2>1, <2>6, CopyType DEF TypeOK
  <2> QED
    BY <2>2, <2>4, <2>5, <2>6
<1>e. CASE CollectUpdate(w)
  <2> DEFINE r == mail[w][Owner]
  <2>1. r.conflict \ {n} \in SUBSET Node /\ r.pVersion \in Nat
    BY <1>e, AnsweredType DEF CollectUpdate
  <2>2. UNCHANGED <<inflightCRs, provider, fresh, downgrading, fixes, evictions>>
    BY <1>e DEF CollectUpdate
  <2>3. \/ /\ frame' = [frame EXCEPT ![n].pVersion = worker[w].pVersionOld]
           /\ UnlatchExclusive(n) /\ AskOne(w, Owner, Nothing)
           /\ worker' = [worker EXCEPT ![w].pc = "fix", ![w].pVersionOld = 0]
        \/ /\ frame' = [frame EXCEPT ![n].pVersion = r.pVersion]
           /\ InvalidateSharedConflicts(w, r.conflict \ {n})
           /\ UNCHANGED latch
    BY <1>e DEF CollectUpdate
  <2> HIDE DEF r
  <2>4. frame' \in [Node -> Frame]
    BY <1>1, <1>3, <2>1, <2>3
  <2>5. CASE /\ UnlatchExclusive(n) /\ AskOne(w, Owner, Nothing)
             /\ worker' = [worker EXCEPT ![w].pc = "fix", ![w].pVersionOld = 0]
    <3>1. [worker[w] EXCEPT !.pc = "fix", !.pVersionOld = 0] \in WorkerState
      BY WorkerType DEF PC
    <3>2. worker' \in [Worker -> WorkerState]
      BY <2>5, <3>1 DEF TypeOK
    <3>3. latch' \in [Node -> Latch] /\ mail' \in [Worker -> [Node -> Message]]
      BY <1>1, <2>5, UnlatchType, AskType, RequestType
    <3> QED
      BY <2>2, <2>4, <3>2, <3>3 DEF TypeOK
  <2>6. CASE InvalidateSharedConflicts(w, r.conflict \ {n}) /\ UNCHANGED latch
    BY <2>1, <2>2, <2>4, <2>6, InvalidateType DEF TypeOK
  <2> QED
    BY <2>3, <2>5, <2>6
<1> QED
  BY <1>a, <1>b, <1>c, <1>d, <1>e

-----------------------------------------------------------------------------
(* The steps of the message handlers keep the types: at the owner, ... *)
LEMMA OwnerTypes ==
    ASSUME TypeOK, NEW w \in Worker, OwnerHandlerStep(w)
    PROVE  TypeOK'
<1> DEFINE n == NodeOf[w]
           f == frame[Owner]
<1>1. /\ n \in Node /\ f \in Frame /\ f.pVersion \in Nat /\ f.pVersion + 1 \in Nat
      /\ f.possessors \in SUBSET Node /\ f.possessors \ {Owner} \in SUBSET Node
  BY FrameType
<1>2. \A v \in Nat, p \in POSSESSION, q \in SUBSET Node :
         [f EXCEPT !.pVersion = v, !.possession = p, !.possessors = q] \in Frame
  BY <1>1 DEF Frame
<1>3. \A q \in SUBSET Node : [f EXCEPT !.possessors = q] \in Frame
  BY <1>1 DEF Frame
<1>4. \A b \in BOOLEAN : [f EXCEPT !.mhWaiting = b] \in Frame
  BY <1>1 DEF Frame
<1>5. \A result \in RESULT, v \in Nat, q \in SUBSET Node :
         AskOne(w, Owner, Reply(result, q, v))
            => mail' \in [Worker -> [Node -> Message]]
  <2> SUFFICES ASSUME NEW result \in RESULT, NEW v \in Nat, NEW q \in SUBSET Node,
                      AskOne(w, Owner, Reply(result, q, v))
               PROVE  mail' \in [Worker -> [Node -> Message]]
    OBVIOUS
  <2>1. Reply(result, q, v) \in Message
    BY ReplyType
  <2> QED
    BY <2>1, AskType
<1>6. LatchBriefly(Owner)
         => latch' \in [Node -> Latch] /\ downgrading' \subseteq Worker
  BY BriefType
<1>7. ForgetCopyRequest(w) => inflightCRs' \subseteq Worker
  BY DEF ForgetCopyRequest, TypeOK
<1>a. CASE HandleRAR(w)
  <2>1. frame' \in [Node -> Frame]
    <3>1. [EmptyFrame EXCEPT !.state = "EVICTED", !.possession = "EXCLUSIVE",
                             !.possessors = {n}] \in Frame
      BY <1>1, NewFrameType DEF BF_STATE, POSSESSION
    <3> QED
      BY <1>a, <3>1 DEF HandleRAR, TypeOK
  <2>2. mail' \in [Worker -> [Node -> Message]]
    BY <1>5, <1>a DEF HandleRAR, RESULT
  <2> QED
    BY <1>6, <1>7, <1>a, <2>1, <2>2 DEF HandleRAR, TypeOK
<1>b. CASE RetryPossessionRequest(w)
  BY <1>7, <1>b DEF RetryPossessionRequest, TypeOK
<1>c. CASE HandlePRS(w)
  <2>1. LatchBriefly(Owner) /\ UNCHANGED <<worker, provider, fixes, evictions>>
    BY <1>c DEF HandlePRS
  <2>2. \/ frame' = [frame EXCEPT ![Owner].pVersion = f.pVersion + 1,
                                 ![Owner].possession = "SHARED",
                                 ![Owner].possessors = {Owner, n}]
        \/ frame' = [frame EXCEPT ![Owner].pVersion = f.pVersion + 1,
                                 ![Owner].possession = "SHARED",
                                 ![Owner].possessors = {n}]
        \/ frame' = [frame EXCEPT ![Owner].possessors = f.possessors \cup {n}]
    BY <1>c DEF HandlePRS
  <2>3. CopyPage(Owner, n) \/ UNCHANGED fresh
    BY <1>c DEF HandlePRS
  <2>4. ForgetCopyRequest(w) \/ inflightCRs' = inflightCRs \cup {w}
    BY <1>c DEF HandlePRS
  <2>5. \E result \in {"WithPage", "NoPageExclusiveConflict", "NoPageEvicted"},
           v \in {f.pVersion, f.pVersion + 1}, q \in {{}, f.possessors} :
              AskOne(w, Owner, Reply(result, q, v))
    BY <1>c DEF HandlePRS
  <2> HIDE DEF f
  <2>6. frame' \in [Node -> Frame]
    <3>1. /\ [f EXCEPT !.pVersion = f.pVersion + 1, !.possession = "SHARED",
                       !.possessors = {Owner, n}] \in Frame
          /\ [f EXCEPT !.pVersion = f.pVersion + 1, !.possession = "SHARED",
                       !.possessors = {n}] \in Frame
      BY <1>1, <1>2 DEF POSSESSION
    <3>2. [f EXCEPT !.possessors = f.possessors \cup {n}] \in Frame
      BY <1>1, <1>3
    <3> QED
      BY <2>2, <3>1, <3>2 DEF TypeOK, f
  <2>7. mail' \in [Worker -> [Node -> Message]]
    BY <1>1, <1>5, <2>5 DEF RESULT
  <2>8. fresh' \subseteq Node /\ inflightCRs' \subseteq Worker
    BY <1>1, <1>7, <2>3, <2>4, CopyPageType DEF TypeOK
  <2> QED
    BY <1>6, <2>1, <2>6, <2>7, <2>8 DEF TypeOK
<1>d. CASE HandlePRX(w)
  <2>1. /\ GiveAway(n) /\ ForgetCopyRequest(w) /\ LatchBriefly(Owner)
        /\ UNCHANGED <<worker, provider, fixes, evictions>>
    BY <1>d DEF HandlePRX
  <2>2. \E result \in {"WithPage", "NoPageExclusiveConflict",
                       "NoPageSharedConflict", "WithPageSharedConflict"} :
           AskOne(w, Owner, Reply(result, f.possessors \ {Owner}, f.pVersion + 1))
    BY <1>d DEF HandlePRX
  <2>3. fresh' \subseteq Node
    BY <1>1, <1>d DEF HandlePRX, TypeOK
  <2>4. frame' \in [Node -> Frame]
    <3>1. \A v \in Nat, q \in SUBSET Node :
             [f EXCEPT !.pVersion = v, !.possession = "EXCLUSIVE",
                       !.possessors = q, !.state = "EVICTED"] \in Frame
      BY <1>1 DEF Frame, BF_STATE, POSSESSION
    <3>2. [f EXCEPT !.pVersion = f.pVersion + 1, !.possession = "EXCLUSIVE",
                    !.possessors = {n}, !.state = "EVICTED"] \in Frame
      BY <1>1, <3>1
    <3> QED
      BY <2>1, <3>2 DEF GiveAway, TypeOK
  <2>5. mail' \in [Worker -> [Node -> Message]]
    BY <1>1, <1>5, <2>2 DEF RESULT
  <2> QED
    BY <1>6, <1>7, <2>1, <2>3, <2>4, <2>5 DEF TypeOK
<1>e. CASE RetryPUR(w)
  <2>1. frame' \in [Node -> Frame]
    BY <1>4, <1>e DEF RetryPUR, TypeOK
  <2> QED
    BY <1>7, <1>e, <2>1 DEF RetryPUR, TypeOK
<1>f. CASE RejectPUR(w)
  <2>1. frame' \in [Node -> Frame]
    BY <1>4, <1>f DEF RejectPUR, TypeOK
  <2>2. mail' \in [Worker -> [Node -> Message]]
    BY <1>5, <1>f DEF RejectPUR, RESULT
  <2>3. latch' \in [Node -> Latch] /\ downgrading' \subseteq Worker
    BY <1>6, <1>f DEF RejectPUR, TypeOK
  <2> QED
    BY <1>7, <1>f, <2>1, <2>2, <2>3 DEF RejectPUR, TypeOK
<1>g. CASE AcceptPUR(w)
  <2>1. /\ AskOne(w, Owner, Reply("UpdateSucceedWithSharedConflict",
                                  f.possessors \ {Owner}, f.pVersion + 1))
        /\ fresh' = fresh \ {Owner} /\ ForgetCopyRequest(w) /\ LatchBriefly(Owner)
        /\ UNCHANGED <<worker, provider, fixes, evictions>>
    BY <1>g DEF AcceptPUR
  <2>2. frame' \in [Node -> Frame]
    <3>1. [state |-> "EVICTED", possession |-> "EXCLUSIVE", possessors |-> {n},
           pVersion |-> f.pVersion + 1, mhWaiting |-> FALSE] \in Frame
      BY <1>1 DEF Frame, BF_STATE, POSSESSION
    <3> QED
      BY <1>g, <3>1 DEF AcceptPUR, TypeOK
  <2>3. mail' \in [Worker -> [Node -> Message]]
    BY <1>1, <1>5, <2>1 DEF RESULT
  <2> QED
    BY <1>6, <1>7, <2>1, <2>2, <2>3 DEF TypeOK
<1> QED
  BY <1>a, <1>b, <1>c, <1>d, <1>e, <1>f, <1>g DEF OwnerHandlerStep

(* ... and at the nodes that hold copies. *)
LEMMA HolderTypes ==
    ASSUME TypeOK, NEW w \in Worker, NEW n \in Node, HandlerStep(w, n)
    PROVE  TypeOK'
<1>1. \A result \in RESULT : AskOne(w, n, Reply(result, {}, 0))
         => mail' \in [Worker -> [Node -> Message]]
  <2>1. \A result \in RESULT : Reply(result, {}, 0) \in Message
    BY ReplyType
  <2> QED
    BY <2>1, AskType
<1>2. NodeOf[w] \in Node
  OBVIOUS
<1>a. CASE RetryPMR(w, n)
  <2>1. [frame[n] EXCEPT !.mhWaiting = TRUE] \in Frame
    BY FrameType DEF Frame
  <2>2. frame' \in [Node -> Frame]
    BY <1>a, <2>1 DEF RetryPMR, TypeOK
  <2> QED
    BY <1>a, <2>2 DEF RetryPMR, TypeOK
<1>b. CASE HandlePMR(w, n)
  <2>1. mail' \in [Worker -> [Node -> Message]]
    BY <1>1, <1>b DEF HandlePMR, RESULT
  <2>2. latch' \in [Node -> Latch] /\ downgrading' \subseteq Worker
    BY <1>b, LatchType DEF HandlePMR
  <2>3. fresh' \subseteq Node
    BY <1>2, <1>b, CopyPageType DEF HandlePMR, TypeOK
  <2> QED
    BY <1>b, <2>1, <2>2, <2>3 DEF HandlePMR, TypeOK
<1>c. CASE RetryPCR(w, n)
  <2> DEFINE m == mail[w][n]
  <2>1. m \in Message /\ m # Nothing /\ m.type = "PCR"
    BY <1>c DEF RetryPCR, Asked, TypeOK
  <2>2. mail' = [mail EXCEPT ![w] = [mail[w] EXCEPT ![n] =
                    [m EXCEPT !.retries = m.retries + 1]]]
    BY <1>c DEF RetryPCR
  <2> HIDE DEF m
  <2>3. m \in [type : {"PCR"}, pVersion : Nat, retries : Nat]
    <3>1. m \notin Response
      BY <2>1 DEF Response
    <3> QED
      BY <2>1, <3>1 DEF Message, Request
  <2>4. [m EXCEPT !.retries = m.retries + 1]
           \in [type : {"PCR"}, pVersion : Nat, retries : Nat]
    BY <2>3
  <2>5. [m EXCEPT !.retries = m.retries + 1] \in Message
    BY <2>4 DEF Message, Request
  <2>6. mail' \in [Worker -> [Node -> Message]]
    BY <2>2, <2>5 DEF TypeOK
  <2> QED
    BY <1>c, <2>6 DEF RetryPCR, TypeOK
<1>d. CASE RejectPCR(w, n)
  <2>1. mail' \in [Worker -> [Node -> Message]]
    BY <1>1, <1>d DEF RejectPCR, RESULT
  <2> QED
    BY <1>d, <2>1 DEF RejectPCR, TypeOK
<1>e. CASE AcceptPCR(w, n)
  <2>1. mail' \in [Worker -> [Node -> Message]]
    BY <1>1, <1>e DEF AcceptPCR, ReadyToCopy, RESULT
  <2>2. fresh' \subseteq Node
    BY <1>2, <1>e, CopyPageType DEF AcceptPCR, ReadyToCopy
  <2> QED
    BY <1>e, <2>1, <2>2 DEF AcceptPCR, ReadyToCopy, TypeOK
<1> QED
  BY <1>a, <1>b, <1>c, <1>d, <1>e DEF HandlerStep

-----------------------------------------------------------------------------
(* The steps of the page providers, and the removal of a frame *)
LEMMA ProviderTypes ==
    ASSUME TypeOK, NEW n \in Node,
           RemoveFrame(n) \/ RequestEviction(n) \/ ProviderStep(n)
    PROVE  TypeOK'
<1>1. EmptyFrame \in Frame
  BY NewFrameType DEF EmptyFrame, Frame, BF_STATE, POSSESSION
<1>2. UnlatchExclusive(n) => latch' \in [Node -> Latch]
  BY UnlatchType
<1>a. CASE RemoveFrame(n)
  BY <1>1, <1>2, <1>a DEF RemoveFrame, TypeOK
<1>b. CASE RequestEviction(n)
  <2>1. latch' \in [Node -> Latch] /\ downgrading' \subseteq Worker
    BY <1>b, LatchType DEF RequestEviction
  <2>2. provider' \in [Node -> {"idle", "requested", "reading", "accepted",
                                "rejected"}]
    BY <1>b DEF RequestEviction, TypeOK
  <2>3. evictions' \in 0 .. MaxEvictions
    BY <1>b DEF RequestEviction, TypeOK
  <2> QED
    BY <1>b, <2>1, <2>2, <2>3 DEF RequestEviction, TypeOK
<1>c. CASE AcceptEviction(n)
  <2>1. frame' \in [Node -> Frame]
    <3>0. frame[Owner] \in Frame
      BY FrameType
    <3>1. [frame[Owner] EXCEPT !.possessors = {Owner}, !.state = "HOT"] \in Frame
      BY <3>0 DEF Frame, BF_STATE
    <3>2. \A q \in SUBSET Node : [frame[Owner] EXCEPT !.possessors = q] \in Frame
      BY <3>0 DEF Frame
    <3>3. [frame[Owner] EXCEPT !.possessors = frame[Owner].possessors \ {n}]
             \in Frame
      BY <3>2, FrameType
    <3> QED
      BY <1>c, <3>1, <3>3 DEF AcceptEviction, TypeOK
  <2>2. latch' \in [Node -> Latch] /\ downgrading' \subseteq Worker
    BY <1>c, LatchType, BriefType DEF AcceptEviction
  <2>3. \E p \in {"reading", "accepted"} : provider' = [provider EXCEPT ![n] = p]
    BY <1>c DEF AcceptEviction
  <2>4. UNCHANGED <<worker, mail, inflightCRs, fresh, fixes, evictions>>
    BY <1>c DEF AcceptEviction
  <2> QED
    BY <2>1, <2>2, <2>3, <2>4 DEF TypeOK
<1>d. CASE RejectEviction(n)
  <2>1. latch' \in [Node -> Latch] /\ downgrading' \subseteq Worker
    BY <1>d, BriefType DEF RejectEviction, TypeOK
  <2> QED
    BY <1>d, <2>1 DEF RejectEviction, TypeOK
<1>e. CASE CompleteRead(n)
  <2>1. latch' \in [Node -> Latch] /\ fresh' \subseteq Node
    BY <1>e, UnlatchType, CopyPageType DEF CompleteRead
  <2> QED
    BY <1>e, <2>1 DEF CompleteRead, TypeOK
<1>f. CASE CollectEviction(n)
  BY <1>1, <1>2, <1>f DEF CollectEviction, TypeOK
<1> QED
  BY <1>a, <1>b, <1>c, <1>d, <1>e, <1>f DEF ProviderStep

LEMMA EvictOwnerTypes == TypeOK /\ EvictOwnerPage => TypeOK'
<1> SUFFICES ASSUME TypeOK, EvictOwnerPage PROVE TypeOK'
  OBVIOUS
<1>1. frame' \in [Node -> Frame]
  <2>0. frame[Owner] \in Frame
    BY FrameType
  <2>1. \A q \in SUBSET Node :
           [frame[Owner] EXCEPT !.possessors = q, !.state = "EVICTED"] \in Frame
    BY <2>0 DEF Frame, BF_STATE
  <2>2. [frame[Owner] EXCEPT !.possessors = frame[Owner].possessors \ {Owner},
                             !.state = "EVICTED"] \in Frame
    BY <2>1, FrameType
  <2> QED
    BY <2>2 DEF EvictOwnerPage, TypeOK
<1>2. latch' \in [Node -> Latch] /\ downgrading' \subseteq Worker
  BY BriefType DEF EvictOwnerPage
<1> QED
  BY <1>1, <1>2 DEF EvictOwnerPage, TypeOK

LEMMA InitTypes == Init => TypeOK
<1> SUFFICES ASSUME Init PROVE TypeOK
  OBVIOUS
<1>1. EmptyFrame \in Frame
  BY DEF EmptyFrame, Frame, BF_STATE, POSSESSION
<1>2. Unlatched \in Latch
  BY DEF Unlatched, Latch
<1>3. Resting \in WorkerState
  BY DEF Resting, WorkerState, PC, MODE
<1> QED
  BY <1>1, <1>2, <1>3, RequestType DEF Init, TypeOK

(* Every step keeps the types. *)
LEMMA TypeStep == TypeOK /\ [Next]_vars => TypeOK'
<1> SUFFICES ASSUME TypeOK, [Next]_vars PROVE TypeOK'
  OBVIOUS
<1>1. CASE UNCHANGED vars
  BY <1>1 DEF vars, TypeOK
<1>2. CASE Stop
  BY <1>2 DEF Stop, vars, TypeOK
<1>3. CASE \E w \in Worker : Begin(w) \/ NewPage(w) \/ NewRemotePage(w)
  BY <1>3, CallTypes
<1>4. CASE \E w \in Worker : WorkerStep(w)
  BY <1>4, CallTypes, RequestTypes, CollectTypes DEF WorkerStep
<1>5. CASE \E w \in Worker : OwnerHandlerStep(w)
  BY <1>5, OwnerTypes
<1>6. CASE \E w \in Worker, n \in Node : HandlerStep(w, n)
  BY <1>6, HolderTypes
<1>7. CASE \E n \in Node : RemoveFrame(n) \/ RequestEviction(n) \/ ProviderStep(n)
  BY <1>7, ProviderTypes
<1>8. CASE EvictOwnerPage
  BY <1>8, EvictOwnerTypes
<1> QED
  BY <1>1, <1>2, <1>3, <1>4, <1>5, <1>6, <1>7, <1>8 DEF Next

(* The protocol's state is well-typed whatever the cluster: frames, latches *)
(* and mailboxes hold only what the handlers of the code can read, and the *)
(* versions, compared by PUR, PCR and the page providers, stay natural     *)
(* numbers although FixUpgrade runs ahead and CollectUpdate takes back.    *)
THEOREM TypeCorrect == Spec => []TypeOK
BY InitTypes, TypeStep, PTL DEF Spec

-----------------------------------------------------------------------------
(* The views of the page *)

CopyOf(status, epoch, mode, wait) ==
    [status |-> status, epoch |-> epoch, mode |-> mode, wait |-> wait]

NoCopy == CopyOf("none", 0, "SHARED", {})

(* The worker is in the cold path of fix and holds its frame's latch. *)
Claims(w) == worker[w].pc \in {"request", "update", "move", "invalidate", "copy"}

(* The nodes w has asked to give up their copies and that have not answered *)
AskedFor(w) == {m \in Node : Asked(w, m, "PMR")}

GrantStatus(result) ==
    IF result = "NoPageEvicted" THEN "copying"
    ELSE IF result \in {"NoPageSharedConflict", "NoPageExclusiveConflict"}
    THEN "moving" ELSE "page"

(* What the owner has granted w for its node, once it has answered *)
RequestView(w) ==
    LET r == mail[w][Owner] IN
    IF Answered(w, Owner)
    THEN CopyOf(GrantStatus(r.resultType), r.pVersion, worker[w].mode, r.conflict)
    ELSE NoCopy

UpdateView(w) ==
    LET r == mail[w][Owner] IN
    IF Answered(w, Owner) /\ r.resultType # "UpdateFailed"
    THEN CopyOf("page", r.pVersion, "EXCLUSIVE", r.conflict \ {NodeOf[w]})
    ELSE CopyOf("page", worker[w].pVersionOld, "SHARED", {})

MoveView(w) ==
    CopyOf(IF \E src \in Node : Answered(w, src) THEN "page" ELSE "moving",
           frame[NodeOf[w]].pVersion, worker[w].mode,
           worker[w].peers \cup AskedFor(w))

InvalidateView(w) ==
    CopyOf("page", frame[NodeOf[w]].pVersion, worker[w].mode, AskedFor(w))

(* w has the answer to its copy request, with the page. *)
GotCopy(w) == \E src \in Node : Answered(w, src) /\ mail[w][src].resultType = "WithPage"

CopyView(w) ==
    IF GotCopy(w)
    THEN CopyOf("page", frame[NodeOf[w]].pVersion, "SHARED", {})
    ELSE CopyOf("copying", frame[NodeOf[w]].pVersion, "SHARED", worker[w].peers)

ClaimView(w) ==
    IF worker[w].pc = "request" THEN RequestView(w)
    ELSE IF worker[w].pc = "update" THEN UpdateView(w)
    ELSE IF worker[w].pc = "move" THEN MoveView(w)
    ELSE IF worker[w].pc = "invalidate" THEN InvalidateView(w)
    ELSE CopyView(w)

Reading(n) == provider[n] = "reading"

(* What the frame itself says: the owner's, whose page may still be on its  *)
(* way from the node that evicts it, ...                                   *)
OwnerView ==
    LET f == frame[Owner] IN
    IF Owner \in f.possessors /\ \A m \in Node : ~Reading(m)
    THEN CopyOf("page", f.pVersion, f.possession, {}) ELSE NoCopy

(* ... and that of another node, unless it has been handed over already. *)
FrameView(n) ==
    LET f == frame[n] IN
    IF f.state = "HOT" /\ latch[n].x # MessageHandler /\ provider[n] # "accepted"
    THEN CopyOf("page", f.pVersion, f.possession, {})
    ELSE IF f.state = "IO_RDMA" /\ latch[n].x = NoOne
    THEN CopyOf("copying", f.pVersion, "SHARED", {})
    ELSE NoCopy

View(n) ==
    IF ~PageExists THEN NoCopy
    ELSE IF latch[n].x \in Worker /\ Claims(latch[n].x) THEN ClaimView(latch[n].x)
    ELSE IF n = Owner THEN OwnerView ELSE FrameView(n)

DirOf(mode, nodes) ==
    [epoch |-> frame[Owner].pVersion, mode |-> mode, nodes |-> nodes]

DirView ==
    LET f == frame[Owner]
        h == latch[Owner].x
    IN IF ~PageExists THEN [epoch |-> 0, mode |-> "NOBODY", nodes |-> {}]
       ELSE IF h = PageProvider THEN DirOf(f.possession, {n \in Node : Reading(n)})
       ELSE IF h \in Worker /\ worker[h].pc \in {"move", "invalidate"}
       THEN DirOf(worker[h].mode, {Owner})
       ELSE IF h \in Worker /\ worker[h].pc = "copy"
       THEN DirOf(f.possession, f.possessors \cup {Owner})
       ELSE DirOf(f.possession, f.possessors)

Copies == [n \in Node |-> View(n)]

E == INSTANCE Epochs WITH dir <- DirView, copy <- Copies

-----------------------------------------------------------------------------
(* The invariant *)

Latches ==
    \A n \in Node :
        /\ \A w \in Worker :
              latch[n].x = w <=> NodeOf[w] = n /\ (Claims(w) \/ Holds(w, "EXCLUSIVE"))
        /\ latch[n].s = {w \in Worker : NodeOf[w] = n /\ Holds(w, "SHARED")}
        /\ latch[n].x # NoOne => latch[n].s = {}

(* Evictions under way *)
Providers ==
    /\ \A n \in Node :
          /\ latch[n].x = MessageHandler => n # Owner
          /\ n # Owner => (provider[n] # "idle" <=> latch[n].x = PageProvider)
          /\ provider[n] # "idle" => n # Owner /\ frame[n].state = "HOT"
          /\ Reading(n) => /\ frame[Owner].possessors = {Owner}
                           /\ frame[n].pVersion = frame[Owner].pVersion
                           /\ frame[n].possession = frame[Owner].possession
    /\ latch[Owner].x = PageProvider <=> \E n \in Node : Reading(n)
    /\ \A n, m \in Node : Reading(n) /\ Reading(m) => n = m

(* The frames of the other nodes *)
RemoteFrames ==
    \A n \in Node : n # Owner =>
        /\ frame[n].state # "EVICTED"
        /\ frame[n].state = "HOT" => frame[n].possession # "NOBODY" /\ frame[n].possessors = {n}
        /\ frame[n].state # "HOT" => frame[n].possession = "NOBODY"
        /\ frame[n].state = "FREE" => latch[n].x = NoOne /\ latch[n].s = {}
        /\ frame[n].state = "IO_RDMA" =>
              \/ latch[n].x = NoOne /\ frame[n].mhWaiting
              \/ latch[n].x = MessageHandler
              \/ latch[n].x \in Worker /\ Claims(latch[n].x)

(* mhWaiting is set only while an invalidation is under way. *)
Waited ==
    \A n \in Node : n # Owner /\ frame[n].mhWaiting =>
        \/ latch[n].x = MessageHandler
        \/ \E w \in Worker : Asked(w, n, "PMR") /\ ~mail[w][n].needPage

(* The directory *)
OwnerFrame ==
    /\ frame[Owner].state \in {"FREE", "HOT", "EVICTED"}
    /\ PageExists =>
         /\ frame[Owner].possession # "NOBODY"
         /\ (\A w \in Worker : latch[Owner].x = w => ~Claims(w))
               => (frame[Owner].state = "HOT" <=> Owner \in frame[Owner].possessors)
         /\ \A w \in Worker : latch[Owner].x = w /\ Claims(w) =>
               /\ Owner \notin frame[Owner].possessors
               /\ worker[w].pc \in {"move", "invalidate"} =>
                     ~(frame[Owner].possession = "SHARED" /\ worker[w].mode = "SHARED")
               /\ worker[w].pc = "copy" =>
                     frame[Owner].possession = "SHARED" /\ frame[Owner].state # "HOT"

(* What a worker that has, or is about to have, a guard relies on *)
Possessed(w) ==
    Sufficient(NodeOf[w], worker[w].mode) /\ frame[NodeOf[w]].state = "HOT"

GuardsHold ==
    /\ \A w \in Worker : worker[w].pc = "use" => Possessed(w)
    /\ \A w \in Worker : w \in downgrading =>
          /\ worker[w].pc = "downgrade" /\ worker[w].mode = "SHARED"
          /\ latch[NodeOf[w]].x = NoOne /\ Possessed(w)

OnlyOwner(w) == \A n \in Node : n # Owner => mail[w][n] = Nothing

(* The messages between a worker and the other nodes *)
AllocMail(w) ==
    /\ NodeOf[w] # Owner /\ OnlyOwner(w) /\ worker[w].mode = "EXCLUSIVE"
    /\ Asked(w, Owner, "RAR") \/ Answered(w, Owner)

RequestMail(w) ==
    /\ NodeOf[w] # Owner /\ OnlyOwner(w)
    /\ frame[NodeOf[w]].state = "IO_RDMA"
    /\ \/ Asked(w, Owner, IF worker[w].mode = "EXCLUSIVE" THEN "PRX" ELSE "PRS")
       \/ /\ Answered(w, Owner)
          /\ mail[w][Owner].resultType \in
                {"WithPage", "NoPageEvicted", "WithPageSharedConflict",
                 "NoPageSharedConflict", "NoPageExclusiveConflict"}
          /\ mail[w][Owner].resultType = "NoPageEvicted" => worker[w].mode = "SHARED"
          /\ mail[w][Owner].resultType = "WithPage" => mail[w][Owner].conflict = {}

UpdateMail(w) ==
    /\ NodeOf[w] # Owner /\ OnlyOwner(w)
    /\ frame[NodeOf[w]].state = "HOT" /\ frame[NodeOf[w]].possession = "SHARED"
    /\ worker[w].mode = "EXCLUSIVE"
    /\ \/ /\ Asked(w, Owner, "PUR")
          /\ mail[w][Owner].pVersion = worker[w].pVersionOld
       \/ /\ Answered(w, Owner)
          /\ mail[w][Owner].resultType \in
                {"UpdateFailed", "UpdateSucceedWithSharedConflict"}

MoveMail(w) ==
    /\ NodeOf[w] # Owner => frame[NodeOf[w]].state = "IO_RDMA"
    /\ \E m \in Node :
          /\ m \notin worker[w].peers
          /\ Answered(w, m) \/ (Asked(w, m, "PMR") /\ mail[w][m].needPage)
          /\ \A k \in Node : k # m => mail[w][k] = Nothing

InvalidateMail(w) ==
    /\ NodeOf[w] # Owner => frame[NodeOf[w]].state \in {"IO_RDMA", "HOT"}
    /\ NodeOf[w] # Owner /\ frame[NodeOf[w]].state = "HOT" =>
         worker[w].mode = "EXCLUSIVE" /\ frame[NodeOf[w]].possession = "SHARED"
    /\ \A m \in Node :
          IF m \in worker[w].peers
          THEN Answered(w, m) \/ (Asked(w, m, "PMR") /\ ~mail[w][m].needPage)
          ELSE mail[w][m] = Nothing

CopyMail(w) ==
    /\ NodeOf[w] # Owner => frame[NodeOf[w]].state = "IO_RDMA"
    /\ worker[w].mode = "SHARED"
    /\ NodeOf[w] # Owner /\ ~GotCopy(w) => w \in inflightCRs
    /\ \E m \in Node :
          /\ m \in worker[w].peers
          /\ Answered(w, m) \/ Asked(w, m, "PCR")
          /\ \A k \in Node : k # m => mail[w][k] = Nothing

Mailbox(w) ==
    /\ worker[w].pc \in {"idle", "fix", "use", "downgrade"} =>
          \A n \in Node : mail[w][n] = Nothing
    /\ worker[w].pc = "alloc" => AllocMail(w)
    /\ worker[w].pc = "request" => RequestMail(w)
    /\ worker[w].pc = "update" => UpdateMail(w)
    /\ worker[w].pc = "move" => MoveMail(w)
    /\ worker[w].pc = "invalidate" => InvalidateMail(w)
    /\ worker[w].pc = "copy" => CopyMail(w)

Mailboxes == \A w \in Worker : Mailbox(w)

(* A granted copy request is registered at the owner. *)
Registered ==
    \A w \in Worker :
        /\ worker[w].pc = "request" /\ Answered(w, Owner)
        /\ mail[w][Owner].resultType = "NoPageEvicted"
        => w \in inflightCRs

(* Until the page exists nothing happens but its allocation. *)
Allocation ==
    ~PageExists =>
        /\ \A n \in Node : latch[n].x = NoOne /\ latch[n].s = {} /\ provider[n] = "idle"
        /\ \A n \in Node : n # Owner => frame[n] = EmptyFrame
        /\ \A w \in Worker : worker[w].pc \in {"idle", "alloc"}
        /\ \A w, v \in Worker : worker[w].pc = "alloc" /\ worker[v].pc = "alloc" => w = v
        /\ downgrading = {}
        /\ frame[Owner].state = "FREE" =>
              /\ frame[Owner] = EmptyFrame
              /\ \A w \in Worker : worker[w].pc = "alloc" => Asked(w, Owner, "RAR")
        /\ frame[Owner].state # "FREE" => \A w \in Worker : worker[w].pc = "alloc" =>
              /\ Answered(w, Owner)
              /\ frame[Owner] = [EmptyFrame EXCEPT !.state = "EVICTED",
                                     !.possession = "EXCLUSIVE",
                                     !.possessors = {NodeOf[w]}]

(* Every node that has the page in the sense of module Epochs has the last  *)
(* contents in its memory.                                                 *)
PagesAreFresh == \A n \in Node : View(n).status = "page" => n \in fresh

USE NodeAssumption, HolderAssumption

(* The state variables' part of the invariant *)
Control ==
    /\ Latches /\ Providers /\ RemoteFrames /\ Waited /\ OwnerFrame
    /\ GuardsHold /\ Mailboxes /\ Registered /\ Allocation

SafetyInv == TypeOK /\ Control /\ PagesAreFresh /\ E!EpochInv

(* What every step is shown to do: it keeps the invariant and is a step of  *)
(* the epochs, or none.                                                    *)
EpochStep == E!Next \/ (DirView' = DirView /\ Copies' = Copies)
Preserved == Control' /\ PagesAreFresh' /\ EpochStep

-----------------------------------------------------------------------------
(* Views that a step leaves alone *)

SameFrame(k) ==
    /\ frame'[k].state = frame[k].state
    /\ frame'[k].possession = frame[k].possession
    /\ frame'[k].possessors = frame[k].possessors
    /\ frame'[k].pVersion = frame[k].pVersion

SameHolder(k) ==
    /\ latch'[k].x = latch[k].x
    /\ \A v \in Worker : latch[k].x = v => worker'[v] = worker[v] /\ mail'[v] = mail[v]

SameReading == \A m \in Node : Reading(m)' <=> Reading(m)

(* What a worker in the cold path claims depends on its own state, its     *)
(* mail and its frame.                                                     *)
LEMMA SameClaim ==
    ASSUME NEW v \in Worker, worker'[v] = worker[v], mail'[v] = mail[v],
           SameFrame(NodeOf[v])
    PROVE  ClaimView(v)' = ClaimView(v) /\ (Claims(v)' <=> Claims(v))
<1>1. \A m \in Node : (Answered(v, m)' <=> Answered(v, m))
  BY DEF Answered
<1>2. AskedFor(v)' = AskedFor(v)
  BY DEF AskedFor, Asked
<1>3. GotCopy(v)' <=> GotCopy(v)
  BY <1>1 DEF GotCopy
<1>4. RequestView(v)' = RequestView(v) /\ UpdateView(v)' = UpdateView(v)
  BY <1>1 DEF RequestView, UpdateView, CopyOf, NoCopy, GrantStatus
<1>5. MoveView(v)' = MoveView(v) /\ InvalidateView(v)' = InvalidateView(v)
  BY <1>1, <1>2 DEF MoveView, InvalidateView, SameFrame, CopyOf
<1>6. CopyView(v)' = CopyView(v)
  BY <1>3 DEF CopyView, SameFrame, CopyOf
<1> QED
  BY <1>4, <1>5, <1>6 DEF ClaimView, Claims

(* A node's view depends on its frame, the latch, the holder of the latch  *)
(* and the evictions.                                                      *)
LEMMA SameView ==
    ASSUME Latches, NEW k \in Node, PageExists' <=> PageExists,
           SameFrame(k), SameHolder(k),
           provider'[k] = "accepted" <=> provider[k] = "accepted",
           k = Owner => SameReading
    PROVE  View(k)' = View(k)
<1>1. CASE latch[k].x \in Worker
  <2>1. NodeOf[latch[k].x] = k
    BY <1>1 DEF Latches
  <2>2. ClaimView(latch[k].x)' = ClaimView(latch[k].x) /\ (Claims(latch[k].x)' <=> Claims(latch[k].x))
    <3> DEFINE v == latch[k].x
    <3>1. v' = v
      BY DEF SameHolder
    <3>2. worker'[v] = worker[v] /\ mail'[v] = mail[v]
      BY <1>1 DEF SameHolder
    <3> HIDE DEF v
    <3> QED
      BY <1>1, <2>1, <3>1, <3>2, SameClaim DEF v
  <2> QED
    BY <1>1, <2>2 DEF View, SameHolder, SameFrame, OwnerView, FrameView, CopyOf, NoCopy, SameReading
<1>2. CASE latch[k].x \notin Worker
  BY <1>2 DEF View, SameHolder, SameFrame, OwnerView, FrameView, CopyOf, NoCopy, SameReading
<1> QED
  BY <1>1, <1>2

(* The directory's view depends on the owner's frame, its latch and the    *)
(* evictions.                                                              *)
LEMMA SameDir ==
    ASSUME PageExists' <=> PageExists, SameFrame(Owner), SameHolder(Owner), SameReading
    PROVE  DirView' = DirView
BY DEF DirView, DirOf, SameFrame, SameHolder, SameReading

-----------------------------------------------------------------------------
(* The steps of the epochs, in terms of the views *)

Has(n) == View(n).status # "none"
MayUse(n) == View(n).status = "page" /\ View(n).wait = {}

(* All views but those of the nodes in S stay the same. *)
OtherViews(S) == \A k \in Node : k \notin S => View(k)' = View(k)

(* A step that changes no view is no step of the epochs. *)
LEMMA StepStutter ==
    ASSUME DirView' = DirView, OtherViews({})
    PROVE  EpochStep
BY DEF EpochStep, Copies, OtherViews

(* Creation of the page: newPage, or the answer to a remote allocation *)
LEMMA StepCreate ==
    ASSUME NEW n \in Node, DirView.mode = "NOBODY",
           DirView' = [epoch |-> 0, mode |-> "EXCLUSIVE", nodes |-> {n}],
           View(n)' = CopyOf("page", 0, "EXCLUSIVE", {}), OtherViews({n})
    PROVE  EpochStep
<1>1. E!Create(n)
  BY DEF E!Create, E!CopyOf, CopyOf, Copies, OtherViews
<1> QED
  BY <1>1 DEF EpochStep, E!Next

(* A new possession for node n, against all who have the page: conflicting *)
(* requests and upgrades                                                   *)
LEMMA StepNewEpoch ==
    ASSUME NEW n \in Node, NEW mode \in MODE, DirView.mode # "NOBODY",
           Has(Owner) => MayUse(Owner),
           Has(n) => MayUse(n) /\ View(n).epoch = DirView.epoch,
           DirView' = [epoch |-> DirView.epoch + 1, mode |-> mode, nodes |-> {n}],
           View(n)' = CopyOf(IF Has(n) \/ Has(Owner) THEN "page" ELSE "moving",
                             DirView.epoch + 1, mode, DirView.nodes \ {Owner, n}),
           n # Owner => View(Owner)' = NoCopy,
           OtherViews({n, Owner})
    PROVE  EpochStep
<1>1. E!NewEpoch(n, mode)
  BY DEF E!NewEpoch, E!CopyOf, E!NoCopy, CopyOf, NoCopy, Copies, OtherViews,
     E!In, E!Ready, E!HasPage, E!Epoch, Has, MayUse
<1> QED
  BY <1>1 DEF EpochStep, E!Next, MODE, E!MODE

(* The exclusive owner shares the page with node n: a new epoch for both *)
LEMMA StepShareOwner ==
    ASSUME NEW n \in Node, n # Owner, DirView.mode # "NOBODY", DirView.nodes = {Owner},
           MayUse(Owner), ~Has(n),
           DirView' = [epoch |-> DirView.epoch + 1, mode |-> "SHARED", nodes |-> {Owner, n}],
           View(n)' = CopyOf("page", DirView.epoch + 1, "SHARED", {}),
           View(Owner)' = CopyOf("page", DirView.epoch + 1, "SHARED", {}),
           OtherViews({n, Owner})
    PROVE  EpochStep
<1>1. E!ShareOwner(n)
  BY DEF E!ShareOwner, E!CopyOf, CopyOf, Copies, OtherViews,
     E!In, E!Ready, E!HasPage, Has, MayUse
<1> QED
  BY <1>1 DEF EpochStep, E!Next

(* Node n joins the sharers with the page: the answer carries it *)
LEMMA StepJoin ==
    ASSUME NEW n \in Node, DirView.mode = "SHARED", MayUse(Owner), ~Has(n),
           DirView' = [DirView EXCEPT !.nodes = @ \cup {n}],
           View(n)' = CopyOf("page", DirView.epoch, "SHARED", {}),
           OtherViews({n})
    PROVE  EpochStep
<1>1. E!Join(n)
  BY DEF E!Join, E!CopyOf, CopyOf, Copies, OtherViews,
     E!In, E!Ready, E!HasPage, Has, MayUse
<1> QED
  BY <1>1 DEF EpochStep, E!Next

(* Node n joins the sharers and must copy the page from one of them *)
LEMMA StepJoinCopying ==
    ASSUME NEW n \in Node, DirView.mode = "SHARED", ~Has(Owner), ~Has(n),
           DirView' = [DirView EXCEPT !.nodes = @ \cup {n}],
           View(n)' = CopyOf("copying", DirView.epoch, "SHARED", DirView.nodes),
           OtherViews({n})
    PROVE  EpochStep
<1>1. E!JoinCopying(n)
  BY DEF E!JoinCopying, E!CopyOf, CopyOf, Copies, OtherViews, E!In, Has
<1> QED
  BY <1>1 DEF EpochStep, E!Next

(* The copy has arrived. *)
LEMMA StepCopied ==
    ASSUME NEW n \in Node, NEW src \in Node, View(n).status = "copying",
           src \in View(n).wait, MayUse(src), DirView' = DirView,
           View(n)' = CopyOf("page", View(n).epoch, "SHARED", {}),
           OtherViews({n})
    PROVE  EpochStep
<1>1. E!Copied(n, src)
  BY DEF E!Copied, E!CopyOf, CopyOf, Copies, OtherViews, E!Ready, E!Copying, E!HasPage, MayUse
<1> QED
  BY <1>1 DEF EpochStep, E!Next

(* A node stops trying to copy the page; it stays in the directory until   *)
(* it is invalidated.                                                      *)
LEMMA StepStopCopying ==
    ASSUME NEW n \in Node, View(n).status = "copying", n # Owner, DirView' = DirView,
           View(n)' = CopyOf("copying", View(n).epoch, "SHARED", {}),
           OtherViews({n})
    PROVE  EpochStep
<1>1. E!StopCopying(n)
  BY DEF E!StopCopying, E!CopyOf, CopyOf, Copies, OtherViews, E!Copying
<1> QED
  BY <1>1 DEF EpochStep, E!Next

(* A node that is waited for gives up its copy, or its claim of one. *)
LEMMA StepGiveUp ==
    ASSUME NEW m \in Node, NEW n \in Node, m # n, View(m).status \in {"moving", "page"},
           n \in View(m).wait,
           MayUse(n) \/ (View(n).status = "copying" /\ View(m).status = "page"),
           DirView' = DirView, View(n)' = NoCopy,
           View(m)' = CopyOf("page", View(m).epoch, View(m).mode, View(m).wait \ {n}),
           OtherViews({n, m})
    PROVE  EpochStep
<1>1. E!GiveUp(m, n)
  BY DEF E!GiveUp, E!CopyOf, E!NoCopy, CopyOf, NoCopy, Copies, OtherViews, E!Ready, E!Copying,
     E!HasPage, MayUse
<1> QED
  BY <1>1 DEF EpochStep, E!Next

(* A sharer leaves while others stay: an eviction without page transfer *)
LEMMA StepLeave ==
    ASSUME NEW n \in Node, MayUse(n), View(n).epoch = DirView.epoch,
           DirView.mode = "SHARED", DirView.nodes # {n}, n # Owner,
           \A m \in DirView.nodes : m \in Node /\ View(m).status # "copying",
           DirView' = [DirView EXCEPT !.nodes = @ \ {n}], View(n)' = NoCopy,
           OtherViews({n})
    PROVE  EpochStep
<1>1. E!Leave(n)
  BY DEF E!Leave, E!CopyOf, E!NoCopy, CopyOf, NoCopy, Copies, OtherViews, E!Ready, E!Copying,
     E!HasPage, E!Epoch, MayUse
<1> QED
  BY <1>1 DEF EpochStep, E!Next

(* The evicting node hands the page back to the owner. *)
LEMMA StepTakeBack ==
    ASSUME NEW n \in Node, MayUse(n), DirView.nodes = {n}, n # Owner,
           DirView' = [DirView EXCEPT !.nodes = {Owner}], View(n)' = NoCopy,
           View(Owner)' = CopyOf("page", DirView.epoch, DirView.mode, {}),
           OtherViews({n, Owner})
    PROVE  EpochStep
<1>1. E!TakeBack(n)
  BY DEF E!TakeBack, E!CopyOf, E!NoCopy, CopyOf, NoCopy, Copies, OtherViews, E!Ready,
     E!HasPage, MayUse
<1> QED
  BY <1>1 DEF EpochStep, E!Next

(* The owner evicts its own page, or gives up copying it; the other        *)
(* sharers keep theirs.                                                    *)
LEMMA StepOwnerLeaves ==
    ASSUME DirView.mode = "SHARED", DirView.nodes # {Owner},
           MayUse(Owner) \/ View(Owner).status = "copying",
           DirView' = [DirView EXCEPT !.nodes = @ \ {Owner}], View(Owner)' = NoCopy,
           OtherViews({Owner})
    PROVE  EpochStep
<1>1. E!OwnerLeaves
  BY DEF E!OwnerLeaves, E!CopyOf, E!NoCopy, CopyOf, NoCopy, Copies, OtherViews, E!Ready,
     E!HasPage, E!Copying, MayUse
<1> QED
  BY <1>1 DEF EpochStep, E!Next

(* What the proved invariant of the epochs says of the views *)
LEMMA EpochFacts ==
    ASSUME E!EpochInv
    PROVE  /\ DirView.nodes = {k \in Node : Has(k) /\ View(k).epoch = DirView.epoch}
           /\ DirView.epoch \in Nat
           /\ \A k \in Node :
                 /\ View(k).epoch \in Nat
                 /\ Owner \notin View(k).wait
                 /\ Has(k) => View(k).epoch <= DirView.epoch
                 /\ Has(k) /\ View(k).epoch = DirView.epoch => View(k).mode = DirView.mode
                 /\ Has(k) /\ View(k).epoch < DirView.epoch =>
                       \E p \in Node : /\ Has(p) /\ View(p).status # "copying"
                                       /\ View(p).epoch = View(k).epoch + 1
                 /\ View(k).status = "copying" /\ View(k).epoch = DirView.epoch =>
                       \E p \in Node : /\ p # Owner /\ Has(p) /\ View(p).status # "copying"
                                       /\ View(p).epoch = DirView.epoch
           /\ Has(Owner) => View(Owner).epoch = DirView.epoch
           /\ DirView.mode # "NOBODY" => \E k \in Node : View(k).status = "page"
           /\ \A k, m \in Node : Has(k) /\ View(k).status # "copying" =>
                 /\ m \in View(k).wait <=> Has(m) /\ View(m).epoch + 1 = View(k).epoch
                 /\ Has(m) /\ View(m).epoch < View(k).epoch => View(k).wait # {}
           /\ \A k, m \in Node : Has(k) /\ Has(m) /\ View(k).epoch = View(m).epoch =>
                 /\ View(k).mode = View(m).mode
                 /\ View(k).mode = "EXCLUSIVE" => k = m
                 /\ /\ View(k).status # "copying" /\ View(m).status # "copying"
                    /\ View(k).wait # {} /\ View(m).wait # {}
                    => k = m
           /\ \A k, m \in Node : MayUse(k) /\ View(k).mode = "EXCLUSIVE"
                 /\ View(m).status = "page" => k = m
<1> USE DEF Copies, Has, MayUse, E!In, E!Copying, E!HasPage, E!Epoch, E!Leads, E!Ready
<1>0. /\ E!TypeOK /\ E!Members /\ E!NotAhead /\ E!Exists /\ E!Waits /\ E!WaitsForAll
      /\ E!WaitsOnly /\ E!OwnerNotAsked /\ E!OneMode /\ E!DirMode /\ E!NextLed
      /\ E!OneLeader /\ E!OwnerCurrent /\ E!CopyingHasSource
  BY DEF E!EpochInv
<1>1. /\ DirView.epoch \in Nat
      /\ \A k \in Node : View(k).epoch \in Nat
  BY <1>0 DEF E!TypeOK, E!Dir, E!Copy
<1>2. DirView.nodes = {k \in Node : Has(k) /\ View(k).epoch = DirView.epoch}
  BY <1>0 DEF E!Members
<1>3. \A k \in Node :
                 /\ Owner \notin View(k).wait
                 /\ Has(k) => View(k).epoch <= DirView.epoch
                 /\ Has(k) /\ View(k).epoch = DirView.epoch => View(k).mode = DirView.mode
  BY <1>0 DEF E!NotAhead, E!DirMode, E!OwnerNotAsked
<1>4. \A k \in Node :
                 /\ Has(k) /\ View(k).epoch < DirView.epoch =>
                       \E p \in Node : /\ Has(p) /\ View(p).status # "copying"
                                       /\ View(p).epoch = View(k).epoch + 1
                 /\ View(k).status = "copying" /\ View(k).epoch = DirView.epoch =>
                       \E p \in Node : /\ p # Owner /\ Has(p) /\ View(p).status # "copying"
                                       /\ View(p).epoch = DirView.epoch
  BY <1>0 DEF E!NextLed, E!CopyingHasSource
<1>5. /\ Has(Owner) => View(Owner).epoch = DirView.epoch
      /\ DirView.mode # "NOBODY" => \E k \in Node : View(k).status = "page"
  BY <1>0 DEF E!OwnerCurrent, E!Exists
<1>6. \A k, m \in Node : Has(k) /\ View(k).status # "copying" =>
                 /\ m \in View(k).wait <=> Has(m) /\ View(m).epoch + 1 = View(k).epoch
                 /\ Has(m) /\ View(m).epoch < View(k).epoch => View(k).wait # {}
  BY <1>0 DEF E!Waits, E!WaitsForAll, E!WaitsOnly
<1>7. \A k, m \in Node : Has(k) /\ Has(m) /\ View(k).epoch = View(m).epoch =>
                 /\ View(k).mode = View(m).mode
                 /\ View(k).mode = "EXCLUSIVE" => k = m
                 /\ /\ View(k).status # "copying" /\ View(m).status # "copying"
                    /\ View(k).wait # {} /\ View(m).wait # {}
                    => k = m
  BY <1>0 DEF E!OneMode, E!OneLeader
<1>8. \A k, m \in Node : MayUse(k) /\ View(k).mode = "EXCLUSIVE"
                 /\ View(m).status = "page" => k = m
  BY E!EpochInvWriterAlone DEF E!WriterAlone
<1> QED
  BY <1>1, <1>2, <1>3, <1>4, <1>5, <1>6, <1>7, <1>8

-----------------------------------------------------------------------------
(* Mailboxes *)

(* Asking one node writes that mailbox and no other. *)
LEMMA AskFacts ==
    ASSUME TypeOK, NEW w \in Worker, NEW n \in Node, NEW m, AskOne(w, n, m)
    PROVE  /\ mail'[w][n] = m
           /\ \A k \in Node : k # n => mail'[w][k] = mail[w][k]
           /\ \A v \in Worker : v # w => mail'[v] = mail[v]
BY DEF TypeOK, AskOne

(* Requests and answers are no empty mailbox. *)
LEMMA NotNothing ==
    /\ \A t \in {"PRX", "PRS", "RAR"} : [type |-> t] # Nothing
    /\ [type |-> "PMR", needPage |-> FALSE] # Nothing
    /\ [type |-> "PMR", needPage |-> TRUE] # Nothing
    /\ \A v, r \in Nat : [type |-> "PCR", pVersion |-> v, retries |-> r] # Nothing
    /\ \A v \in Nat : [type |-> "PUR", pVersion |-> v] # Nothing
    /\ \A result \in RESULT, conflict \in SUBSET Node, v \in Nat :
          Reply(result, conflict, v) # Nothing
<1>1. \A b \in BOOLEAN : [type |-> "PMR", needPage |-> b] \in Request
  BY DEF Request
<1>2. [type |-> "PMR", needPage |-> FALSE] # Nothing
  BY <1>1, MailAssumption
<1>3. [type |-> "PMR", needPage |-> TRUE] # Nothing
  BY <1>1, MailAssumption
<1> QED
  BY <1>2, <1>3, MailAssumption DEF Request, Response, Reply

(* A worker's mailboxes stay consistent when neither its state nor its     *)
(* mail nor its frame changes.                                             *)
LEMMA SameMailbox ==
    ASSUME NEW v \in Worker, Mailbox(v), worker'[v] = worker[v], mail'[v] = mail[v],
           Claims(v) => /\ frame'[NodeOf[v]].state = frame[NodeOf[v]].state
                        /\ frame'[NodeOf[v]].possession = frame[NodeOf[v]].possession,
           v \in inflightCRs /\ worker[v].pc = "copy" => v \in inflightCRs'
    PROVE  Mailbox(v)'
<1>1. /\ \A m \in Node : (Answered(v, m)' <=> Answered(v, m))
      /\ \A m \in Node, t \in {"PRX", "PRS", "RAR", "PMR", "PCR", "PUR"} : (Asked(v, m, t)' <=> Asked(v, m, t))
  BY DEF Answered, Asked
<1>2. worker[v].pc = "alloc" => AllocMail(v)'
  BY <1>1 DEF Mailbox, AllocMail, OnlyOwner
<1>3. worker[v].pc = "request" => RequestMail(v)'
  BY <1>1 DEF Mailbox, RequestMail, OnlyOwner, Claims
<1>4. worker[v].pc = "update" => UpdateMail(v)'
  BY <1>1 DEF Mailbox, UpdateMail, OnlyOwner, Claims
<1>5. worker[v].pc = "move" => MoveMail(v)'
  BY <1>1 DEF Mailbox, MoveMail, Claims
<1>6. worker[v].pc = "invalidate" => InvalidateMail(v)'
  BY <1>1 DEF Mailbox, InvalidateMail, Claims
<1>7. worker[v].pc = "copy" => CopyMail(v)'
  BY <1>1 DEF Mailbox, CopyMail, Claims, GotCopy
<1> QED
  BY <1>2, <1>3, <1>4, <1>5, <1>6, <1>7 DEF Mailbox

(* Once a worker is past idle and alloc the page exists. *)
LEMMA PageIsThere ==
    ASSUME Allocation, NEW w \in Worker, worker[w].pc \notin {"idle", "alloc"}
    PROVE  PageExists
BY DEF Allocation

(* A worker's step on its own frame leaves the other nodes' views alone. *)
WorkerOnly(w, n) ==
    /\ \A v \in Worker : v # w => worker'[v] = worker[v] /\ mail'[v] = mail[v]
    /\ \A k \in Node : k # n => frame'[k] = frame[k] /\ latch'[k] = latch[k]
    /\ provider' = provider

(* ... so only its own node's view can change. *)
LEMMA LocalViews ==
    ASSUME Latches, NEW w \in Worker, NEW n \in Node, n = NodeOf[w],
           PageExists' <=> PageExists, WorkerOnly(w, n)
    PROVE  OtherViews({n}) /\ (n # Owner => DirView' = DirView)
<1>1. ASSUME NEW k \in Node, k # n PROVE SameFrame(k) /\ SameHolder(k)
  BY <1>1 DEF SameFrame, SameHolder, WorkerOnly, Latches
<1>2. SameReading
  BY DEF SameReading, Reading, WorkerOnly
<1>3. ASSUME NEW k \in Node, k # n PROVE View(k)' = View(k)
  <2>1. provider'[k] = "accepted" <=> provider[k] = "accepted"
    BY DEF WorkerOnly
  <2> QED
    BY <1>1, <1>2, <1>3, <2>1, SameView
<1> QED
  BY <1>1, <1>2, <1>3, SameDir DEF OtherViews

(* A step that changes no view and no contents keeps PagesAreFresh. *)
LEMMA StutterStep ==
    ASSUME PagesAreFresh, DirView' = DirView, OtherViews({}), fresh \subseteq fresh'
    PROVE  EpochStep /\ PagesAreFresh'
BY StepStutter DEF PagesAreFresh, OtherViews

(* If no frame, holder or eviction changes, nothing changes. *)
LEMMA AllSame ==
    ASSUME Latches, PageExists' <=> PageExists,
           \A k \in Node : SameFrame(k) /\ SameHolder(k), SameReading,
           \A k \in Node : (provider'[k] = "accepted" <=> provider[k] = "accepted")
    PROVE  DirView' = DirView /\ OtherViews({})
BY SameView, SameDir DEF OtherViews

(* The view of a node whose latch a worker in the cold path holds *)
LEMMA ClaimIsView ==
    ASSUME Latches, PageExists, NEW w \in Worker, NEW n \in Node, n = NodeOf[w], Claims(w)
    PROVE  latch[n].x = w /\ latch[n].s = {} /\ View(n) = ClaimView(w)
BY DEF Latches, View

(* The parts of CollectCopy *)
CopyFails(w, src) ==
    worker[w].pc = "copy" /\ Answered(w, src) /\ mail[w][src].resultType # "WithPage"

StopsCopying(w, n, src) ==
    /\ CopyFails(w, src)
    /\ UnlatchExclusive(n) /\ AskOne(w, src, Nothing)
    /\ worker' = [worker EXCEPT ![w].pc = "fix", ![w].peers = {}]
    /\ UNCHANGED <<frame, downgrading, inflightCRs, provider, fresh>>

RetriesCopy(w, n, src) ==
    /\ CopyFails(w, src)
    /\ CopyPageRnd(w, worker[w].peers, frame[n].pVersion)
    /\ UNCHANGED <<frame, latch, downgrading, inflightCRs, provider, fresh>>

(* The state in which the answer to a copy request is a failure *)
LEMMA CopyFailsFacts ==
    ASSUME TypeOK, Latches, Mailboxes, Allocation,
           NEW w \in Worker, NEW n \in Node, n = NodeOf[w], NEW src \in Node, CopyFails(w, src)
    PROVE  /\ PageExists /\ CopyMail(w) /\ AskedFor(w) = {} /\ ~GotCopy(w)
           /\ \A k \in Node : k # src => mail[w][k] = Nothing
           /\ latch[n].x = w /\ latch[n].s = {}
           /\ worker[w].peers \subseteq Node /\ frame[n].pVersion \in Nat
           /\ View(n) = CopyOf("copying", frame[n].pVersion, "SHARED", worker[w].peers)
<1>1. worker[w].pc = "copy" /\ Claims(w) /\ PageExists
  BY PageIsThere DEF CopyFails, Claims
<1>2. CopyMail(w)
  BY <1>1 DEF Mailboxes, Mailbox
<1>3. \A k \in Node : k # src => mail[w][k] = Nothing
  BY <1>2 DEF CopyFails, CopyMail, Answered
<1>4. AskedFor(w) = {} /\ ~GotCopy(w)
  BY <1>3 DEF CopyFails, AskedFor, GotCopy, Asked, Answered
<1>5. worker[w].peers \subseteq Node /\ frame[n].pVersion \in Nat
  BY WorkerType, FrameType
<1>6. View(n) = CopyOf("copying", frame[n].pVersion, "SHARED", worker[w].peers)
  BY <1>1, <1>4, ClaimIsView DEF ClaimView, CopyView
<1> QED
  BY <1>1, <1>2, <1>3, <1>4, <1>5, <1>6, ClaimIsView

(* Which worker has written a message *)
LEMMA WhoAsks ==
    ASSUME TypeOK, Mailboxes, NEW w \in Worker, NEW m \in Node
    PROVE  /\ Asked(w, m, "RAR") => worker[w].pc = "alloc" /\ m = Owner
           /\ Asked(w, m, "PRS") => worker[w].pc = "request" /\ m = Owner
                                      /\ worker[w].mode = "SHARED"
           /\ Asked(w, m, "PRX") => worker[w].pc = "request" /\ m = Owner
                                      /\ worker[w].mode = "EXCLUSIVE"
           /\ Asked(w, m, "PUR") => worker[w].pc = "update" /\ m = Owner
           /\ Asked(w, m, "PMR") => worker[w].pc = IF mail[w][m].needPage THEN "move"
                                                   ELSE "invalidate"
           /\ Asked(w, m, "PCR") => worker[w].pc = "copy" /\ m \in worker[w].peers
           /\ worker[w].pc \in {"request", "update", "alloc"} => NodeOf[w] # Owner
<1>1. worker[w].pc \in PC /\ worker[w].mode \in MODE
  BY DEF TypeOK, WorkerState
<1>2. Mailbox(w)
  BY DEF Mailboxes
<1>3. CASE worker[w].pc \in {"idle", "fix", "use", "downgrade"}
  BY <1>2, <1>3 DEF Mailbox, Asked
<1>4. CASE worker[w].pc = "alloc"
  BY <1>2, <1>4 DEF Mailbox, Asked, Answered, AllocMail, OnlyOwner
<1>5. CASE worker[w].pc = "request"
  BY <1>1, <1>2, <1>5 DEF Mailbox, Asked, Answered, RequestMail, OnlyOwner, MODE
<1>6. CASE worker[w].pc = "update"
  BY <1>2, <1>6 DEF Mailbox, Asked, Answered, UpdateMail, OnlyOwner
<1>7. CASE worker[w].pc = "move"
  BY <1>2, <1>7 DEF Mailbox, Asked, Answered, MoveMail
<1>8. CASE worker[w].pc = "invalidate"
  BY <1>2, <1>8 DEF Mailbox, Asked, Answered, InvalidateMail
<1>9. CASE worker[w].pc = "copy"
  BY <1>2, <1>9 DEF Mailbox, Asked, Answered, CopyMail
<1> QED
  BY <1>1, <1>3, <1>4, <1>5, <1>6, <1>7, <1>8, <1>9 DEF PC

(* A handler answers w; the frames of the nodes in S may change. *)
HandlerOnly(w, S) ==
    /\ worker' = worker /\ \A v \in Worker : v # w => mail'[v] = mail[v]
    /\ \A k \in Node : k \notin S =>
          /\ k # NodeOf[w] /\ SameFrame(k) /\ latch'[k].x = latch[k].x
    /\ provider' = provider

(* ... and the views of all other nodes stay the same. *)
LEMMA HandlerViews ==
    ASSUME Latches, NEW w \in Worker, PageExists' <=> PageExists, NEW S, HandlerOnly(w, S)
    PROVE  OtherViews(S) /\ (Owner \notin S => DirView' = DirView)
<1>1. ASSUME NEW k \in Node, k \notin S PROVE SameFrame(k) /\ SameHolder(k)
  BY <1>1 DEF SameHolder, HandlerOnly, Latches
<1>2. SameReading
  BY DEF SameReading, Reading, HandlerOnly
<1>3. ASSUME NEW k \in Node, k \notin S PROVE View(k)' = View(k)
  <2>1. provider'[k] = "accepted" <=> provider[k] = "accepted"
    BY DEF HandlerOnly
  <2> QED
    BY <1>1, <1>2, <1>3, <2>1, SameView
<1> QED
  BY <1>1, <1>2, <1>3, SameDir DEF OtherViews

(* The directory while nobody has the owner's frame latched *)
LEMMA FreeDirectory ==
    ASSUME TypeOK, Latches, Providers, OwnerFrame, PageExists, latch[Owner].x = NoOne
    PROVE  /\ DirView = DirOf(frame[Owner].possession, frame[Owner].possessors)
           /\ frame[Owner].possession \in MODE
           /\ View(Owner) = IF Owner \in frame[Owner].possessors
                 THEN CopyOf("page", frame[Owner].pVersion, frame[Owner].possession, {})
                 ELSE NoCopy
           /\ frame[Owner].state = IF Owner \in frame[Owner].possessors
                 THEN "HOT" ELSE "EVICTED"
           /\ \A m \in Node : ~Reading(m)
<1>1. \A m \in Node : ~Reading(m)
  BY DEF Providers
<1>2. frame[Owner].possession \in MODE
  BY FrameType DEF OwnerFrame, POSSESSION, MODE
<1>3. frame[Owner].state = IF Owner \in frame[Owner].possessors THEN "HOT" ELSE "EVICTED"
  BY FrameType DEF OwnerFrame, Latches, BF_STATE, PageExists
<1> QED
  BY <1>1, <1>2, <1>3 DEF DirView, View, OwnerView

(* While a handler or a page provider has a frame latched no worker uses it. *)
LEMMA NobodyInside ==
    ASSUME TypeOK, Latches, GuardsHold, NEW n \in Node,
           latch[n].x \in {MessageHandler, PageProvider}
    PROVE  \A v \in Worker : NodeOf[v] = n =>
              ~Claims(v) /\ worker[v].pc # "use" /\ v \notin downgrading
<1> SUFFICES ASSUME NEW v \in Worker, NodeOf[v] = n
             PROVE  ~Claims(v) /\ worker[v].pc # "use" /\ v \notin downgrading
  OBVIOUS
<1>1. worker[v].mode \in MODE
  BY WorkerType
<1>2. latch[n].x # NoOne /\ latch[n].x # v /\ latch[n].s = {}
  BY DEF Latches
<1>3. ~Claims(v) /\ ~Holds(v, "EXCLUSIVE")
  BY <1>2 DEF Latches
<1>4. ~Holds(v, "SHARED")
  BY <1>2 DEF Latches
<1>5. v \notin downgrading
  BY <1>2 DEF GuardsHold
<1> QED
  BY <1>1, <1>3, <1>4, <1>5 DEF Holds, MODE

(* A node with a frame for the page knows that the page exists. *)
LEMMA FrameIsThere ==
    ASSUME Allocation, NEW n \in Node, n # Owner, frame[n].state # "FREE"
    PROVE  PageExists
<1>1. EmptyFrame.state = "FREE"
  BY DEF EmptyFrame
<1>2. ~PageExists => frame[n] = EmptyFrame
  BY DEF Allocation
<1> QED
  BY <1>1, <1>2
(* Nobody is inside a frame whose latch is free. *)
LEMMA FreeFrame ==
    ASSUME TypeOK, Latches, NEW n \in Node, CanLatchExclusive(n)
    PROVE  /\ latch[n].x = NoOne /\ latch[n].s = {}
           /\ \A v \in Worker : NodeOf[v] = n => ~Claims(v) /\ worker[v].pc # "use"
<1>1. latch[n].x = NoOne /\ latch[n].s = {}
  BY DEF CanLatchExclusive, Unlatched
<1>2. ASSUME NEW v \in Worker, NodeOf[v] = n PROVE ~Claims(v) /\ worker[v].pc # "use"
  <2>1. worker[v].mode \in MODE
    BY WorkerType
  <2>2. ~Claims(v) /\ ~Holds(v, "EXCLUSIVE") /\ ~Holds(v, "SHARED")
    BY <1>1, <1>2 DEF Latches
  <2> QED
    BY <2>1, <2>2 DEF Holds, MODE
<1> QED
  BY <1>1, <1>2

(* The owner's handler answers a possession request or an upgrade. *)
Answers(w, result, conflict, u) ==
    /\ CanLatchExclusive(Owner) /\ AskOne(w, Owner, Reply(result, conflict, u))
    /\ LatchBriefly(Owner) /\ UNCHANGED <<worker, provider>>

(* ... and what is known then, of the frames and of the new message *)
AnswerSent(w, n, result, conflict, u) ==
    /\ n # Owner /\ latch[n].x = w /\ latch[n].s = {} /\ PageExists
    /\ latch[Owner].x = NoOne /\ latch[Owner].s = {}
    /\ \A v \in Worker : NodeOf[v] = Owner => ~Claims(v) /\ worker[v].pc # "use"
    /\ UNCHANGED <<worker, provider, latch>>
    /\ downgrading' = {v \in downgrading : NodeOf[v] # Owner}
    /\ \A v \in Worker : v # w => mail'[v] = mail[v]
    /\ \A k \in Node : k # Owner => mail'[w][k] = mail[w][k] /\ mail[w][k] = Nothing
    /\ mail'[w][Owner] = Reply(result, conflict, u)
    /\ Answered(w, Owner)' /\ \A t \in {"PRS", "PRX", "PUR", "PMR"} : ~Asked(w, Owner, t)'

DirectoryFree ==
    /\ DirView = DirOf(frame[Owner].possession, frame[Owner].possessors)
    /\ frame[Owner].possession \in MODE /\ frame[Owner].pVersion \in Nat
    /\ frame[Owner].possessors \subseteq Node
    /\ View(Owner) = IF Owner \in frame[Owner].possessors
          THEN CopyOf("page", frame[Owner].pVersion, frame[Owner].possession, {})
          ELSE NoCopy
    /\ frame[Owner].state = IF Owner \in frame[Owner].possessors
          THEN "HOT" ELSE "EVICTED"
    /\ \A m \in Node : ~Reading(m)

(* All that an answer of the owner leaves alone, and what it finds *)
LEMMA AnswersFacts ==
    ASSUME SafetyInv, NEW w \in Worker, NEW n \in Node, n = NodeOf[w],
           NEW result \in RESULT, NEW conflict \in SUBSET Node, NEW u \in Nat,
           Asked(w, Owner, "PRS") \/ Asked(w, Owner, "PRX") \/ Asked(w, Owner, "PUR"),
           Answers(w, result, conflict, u)
    PROVE  /\ worker[w].pc = (IF Asked(w, Owner, "PUR") THEN "update" ELSE "request")
           /\ AnswerSent(w, n, result, conflict, u) /\ DirectoryFree
           /\ ~Asked(w, Owner, "PUR") => View(n) = NoCopy
<1>0. /\ TypeOK /\ Latches /\ Providers /\ OwnerFrame /\ Mailboxes /\ Allocation
  BY DEF SafetyInv, Control
<1>1. /\ worker[w].pc = (IF Asked(w, Owner, "PUR") THEN "update" ELSE "request")
      /\ n # Owner
  BY <1>0, WhoAsks
<1>2. PageExists
  BY <1>0, <1>1, PageIsThere
<1>3. latch[n].x = w /\ latch[n].s = {} /\ View(n) = ClaimView(w)
  BY <1>0, <1>1, <1>2, ClaimIsView DEF Claims
<1>4. /\ latch[Owner].x = NoOne /\ latch[Owner].s = {}
      /\ \A v \in Worker : NodeOf[v] = Owner => ~Claims(v) /\ worker[v].pc # "use"
  BY <1>0, FreeFrame DEF Answers
<1>5. ~Asked(w, Owner, "PUR") => View(n) = NoCopy
  <2>1. ~Answered(w, Owner)
    BY DEF Asked, Answered
  <2> QED
    BY <1>1, <1>3, <2>1 DEF ClaimView, RequestView
<1>6. Reply(result, conflict, u) # Nothing /\ Reply(result, conflict, u).type = "RESPONSE"
  BY NotNothing DEF Reply
<1>7. /\ mail'[w][Owner] = Reply(result, conflict, u)
      /\ \A k \in Node : k # Owner => mail'[w][k] = mail[w][k]
      /\ \A v \in Worker : v # w => mail'[v] = mail[v]
  BY <1>0, AskFacts DEF Answers
<1>8. \A k \in Node : k # Owner => mail[w][k] = Nothing
  BY <1>0, <1>1 DEF Mailboxes, Mailbox, RequestMail, UpdateMail, OnlyOwner
<1>9. Answered(w, Owner)' /\ \A t \in {"PRS", "PRX", "PUR", "PMR"} : ~Asked(w, Owner, t)'
  BY <1>6, <1>7 DEF Answered, Asked
<1>10. /\ UNCHANGED <<worker, provider, latch>>
       /\ downgrading' = {v \in downgrading : NodeOf[v] # Owner}
  BY DEF Answers, LatchBriefly
<1>11. frame[Owner].pVersion \in Nat /\ frame[Owner].possessors \subseteq Node
  BY <1>0, FrameType
<1>12. /\ DirView = DirOf(frame[Owner].possession, frame[Owner].possessors)
       /\ frame[Owner].possession \in MODE
       /\ View(Owner) = IF Owner \in frame[Owner].possessors
             THEN CopyOf("page", frame[Owner].pVersion, frame[Owner].possession, {})
             ELSE NoCopy
       /\ frame[Owner].state = IF Owner \in frame[Owner].possessors
             THEN "HOT" ELSE "EVICTED"
       /\ \A m \in Node : ~Reading(m)
  BY <1>0, <1>2, <1>4, FreeDirectory
<1> QED
  BY <1>1, <1>2, <1>3, <1>4, <1>5, <1>7, <1>8, <1>9, <1>10, <1>11,
     <1>12 DEF AnswerSent, DirectoryFree

(* A sharer's handler has a copy request of w, or answers it. *)
LEMMA CopyRequestFacts ==
    ASSUME TypeOK, Latches, Mailboxes, Allocation, NEW w \in Worker, NEW n \in Node,
           Asked(w, n, "PCR"), NEW r \in Node, r = NodeOf[w]
    PROVE  /\ worker[w].pc = "copy" /\ PageExists /\ CopyMail(w) /\ n \in worker[w].peers
           /\ \A k \in Node : k # n => mail[w][k] = Nothing
           /\ ~GotCopy(w) /\ latch[r].x = w
           /\ View(r) = CopyOf("copying", frame[r].pVersion, "SHARED", worker[w].peers)
           /\ mail[w][n] \in [type : {"PCR"}, pVersion : Nat, retries : Nat]
<1>1. worker[w].pc = "copy" /\ n \in worker[w].peers
  BY WhoAsks
<1>2. PageExists /\ Claims(w)
  BY <1>1, PageIsThere DEF Claims
<1>3. CopyMail(w)
  BY <1>1 DEF Mailboxes, Mailbox
<1>4. \A k \in Node : k # n => mail[w][k] = Nothing
  BY <1>3 DEF CopyMail, Asked
<1>5. ~GotCopy(w)
  BY <1>4 DEF GotCopy, Answered, Asked
<1>6. latch[r].x = w /\ View(r) = ClaimView(w)
  BY <1>2, ClaimIsView
<1>7. View(r) = CopyOf("copying", frame[r].pVersion, "SHARED", worker[w].peers)
  BY <1>1, <1>5, <1>6 DEF ClaimView, CopyView
<1>8. mail[w][n] \in [type : {"PCR"}, pVersion : Nat, retries : Nat]
  <2>1. mail[w][n] \in Message /\ mail[w][n] # Nothing /\ mail[w][n].type = "PCR"
    BY DEF TypeOK, Asked
  <2>2. \A m : m \in Message /\ m # Nothing /\ m.type = "PCR" =>
           m \in [type : {"PCR"}, pVersion : Nat, retries : Nat]
    BY DEF Message, Request, Response
  <2> QED
    BY <2>1, <2>2
<1> QED
  BY <1>1, <1>2, <1>3, <1>4, <1>5, <1>6, <1>7, <1>8

(* A worker that has asked node n for its copy waits for n, in the sense of *)
(* the epochs.                                                             *)
LEMMA MoveRequestFacts ==
    ASSUME TypeOK, Latches, Mailboxes, Allocation, E!EpochInv,
           NEW w \in Worker, NEW n \in Node, Asked(w, n, "PMR"), NEW r \in Node, r = NodeOf[w]
    PROVE  /\ PageExists /\ latch[r].x = w /\ Claims(w) /\ n # Owner
           /\ worker[w].pc = IF mail[w][n].needPage THEN "move" ELSE "invalidate"
           /\ View(r) = ClaimView(w)
           /\ n \in View(r).wait /\ View(r).status \in {"moving", "page"} /\ Has(n)
           /\ View(n).epoch + 1 = View(r).epoch
           /\ ~mail[w][n].needPage => View(r).status = "page"
<1>1. worker[w].pc = IF mail[w][n].needPage THEN "move" ELSE "invalidate"
  BY WhoAsks
<1>2. PageExists /\ Claims(w)
  BY <1>1, PageIsThere DEF Claims
<1>3. latch[r].x = w /\ View(r) = ClaimView(w)
  BY <1>2, ClaimIsView
<1>4. n \in AskedFor(w)
  BY DEF AskedFor
<1>5. n \in View(r).wait /\ View(r).status \in {"moving", "page"}
  BY <1>1, <1>3, <1>4 DEF ClaimView, MoveView, InvalidateView, CopyOf
<1>6. ~mail[w][n].needPage => View(r).status = "page"
  BY <1>1, <1>3 DEF ClaimView, InvalidateView, CopyOf
<1>7. Has(r) /\ View(r).status # "copying"
  BY <1>5 DEF Has
<1>8. n # Owner /\ Has(n) /\ View(n).epoch + 1 = View(r).epoch
  BY <1>5, <1>7, EpochFacts
<1> QED
  BY <1>1, <1>2, <1>3, <1>5, <1>6, <1>8

(* A node that has stopped copying, and whose latch is free, is being       *)
(* invalidated.                                                            *)
LEMMA AbandonedCopy ==
    ASSUME TypeOK, Latches, RemoteFrames, Waited, Mailboxes, Allocation, E!EpochInv,
           NEW n \in Node, n # Owner, latch[n].x = NoOne, frame[n].state = "IO_RDMA"
    PROVE  \E v \in Worker : Asked(v, n, "PMR") /\ ~mail[v][n].needPage
BY DEF RemoteFrames, Waited

-----------------------------------------------------------------------------
(* The actions: each keeps the invariant and takes a step of the epochs,   *)
(* or none. The calls of fix, and what a guard does                        *)

(* A call of fix begins. *)
LEMMA BeginSafe ==
    ASSUME SafetyInv, NEW w \in Worker, NEW n \in Node, n = NodeOf[w], Begin(w)
    PROVE  Preserved
<1>0. /\ TypeOK /\ Latches /\ Providers /\ RemoteFrames /\ Waited /\ OwnerFrame
      /\ GuardsHold /\ Mailboxes /\ Registered /\ Allocation /\ PagesAreFresh
      /\ E!EpochInv
  BY DEF SafetyInv, Control
<1>g. /\ worker[w].pc = "idle" /\ PageExists
      /\ UNCHANGED <<frame, latch, mail, inflightCRs, provider, fresh, downgrading>>
  BY <1>0 DEF Begin
<1>v. /\ worker'[w].pc = "fix"
      /\ \A v \in Worker : v # w => worker'[v] = worker[v]
  BY <1>0 DEF Begin, TypeOK, WorkerState
<1>e. PageExists /\ PageExists'
  BY <1>g, <1>v DEF PageExists
<1>1. Latches'
  BY <1>0, <1>g, <1>v, <1>e DEF Latches, Claims, Holds
<1>2. Providers'
  BY <1>0, <1>g, <1>v, <1>e DEF Providers, Reading
<1>3. RemoteFrames'
  BY <1>0, <1>g, <1>v, <1>e DEF RemoteFrames, Claims, Latches
<1>4. Waited'
  BY <1>0, <1>g, <1>v, <1>e DEF Waited, Asked, Mailboxes, Mailbox
<1>5. OwnerFrame'
  BY <1>0, <1>g, <1>v, <1>e DEF OwnerFrame, Claims, Latches
<1>6. GuardsHold'
  BY <1>0, <1>g, <1>v, <1>e DEF GuardsHold, Possessed, Sufficient,
     IsPossessor, Latches, Holds
<1>7. Mailboxes'
  <2>1. ASSUME NEW v \in Worker, v # w PROVE Mailbox(v)'
    BY <1>0, <1>g, <1>v, <2>1, SameMailbox DEF Mailboxes, Latches, Claims
  <2>2. Mailbox(w)'
    BY <1>0, <1>g, <1>v DEF Mailboxes, Mailbox
  <2> QED
    BY <2>1, <2>2 DEF Mailboxes
<1>8. Registered'
  BY <1>0, <1>g, <1>v, <1>e DEF Registered, Answered
<1>9. Allocation'
  BY <1>0, <1>g, <1>v, <1>e DEF Allocation
<1>10. EpochStep /\ PagesAreFresh'
  <2>1. ASSUME NEW k \in Node PROVE SameFrame(k) /\ SameHolder(k)
    BY <1>0, <1>g, <1>v, <2>1 DEF SameFrame, SameHolder, Latches, Claims, Holds
  <2>2. SameReading
    BY <1>g DEF SameReading, Reading
  <2>3. DirView' = DirView /\ OtherViews({})
    BY <1>0, <1>e, <1>g, <2>1, <2>2, AllSame
  <2> QED
    BY <1>0, <1>g, <2>3, StutterStep
<1> QED
  BY <1>1, <1>2, <1>3, <1>4, <1>5, <1>6, <1>7, <1>8, <1>9, <1>10
     DEF Preserved, Control

(* fix finds an exclusive possession. *)
LEMMA FixHitXSafe ==
    ASSUME SafetyInv, NEW w \in Worker, NEW n \in Node, n = NodeOf[w], FixHit(w),
           worker[w].mode = "EXCLUSIVE"
    PROVE  Preserved
<1>0. /\ TypeOK /\ Latches /\ Providers /\ RemoteFrames /\ Waited /\ OwnerFrame
      /\ GuardsHold /\ Mailboxes /\ Registered /\ Allocation /\ PagesAreFresh
      /\ E!EpochInv
  BY DEF SafetyInv, Control
<1>g. /\ worker[w].pc = "fix" /\ frame[n].state # "FREE" /\ ~frame[n].mhWaiting
      /\ Sufficient(n, worker[w].mode)
      /\ latch[n].x = NoOne /\ latch[n].s = {}
      /\ UNCHANGED <<frame, mail, inflightCRs, provider, fresh>>
  BY <1>0 DEF FixHit, CanLatchExclusive, Unlatched, MODE
<1>v. /\ worker'[w].pc = "use" /\ worker'[w].mode = worker[w].mode
      /\ worker'[w].peers = worker[w].peers /\ worker'[w].pVersionOld = worker[w].pVersionOld
      /\ \A v \in Worker : v # w => worker'[v] = worker[v]
      /\ latch'[n].x = w /\ latch'[n].s = latch[n].s
      /\ \A k \in Node : k # n => latch'[k] = latch[k]
      /\ downgrading' = {v \in downgrading : NodeOf[v] # n}
  BY <1>0 DEF FixHit, LatchExclusive, TypeOK, WorkerState, Latch
<1>e. PageExists /\ PageExists'
  BY <1>0, <1>g, <1>v, PageIsThere DEF PageExists
<1>h. frame[n].state = "HOT"
  BY <1>0, <1>g, <1>e DEF RemoteFrames, OwnerFrame, Sufficient, IsPossessor
<1>1. Latches'
  BY <1>0, <1>g, <1>v, <1>e, <1>h DEF Latches, Claims, Holds
<1>2. Providers'
  BY <1>0, <1>g, <1>v, <1>e, <1>h DEF Providers, Reading
<1>3. RemoteFrames'
  BY <1>0, <1>g, <1>v, <1>e, <1>h DEF RemoteFrames, Claims, Latches
<1>4. Waited'
  BY <1>0, <1>g, <1>v, <1>e, <1>h DEF Waited, Asked, Mailboxes, Mailbox
<1>5. OwnerFrame'
  BY <1>0, <1>g, <1>v, <1>e, <1>h DEF OwnerFrame, Claims, Latches
<1>6. GuardsHold'
  BY <1>0, <1>g, <1>v, <1>e, <1>h DEF GuardsHold, Possessed, Sufficient,
     IsPossessor, Latches, Holds
<1>7. Mailboxes'
  <2>1. ASSUME NEW v \in Worker, v # w PROVE Mailbox(v)'
    BY <1>0, <1>g, <1>v, <2>1, SameMailbox DEF Mailboxes, Latches, Claims
  <2>2. Mailbox(w)'
    BY <1>0, <1>g, <1>v DEF Mailboxes, Mailbox
  <2> QED
    BY <2>1, <2>2 DEF Mailboxes
<1>8. Registered'
  BY <1>0, <1>g, <1>v, <1>e, <1>h DEF Registered, Answered
<1>9. Allocation'
  BY <1>0, <1>g, <1>v, <1>e, <1>h DEF Allocation
<1>10. EpochStep /\ PagesAreFresh'
  <2>1. View(n)' = View(n)
    BY <1>0, <1>e, <1>g, <1>v, <1>h DEF View, Claims, OwnerView, FrameView,
       Providers, Reading
  <2>2. OtherViews({n}) /\ (n # Owner => DirView' = DirView)
    BY <1>0, <1>e, <1>g, <1>v, LocalViews DEF WorkerOnly
  <2>3. DirView' = DirView
    BY <1>e, <1>g, <1>v, <2>2 DEF DirView, DirOf
  <2> QED
    BY <1>0, <1>g, <2>1, <2>2, <2>3, StutterStep DEF OtherViews
<1> QED
  BY <1>1, <1>2, <1>3, <1>4, <1>5, <1>6, <1>7, <1>8, <1>9, <1>10
     DEF Preserved, Control

(* fix finds a shared possession. *)
LEMMA FixHitSSafe ==
    ASSUME SafetyInv, NEW w \in Worker, NEW n \in Node, n = NodeOf[w], FixHit(w),
           worker[w].mode = "SHARED"
    PROVE  Preserved
<1>0. /\ TypeOK /\ Latches /\ Providers /\ RemoteFrames /\ Waited /\ OwnerFrame
      /\ GuardsHold /\ Mailboxes /\ Registered /\ Allocation /\ PagesAreFresh
      /\ E!EpochInv
  BY DEF SafetyInv, Control
<1>g. /\ worker[w].pc = "fix" /\ frame[n].state # "FREE" /\ ~frame[n].mhWaiting
      /\ Sufficient(n, worker[w].mode)
      /\ latch[n].x = NoOne
      /\ UNCHANGED <<frame, mail, inflightCRs, provider, fresh, downgrading>>
  BY <1>0 DEF FixHit, MODE
<1>v. /\ worker'[w].pc = "use" /\ worker'[w].mode = worker[w].mode
      /\ worker'[w].peers = worker[w].peers /\ worker'[w].pVersionOld = worker[w].pVersionOld
      /\ \A v \in Worker : v # w => worker'[v] = worker[v]
      /\ latch'[n].x = latch[n].x /\ latch'[n].s = latch[n].s \cup {w}
      /\ \A k \in Node : k # n => latch'[k] = latch[k]
  BY <1>0 DEF FixHit, TypeOK, WorkerState, Latch
<1>e. PageExists /\ PageExists'
  BY <1>0, <1>g, <1>v, PageIsThere DEF PageExists
<1>h. frame[n].state = "HOT"
  BY <1>0, <1>g, <1>e DEF RemoteFrames, OwnerFrame, Sufficient, IsPossessor
<1>1. Latches'
  BY <1>0, <1>g, <1>v, <1>e, <1>h DEF Latches, Claims, Holds
<1>2. Providers'
  BY <1>0, <1>g, <1>v, <1>e, <1>h DEF Providers, Reading
<1>3. RemoteFrames'
  BY <1>0, <1>g, <1>v, <1>e, <1>h DEF RemoteFrames, Claims, Latches
<1>4. Waited'
  BY <1>0, <1>g, <1>v, <1>e, <1>h DEF Waited, Asked, Mailboxes, Mailbox
<1>5. OwnerFrame'
  BY <1>0, <1>g, <1>v, <1>e, <1>h DEF OwnerFrame, Claims, Latches
<1>6. GuardsHold'
  BY <1>0, <1>g, <1>v, <1>e, <1>h DEF GuardsHold, Possessed, Sufficient,
     IsPossessor, Latches, Holds
<1>7. Mailboxes'
  <2>1. ASSUME NEW v \in Worker, v # w PROVE Mailbox(v)'
    BY <1>0, <1>g, <1>v, <2>1, SameMailbox DEF Mailboxes, Latches, Claims
  <2>2. Mailbox(w)'
    BY <1>0, <1>g, <1>v DEF Mailboxes, Mailbox
  <2> QED
    BY <2>1, <2>2 DEF Mailboxes
<1>8. Registered'
  BY <1>0, <1>g, <1>v, <1>e, <1>h DEF Registered, Answered
<1>9. Allocation'
  BY <1>0, <1>g, <1>v, <1>e, <1>h DEF Allocation
<1>10. EpochStep /\ PagesAreFresh'
  <2>1. ASSUME NEW k \in Node PROVE SameFrame(k) /\ SameHolder(k)
    BY <1>0, <1>g, <1>v, <2>1 DEF SameFrame, SameHolder, Latches, Claims, Holds
  <2>2. SameReading
    BY <1>g DEF SameReading, Reading
  <2>3. DirView' = DirView /\ OtherViews({})
    BY <1>0, <1>e, <1>g, <2>1, <2>2, AllSame
  <2> QED
    BY <1>0, <1>g, <2>3, StutterStep
<1> QED
  BY <1>1, <1>2, <1>3, <1>4, <1>5, <1>6, <1>7, <1>8, <1>9, <1>10
     DEF Preserved, Control

(* fix inserts a frame and asks the owner (PRS, PRX). *)
LEMMA FixInsertSafe ==
    ASSUME SafetyInv, NEW w \in Worker, NEW n \in Node, n = NodeOf[w], FixInsert(w)
    PROVE  Preserved
<1>0. /\ TypeOK /\ Latches /\ Providers /\ RemoteFrames /\ Waited /\ OwnerFrame
      /\ GuardsHold /\ Mailboxes /\ Registered /\ Allocation /\ PagesAreFresh
      /\ E!EpochInv
  BY DEF SafetyInv, Control
<1>g. /\ worker[w].pc = "fix" /\ n # Owner /\ frame[n].state = "FREE"
      /\ latch[n].x = NoOne /\ latch[n].s = {}
      /\ UNCHANGED <<inflightCRs, provider, fresh>>
  BY <1>0 DEF FixInsert, CanLatchExclusive, Unlatched
<1>v. /\ worker'[w].pc = "request" /\ worker'[w].mode = worker[w].mode
      /\ worker'[w].peers = worker[w].peers /\ worker'[w].pVersionOld = worker[w].pVersionOld
      /\ \A v \in Worker : v # w => worker'[v] = worker[v] /\ mail'[v] = mail[v]
      /\ mail'[w][Owner] = [type |-> IF worker[w].mode = "EXCLUSIVE" THEN "PRX" ELSE "PRS"]
      /\ \A k \in Node : k # Owner => mail'[w][k] = mail[w][k]
      /\ frame'[n].state = "IO_RDMA" /\ frame'[n].possession = "NOBODY"
      /\ frame'[n].possessors = frame[n].possessors /\ frame'[n].pVersion = frame[n].pVersion
      /\ frame'[n].mhWaiting = frame[n].mhWaiting
      /\ \A k \in Node : k # n => frame'[k] = frame[k]
      /\ \A k \in Node : k # n => latch'[k] = latch[k]
      /\ latch'[n].x = w /\ latch'[n].s = latch[n].s
      /\ downgrading' = {v \in downgrading : NodeOf[v] # n}
  BY <1>0, AskFacts DEF FixInsert, LatchExclusive, TypeOK, Frame, WorkerState,
     Latch
<1>e. PageExists /\ PageExists'
  BY <1>0, <1>g, <1>v, PageIsThere DEF PageExists
<1>m. /\ Asked(w, Owner, IF worker[w].mode = "EXCLUSIVE" THEN "PRX" ELSE "PRS")'
      /\ ~Answered(w, Owner)'
  BY <1>v, NotNothing DEF Asked, Answered
<1>1. Latches'
  BY <1>0, <1>g, <1>v, <1>e DEF Latches, Claims, Holds
<1>2. Providers'
  BY <1>0, <1>g, <1>v, <1>e DEF Providers, Reading
<1>3. RemoteFrames'
  BY <1>0, <1>g, <1>v, <1>e DEF RemoteFrames, Claims, Latches
<1>4. Waited'
  BY <1>0, <1>g, <1>v, <1>e DEF Waited, Asked, Mailboxes, Mailbox
<1>5. OwnerFrame'
  BY <1>0, <1>g, <1>v, <1>e DEF OwnerFrame, Claims, Latches
<1>6. GuardsHold'
  BY <1>0, <1>g, <1>v, <1>e DEF GuardsHold, Possessed, Sufficient,
     IsPossessor, Latches, Holds
<1>7. Mailboxes'
  <2>1. ASSUME NEW v \in Worker, v # w PROVE Mailbox(v)'
    BY <1>0, <1>g, <1>v, <2>1, SameMailbox DEF Mailboxes, Latches, Claims
  <2>2. Mailbox(w)'
    BY <1>0, <1>g, <1>v, <1>m DEF Mailboxes, Mailbox, RequestMail, OnlyOwner
  <2> QED
    BY <2>1, <2>2 DEF Mailboxes
<1>8. Registered'
  BY <1>0, <1>g, <1>v, <1>e, <1>m DEF Registered, Answered
<1>9. Allocation'
  BY <1>0, <1>g, <1>v, <1>e DEF Allocation
<1>10. EpochStep /\ PagesAreFresh'
  <2>1. View(n)' = View(n)
    BY <1>e, <1>g, <1>v, <1>m DEF View, Claims, ClaimView, RequestView, FrameView
  <2>2. OtherViews({n}) /\ DirView' = DirView
    BY <1>0, <1>e, <1>g, <1>v, LocalViews DEF WorkerOnly
  <2> QED
    BY <1>0, <1>g, <2>1, <2>2, StutterStep DEF OtherViews
<1> QED
  BY <1>1, <1>2, <1>3, <1>4, <1>5, <1>6, <1>7, <1>8, <1>9, <1>10
     DEF Preserved, Control

(* fix asks the owner to upgrade its shared possession (PUR), with the     *)
(* version raised.                                                         *)
LEMMA FixUpgradeSafe ==
    ASSUME SafetyInv, NEW w \in Worker, NEW n \in Node, n = NodeOf[w], FixUpgrade(w)
    PROVE  Preserved
<1>0. /\ TypeOK /\ Latches /\ Providers /\ RemoteFrames /\ Waited /\ OwnerFrame
      /\ GuardsHold /\ Mailboxes /\ Registered /\ Allocation /\ PagesAreFresh
      /\ E!EpochInv
  BY DEF SafetyInv, Control
<1>g. /\ worker[w].pc = "fix" /\ n # Owner /\ frame[n].state # "FREE" /\ ~frame[n].mhWaiting
      /\ ~Sufficient(n, worker[w].mode)
      /\ latch[n].x = NoOne /\ latch[n].s = {}
      /\ UNCHANGED <<inflightCRs, provider, fresh>>
  BY <1>0 DEF FixUpgrade, Insufficient, CanLatchExclusive, Unlatched
<1>v. /\ worker'[w].pc = "update" /\ worker'[w].mode = worker[w].mode
      /\ worker'[w].peers = worker[w].peers /\ worker'[w].pVersionOld = frame[n].pVersion
      /\ \A v \in Worker : v # w => worker'[v] = worker[v] /\ mail'[v] = mail[v]
      /\ mail'[w][Owner] = [type |-> "PUR", pVersion |-> frame[n].pVersion]
      /\ \A k \in Node : k # Owner => mail'[w][k] = mail[w][k]
      /\ frame'[n].state = frame[n].state /\ frame'[n].possession = frame[n].possession
      /\ frame'[n].possessors = frame[n].possessors /\ frame'[n].pVersion = frame[n].pVersion + 1
      /\ frame'[n].mhWaiting = frame[n].mhWaiting
      /\ \A k \in Node : k # n => frame'[k] = frame[k]
      /\ \A k \in Node : k # n => latch'[k] = latch[k]
      /\ latch'[n].x = w /\ latch'[n].s = latch[n].s
      /\ downgrading' = {v \in downgrading : NodeOf[v] # n}
  BY <1>0, AskFacts DEF FixUpgrade, Insufficient, LatchExclusive, TypeOK, Frame,
     WorkerState, Latch
<1>e. PageExists /\ PageExists'
  BY <1>0, <1>g, <1>v, PageIsThere DEF PageExists
<1>t. worker[w].mode \in MODE /\ frame[n].pVersion \in Nat /\ frame[n].possession \in POSSESSION
      /\ frame[n].state \in BF_STATE
  BY <1>0, FrameType, WorkerType
<1>h. frame[n].state = "HOT" /\ frame[n].possession = "SHARED" /\ worker[w].mode = "EXCLUSIVE"
  BY <1>0, <1>g, <1>t DEF RemoteFrames, Sufficient, IsPossessor, MODE, POSSESSION, BF_STATE
<1>m. /\ Asked(w, Owner, "PUR")' /\ ~Answered(w, Owner)'
  BY <1>v, <1>t, NotNothing DEF Asked, Answered
<1>1. Latches'
  BY <1>0, <1>g, <1>v, <1>e, <1>h DEF Latches, Claims, Holds
<1>2. Providers'
  BY <1>0, <1>g, <1>v, <1>e, <1>h DEF Providers, Reading
<1>3. RemoteFrames'
  BY <1>0, <1>g, <1>v, <1>e, <1>h DEF RemoteFrames, Claims, Latches
<1>4. Waited'
  BY <1>0, <1>g, <1>v, <1>e, <1>h DEF Waited, Asked, Mailboxes, Mailbox
<1>5. OwnerFrame'
  BY <1>0, <1>g, <1>v, <1>e, <1>h DEF OwnerFrame, Claims, Latches
<1>6. GuardsHold'
  BY <1>0, <1>g, <1>v, <1>e, <1>h DEF GuardsHold, Possessed, Sufficient,
     IsPossessor, Latches, Holds
<1>7. Mailboxes'
  <2>1. ASSUME NEW v \in Worker, v # w PROVE Mailbox(v)'
    BY <1>0, <1>g, <1>v, <2>1, SameMailbox DEF Mailboxes, Latches, Claims
  <2>2. Mailbox(w)'
    BY <1>0, <1>g, <1>v, <1>m, <1>h DEF Mailboxes, Mailbox, UpdateMail, OnlyOwner
  <2> QED
    BY <2>1, <2>2 DEF Mailboxes
<1>8. Registered'
  BY <1>0, <1>g, <1>v, <1>e, <1>h, <1>m DEF Registered, Answered
<1>9. Allocation'
  BY <1>0, <1>g, <1>v, <1>e, <1>h DEF Allocation
<1>10. EpochStep /\ PagesAreFresh'
  <2>1. View(n)' = View(n)
    BY <1>0, <1>e, <1>g, <1>v, <1>m, <1>h DEF View, Claims, ClaimView, UpdateView,
       FrameView, Providers
  <2>2. OtherViews({n}) /\ DirView' = DirView
    BY <1>0, <1>e, <1>g, <1>v, LocalViews DEF WorkerOnly
  <2> QED
    BY <1>0, <1>g, <2>1, <2>2, StutterStep DEF OtherViews
<1> QED
  BY <1>1, <1>2, <1>3, <1>4, <1>5, <1>6, <1>7, <1>8, <1>9, <1>10
     DEF Preserved, Control

(* The exclusive latch of the cold path becomes a shared one. *)
LEMMA DowngradeSafe ==
    ASSUME SafetyInv, NEW w \in Worker, NEW n \in Node, n = NodeOf[w], Downgrade(w)
    PROVE  Preserved
<1>0. /\ TypeOK /\ Latches /\ Providers /\ RemoteFrames /\ Waited /\ OwnerFrame
      /\ GuardsHold /\ Mailboxes /\ Registered /\ Allocation /\ PagesAreFresh
      /\ E!EpochInv
  BY DEF SafetyInv, Control
<1>g. /\ worker[w].pc = "downgrade"
      /\ UNCHANGED <<frame, mail, inflightCRs, provider, fresh>>
  BY <1>0 DEF Downgrade
<1>v. /\ \A v \in Worker : v # w => worker'[v] = worker[v]
      /\ worker'[w].mode = worker[w].mode
      /\ downgrading' = downgrading \ {w}
      /\ \A k \in Node : k # n => latch'[k] = latch[k]
      /\ latch'[n].x = latch[n].x
      /\ \/ /\ w \in downgrading /\ latch[n].x = NoOne /\ worker'[w].pc = "use"
            /\ latch'[n].s = latch[n].s \cup {w}
         \/ worker'[w].pc = "fix" /\ latch'[n].s = latch[n].s
  BY <1>0 DEF Downgrade, TypeOK, WorkerState, Latch
<1>e. PageExists /\ PageExists'
  BY <1>0, <1>g, <1>v, PageIsThere DEF PageExists
<1>1. Latches'
  BY <1>0, <1>g, <1>v, <1>e DEF Latches, Claims, Holds, GuardsHold
<1>2. Providers'
  BY <1>0, <1>g, <1>v, <1>e DEF Providers, Reading
<1>3. RemoteFrames'
  BY <1>0, <1>g, <1>v, <1>e DEF RemoteFrames, Claims, Latches, GuardsHold,
     Possessed
<1>4. Waited'
  BY <1>0, <1>g, <1>v, <1>e DEF Waited, Asked, Mailboxes, Mailbox
<1>5. OwnerFrame'
  BY <1>0, <1>g, <1>v, <1>e DEF OwnerFrame, Claims, Latches
<1>6. GuardsHold'
  BY <1>0, <1>g, <1>v, <1>e DEF GuardsHold, Possessed, Sufficient,
     IsPossessor, Latches, Holds
<1>7. Mailboxes'
  <2>1. ASSUME NEW v \in Worker, v # w PROVE Mailbox(v)'
    BY <1>0, <1>g, <1>v, <2>1, SameMailbox DEF Mailboxes, Latches, Claims
  <2>2. Mailbox(w)'
    BY <1>0, <1>g, <1>v DEF Mailboxes, Mailbox
  <2> QED
    BY <2>1, <2>2 DEF Mailboxes
<1>8. Registered'
  BY <1>0, <1>g, <1>v, <1>e DEF Registered, Answered
<1>9. Allocation'
  BY <1>0, <1>g, <1>v, <1>e DEF Allocation
<1>10. EpochStep /\ PagesAreFresh'
  <2>1. ASSUME NEW k \in Node PROVE SameFrame(k) /\ SameHolder(k)
    BY <1>0, <1>g, <1>v, <2>1 DEF SameFrame, SameHolder, Latches, Claims, Holds
  <2>2. SameReading
    BY <1>g DEF SameReading, Reading
  <2>3. DirView' = DirView /\ OtherViews({})
    BY <1>0, <1>e, <1>g, <2>1, <2>2, AllSame
  <2> QED
    BY <1>0, <1>g, <2>3, StutterStep
<1> QED
  BY <1>1, <1>2, <1>3, <1>4, <1>5, <1>6, <1>7, <1>8, <1>9, <1>10
     DEF Preserved, Control

(* A shared guard is released. *)
LEMMA ReleaseSSafe ==
    ASSUME SafetyInv, NEW w \in Worker, NEW n \in Node, n = NodeOf[w], Release(w),
           worker[w].mode = "SHARED"
    PROVE  Preserved
<1>0. /\ TypeOK /\ Latches /\ Providers /\ RemoteFrames /\ Waited /\ OwnerFrame
      /\ GuardsHold /\ Mailboxes /\ Registered /\ Allocation /\ PagesAreFresh
      /\ E!EpochInv
  BY DEF SafetyInv, Control
<1>g. /\ worker[w].pc = "use"
      /\ UNCHANGED <<frame, mail, inflightCRs, provider, fresh, downgrading>>
  BY <1>0 DEF Release
<1>v. /\ \A v \in Worker : v # w => worker'[v] = worker[v]
      /\ worker'[w].pc = "idle"
      /\ \A k \in Node : k # n => latch'[k] = latch[k]
      /\ latch'[n].x = latch[n].x /\ latch'[n].s = latch[n].s \ {w}
  BY <1>0 DEF Release, TypeOK, WorkerState, Latch, Resting
<1>e. PageExists /\ PageExists'
  BY <1>0, <1>g, <1>v, PageIsThere DEF PageExists
<1>1. Latches'
  BY <1>0, <1>g, <1>v, <1>e DEF Latches, Claims, Holds
<1>2. Providers'
  BY <1>0, <1>g, <1>v, <1>e DEF Providers, Reading
<1>3. RemoteFrames'
  BY <1>0, <1>g, <1>v, <1>e DEF RemoteFrames, Claims, Latches, GuardsHold,
     Possessed
<1>4. Waited'
  BY <1>0, <1>g, <1>v, <1>e DEF Waited, Asked, Mailboxes, Mailbox
<1>5. OwnerFrame'
  BY <1>0, <1>g, <1>v, <1>e DEF OwnerFrame, Claims, Latches
<1>6. GuardsHold'
  BY <1>0, <1>g, <1>v, <1>e DEF GuardsHold, Possessed, Sufficient,
     IsPossessor, Latches, Holds
<1>7. Mailboxes'
  <2>1. ASSUME NEW v \in Worker, v # w PROVE Mailbox(v)'
    BY <1>0, <1>g, <1>v, <2>1, SameMailbox DEF Mailboxes, Latches, Claims
  <2>2. Mailbox(w)'
    BY <1>0, <1>g, <1>v DEF Mailboxes, Mailbox
  <2> QED
    BY <2>1, <2>2 DEF Mailboxes
<1>8. Registered'
  BY <1>0, <1>g, <1>v, <1>e DEF Registered, Answered
<1>9. Allocation'
  BY <1>0, <1>g, <1>v, <1>e DEF Allocation
<1>10. EpochStep /\ PagesAreFresh'
  <2>1. ASSUME NEW k \in Node PROVE SameFrame(k) /\ SameHolder(k)
    BY <1>0, <1>g, <1>v, <2>1 DEF SameFrame, SameHolder, Latches, Claims, Holds
  <2>2. SameReading
    BY <1>g DEF SameReading, Reading
  <2>3. DirView' = DirView /\ OtherViews({})
    BY <1>0, <1>e, <1>g, <2>1, <2>2, AllSame
  <2> QED
    BY <1>0, <1>g, <2>3, StutterStep
<1> QED
  BY <1>1, <1>2, <1>3, <1>4, <1>5, <1>6, <1>7, <1>8, <1>9, <1>10
     DEF Preserved, Control

(* An exclusive guard is released. *)
LEMMA ReleaseXSafe ==
    ASSUME SafetyInv, NEW w \in Worker, NEW n \in Node, n = NodeOf[w], Release(w),
           worker[w].mode = "EXCLUSIVE"
    PROVE  Preserved
<1>0. /\ TypeOK /\ Latches /\ Providers /\ RemoteFrames /\ Waited /\ OwnerFrame
      /\ GuardsHold /\ Mailboxes /\ Registered /\ Allocation /\ PagesAreFresh
      /\ E!EpochInv
  BY DEF SafetyInv, Control
<1>g. /\ worker[w].pc = "use"
      /\ fresh' = {n}
      /\ UNCHANGED <<frame, mail, inflightCRs, provider, downgrading>>
  BY <1>0 DEF Release
<1>v. /\ \A v \in Worker : v # w => worker'[v] = worker[v]
      /\ worker'[w].pc = "idle"
      /\ \A k \in Node : k # n => latch'[k] = latch[k]
      /\ latch'[n].x = NoOne /\ latch'[n].s = latch[n].s
  BY <1>0 DEF Release, UnlatchExclusive, TypeOK, WorkerState, Latch, Resting
<1>e. PageExists /\ PageExists'
  BY <1>0, <1>g, <1>v, PageIsThere DEF PageExists
<1>h. /\ latch[n].x = w /\ frame[n].state = "HOT"
      /\ frame[n].possession = "EXCLUSIVE" /\ n \in frame[n].possessors
  BY <1>0, <1>g DEF Latches, Holds, GuardsHold, Possessed, Sufficient, IsPossessor
<1>1. Latches'
  BY <1>0, <1>g, <1>v, <1>e, <1>h DEF Latches, Claims, Holds
<1>2. Providers'
  BY <1>0, <1>g, <1>v, <1>e, <1>h DEF Providers, Reading
<1>3. RemoteFrames'
  BY <1>0, <1>g, <1>v, <1>e, <1>h DEF RemoteFrames, Claims, Latches
<1>4. Waited'
  BY <1>0, <1>g, <1>v, <1>e, <1>h DEF Waited, Asked, Mailboxes, Mailbox
<1>5. OwnerFrame'
  BY <1>0, <1>g, <1>v, <1>e, <1>h DEF OwnerFrame, Claims, Latches
<1>6. GuardsHold'
  BY <1>0, <1>g, <1>v, <1>e, <1>h DEF GuardsHold, Possessed, Sufficient,
     IsPossessor, Latches, Holds
<1>7. Mailboxes'
  <2>1. ASSUME NEW v \in Worker, v # w PROVE Mailbox(v)'
    BY <1>0, <1>g, <1>v, <2>1, SameMailbox DEF Mailboxes, Latches, Claims
  <2>2. Mailbox(w)'
    BY <1>0, <1>g, <1>v DEF Mailboxes, Mailbox
  <2> QED
    BY <2>1, <2>2 DEF Mailboxes
<1>8. Registered'
  BY <1>0, <1>g, <1>v, <1>e, <1>h DEF Registered, Answered
<1>9. Allocation'
  BY <1>0, <1>g, <1>v, <1>e, <1>h DEF Allocation
<1>10. EpochStep /\ PagesAreFresh'
  <2>1. View(n)' = View(n) /\ View(n) = CopyOf("page", frame[n].pVersion, "EXCLUSIVE", {})
    BY <1>0, <1>e, <1>g, <1>v, <1>h DEF View, Claims, OwnerView, FrameView,
       Providers, Reading
  <2>2. OtherViews({n}) /\ (n # Owner => DirView' = DirView)
    BY <1>0, <1>e, <1>g, <1>v, LocalViews DEF WorkerOnly
  <2>3. DirView' = DirView
    BY <1>e, <1>g, <1>v, <1>h, <2>2 DEF DirView, DirOf
  <2>4. \A m \in Node : View(m).status = "page" => m = n
    BY <1>0, <2>1, EpochFacts DEF MayUse, CopyOf
  <2> QED
    BY <1>0, <1>g, <2>1, <2>2, <2>3, <2>4, StepStutter DEF OtherViews, PagesAreFresh
<1> QED
  BY <1>1, <1>2, <1>3, <1>4, <1>5, <1>6, <1>7, <1>8, <1>9, <1>10
     DEF Preserved, Control

-----------------------------------------------------------------------------
(* The answers a worker collects *)

(* The page has arrived; the other sharers are still to be invalidated. *)
LEMMA CollectMoveSafe ==
    ASSUME SafetyInv, NEW w \in Worker, NEW n \in Node, n = NodeOf[w], CollectMove(w)
    PROVE  Preserved
<1>0. /\ TypeOK /\ Latches /\ Providers /\ RemoteFrames /\ Waited /\ OwnerFrame
      /\ GuardsHold /\ Mailboxes /\ Registered /\ Allocation /\ PagesAreFresh
      /\ E!EpochInv
  BY DEF SafetyInv, Control
<1>g. /\ worker[w].pc = "move" /\ \E src \in Node : Answered(w, src)
      /\ UNCHANGED <<frame, latch, inflightCRs, provider, fresh, downgrading>>
  BY <1>0 DEF CollectMove
<1>v. /\ worker'[w].pc = "invalidate" /\ worker'[w].mode = worker[w].mode
      /\ worker'[w].peers = worker[w].peers /\ worker'[w].pVersionOld = worker[w].pVersionOld
      /\ \A v \in Worker : v # w => worker'[v] = worker[v] /\ mail'[v] = mail[v]
      /\ \A k \in Node : mail'[w][k] = IF k \in worker[w].peers
                             THEN [type |-> "PMR", needPage |-> FALSE] ELSE Nothing
  BY <1>0 DEF CollectMove, InvalidateSharedConflicts, Invalidating, TypeOK,
     WorkerState
<1>e. PageExists /\ PageExists'
  BY <1>0, <1>g, <1>v, PageIsThere DEF PageExists
<1>m. \A k \in Node : /\ ~Answered(w, k)'
                      /\ Asked(w, k, "PMR")' <=> k \in worker[w].peers
                      /\ k \in worker[w].peers => ~mail'[w][k].needPage
  BY <1>v, NotNothing DEF Answered, Asked
<1>c. MoveMail(w) /\ worker[w].peers \subseteq Node
  BY <1>0, <1>g, WorkerType DEF Mailboxes, Mailbox
<1>p. PICK m \in Node : Answered(w, m) /\ \A k \in Node : k # m => mail[w][k] = Nothing
  BY <1>g, <1>c DEF MoveMail, Answered
<1>a. AskedFor(w) = {} /\ AskedFor(w)' = worker[w].peers
  BY <1>c, <1>m, <1>p DEF AskedFor, Asked, Answered
<1>1. Latches'
  BY <1>0, <1>g, <1>v, <1>e DEF Latches, Claims, Holds
<1>2. Providers'
  BY <1>0, <1>g, <1>v, <1>e DEF Providers, Reading
<1>3. RemoteFrames'
  BY <1>0, <1>g, <1>v, <1>e DEF RemoteFrames, Claims, Latches
<1>4. Waited'
  BY <1>0, <1>g, <1>v, <1>e, <1>p DEF Waited, Asked, Mailboxes, Mailbox,
     Answered
<1>5. OwnerFrame'
  BY <1>0, <1>g, <1>v, <1>e DEF OwnerFrame, Claims, Latches
<1>6. GuardsHold'
  BY <1>0, <1>g, <1>v, <1>e DEF GuardsHold, Possessed, Sufficient,
     IsPossessor, Latches, Holds
<1>7. Mailboxes'
  <2>1. ASSUME NEW v \in Worker, v # w PROVE Mailbox(v)'
    BY <1>0, <1>g, <1>v, <2>1, SameMailbox DEF Mailboxes, Latches, Claims
  <2>2. Mailbox(w)'
    BY <1>0, <1>g, <1>v, <1>m, <1>c DEF Mailbox, MoveMail, InvalidateMail
  <2> QED
    BY <2>1, <2>2 DEF Mailboxes
<1>8. Registered'
  BY <1>0, <1>g, <1>v, <1>e, <1>m DEF Registered, Answered
<1>9. Allocation'
  BY <1>0, <1>g, <1>v, <1>e DEF Allocation
<1>10. EpochStep /\ PagesAreFresh'
  <2>0. latch[n].x = w /\ latch'[n].x = w
    BY <1>0, <1>g DEF Latches, Claims
  <2>1. View(n)' = View(n)
    BY <1>e, <1>g, <1>v, <1>a, <2>0 DEF View, Claims, ClaimView, MoveView, InvalidateView
  <2>2. OtherViews({n}) /\ (n # Owner => DirView' = DirView)
    BY <1>0, <1>e, <1>g, <1>v, LocalViews DEF WorkerOnly
  <2>3. DirView' = DirView
    BY ZenonT(40), <1>e, <1>g, <1>v, <2>0, <2>2 DEF DirView, DirOf
  <2> QED
    BY <1>0, <1>g, <2>1, <2>2, <2>3, StutterStep DEF OtherViews
<1> QED
  BY <1>1, <1>2, <1>3, <1>4, <1>5, <1>6, <1>7, <1>8, <1>9, <1>10
     DEF Preserved, Control

(* fix has everything it waited for and takes possession. *)
LEMMA PossessSafe ==
    ASSUME SafetyInv, NEW w \in Worker, NEW n \in Node, n = NodeOf[w], NEW u \in Nat,
           worker[w].pc \in {"request", "invalidate", "copy"},
           View(n) = CopyOf("page", u, worker[w].mode, {}), AskedFor(w) = {},
           Possess(w, u), \A k \in Node : mail'[w][k] = Nothing,
           \A v \in Worker : v # w => mail'[v] = mail[v],
           UNCHANGED <<inflightCRs, provider, fresh>>
    PROVE  Preserved
<1>0. /\ TypeOK /\ Latches /\ Providers /\ RemoteFrames /\ Waited /\ OwnerFrame
      /\ GuardsHold /\ Mailboxes /\ Registered /\ Allocation /\ PagesAreFresh
      /\ E!EpochInv
  BY DEF SafetyInv, Control
<1>t. worker[w].mode \in MODE
  BY <1>0, WorkerType
<1>z. PageExists
  BY <1>0, PageIsThere
<1>l. latch[n].x = w /\ latch[n].s = {}
  BY <1>0 DEF Latches, Claims
<1>g. /\ latch[n].x = w /\ latch[n].s = {}
      /\ worker[w].mode \in MODE
      /\ n # Owner => frame[n].possession # "SHARED" \/ worker[w].mode = "EXCLUSIVE"
      /\ n = Owner => Owner \notin frame[Owner].possessors /\ worker[w].pc # "request"
      /\ worker[w].pc = "copy" => worker[w].mode = "SHARED"
      /\ UNCHANGED <<inflightCRs, provider, fresh>>
  BY <1>0, <1>t, <1>z, <1>l DEF Mailboxes, Mailbox, RequestMail,
     InvalidateMail, CopyMail, RemoteFrames, OwnerFrame, Claims, MODE
<1>v. /\ worker'[w].pc = (IF worker[w].mode = "EXCLUSIVE" THEN "use" ELSE "downgrade") /\ worker'[w].mode = worker[w].mode
      /\ worker'[w].peers = {} /\ worker'[w].pVersionOld = 0
      /\ \A v \in Worker : v # w => worker'[v] = worker[v] /\ mail'[v] = mail[v]
      /\ frame'[n].state = "HOT" /\ frame'[n].possession = worker[w].mode
      /\ frame'[n].pVersion = u /\ frame'[n].mhWaiting = frame[n].mhWaiting
      /\ frame'[n].possessors = IF frame[n].possession = "SHARED" /\ worker[w].mode = "SHARED"
                               THEN frame[n].possessors \cup {n} ELSE {n}
      /\ \A k \in Node : k # n => frame'[k] = frame[k]
      /\ \A k \in Node : k # n => latch'[k] = latch[k]
      /\ latch'[n].x = (IF worker[w].mode = "EXCLUSIVE" THEN w ELSE NoOne) /\ latch'[n].s = latch[n].s
      /\ downgrading' = IF worker[w].mode = "EXCLUSIVE" THEN downgrading ELSE downgrading \cup {w}
  <2>1. /\ frame'[n].state = "HOT" /\ frame'[n].possession = worker[w].mode
        /\ frame'[n].pVersion = u /\ frame'[n].mhWaiting = frame[n].mhWaiting
        /\ frame'[n].possessors = IF frame[n].possession = "SHARED" /\ worker[w].mode = "SHARED"
                                   THEN frame[n].possessors \cup {n} ELSE {n}
        /\ \A k \in Node : k # n => frame'[k] = frame[k]
    BY <1>0 DEF Possess, TypeOK, Frame
  <2>2. CASE worker[w].mode = "EXCLUSIVE"
    BY <1>0, <1>l, <2>1, <2>2 DEF Possess, TypeOK, WorkerState
  <2>3. CASE worker[w].mode # "EXCLUSIVE"
    <3>1. /\ latch'[n].x = NoOne /\ latch'[n].s = latch[n].s
          /\ \A k \in Node : k # n => latch'[k] = latch[k]
      BY <1>0, <2>3 DEF Possess, UnlatchExclusive, TypeOK, Latch
    <3>2. /\ worker'[w].pc = "downgrade" /\ worker'[w].mode = worker[w].mode
          /\ worker'[w].peers = {} /\ worker'[w].pVersionOld = 0
          /\ \A v \in Worker : v # w => worker'[v] = worker[v]
      BY <1>0, <2>3 DEF Possess, TypeOK, WorkerState
    <3>3. downgrading' = downgrading \cup {w}
      BY <2>3 DEF Possess
    <3> QED
      BY <2>1, <2>3, <3>1, <3>2, <3>3
  <2> QED
    BY <2>2, <2>3
<1>e. PageExists /\ PageExists'
  BY <1>z, <1>v DEF PageExists
<1>1. Latches'
  BY <1>0, <1>g, <1>v, <1>t DEF Latches, Claims, Holds, MODE
<1>2. Providers'
  BY <1>0, <1>g, <1>v, <1>e, <1>t DEF Providers, Reading
<1>3. RemoteFrames'
  BY <1>0, <1>g, <1>v, <1>e, <1>t DEF RemoteFrames, Claims, Latches, MODE
<1>4. Waited'
  BY <1>0, <1>g, <1>v, <1>e, <1>t DEF Waited, Asked, Mailboxes, Mailbox,
     AskedFor
<1>5. OwnerFrame'
  BY <1>0, <1>g, <1>v, <1>e, <1>t DEF OwnerFrame, Claims, Latches, MODE
<1>6. GuardsHold'
  BY <1>0, <1>g, <1>v, <1>e, <1>t DEF GuardsHold, Possessed, Sufficient,
     IsPossessor, Latches, Holds, MODE, Claims
<1>7. Mailboxes'
  <2>1. ASSUME NEW v \in Worker, v # w PROVE Mailbox(v)'
    BY <1>0, <1>g, <1>v, <2>1, SameMailbox DEF Mailboxes, Latches, Claims
  <2>2. Mailbox(w)'
    BY <1>v DEF Mailbox
  <2> QED
    BY <2>1, <2>2 DEF Mailboxes
<1>8. Registered'
  BY <1>0, <1>g, <1>v DEF Registered, Answered, MODE
<1>9. Allocation'
  BY <1>0, <1>g, <1>v, <1>e, <1>t DEF Allocation
<1>10. EpochStep /\ PagesAreFresh'
  <2>1. View(n)' = View(n)
    BY <1>0, <1>e, <1>g, <1>v, <1>t DEF View, Claims, OwnerView, FrameView, Reading,
       Providers, MODE
  <2>2. OtherViews({n}) /\ (n # Owner => DirView' = DirView)
    <3>1. WorkerOnly(w, n)
      BY <1>g, <1>v DEF WorkerOnly
    <3> QED
      BY <1>0, <1>e, <3>1, LocalViews
  <2>3. n = Owner => DirView' = DirView
    <3>1. n = Owner => DirView.epoch = u
      BY <1>0, <2>1, EpochFacts DEF Has, CopyOf
    <3>2. ASSUME n = Owner
          PROVE  DirView = DirOf(worker[w].mode,
                     IF worker[w].pc = "copy" THEN frame[n].possessors \cup {n} ELSE {n})
      BY <1>0, <1>e, <1>g, <1>t, <3>2 DEF DirView, OwnerFrame, Claims, MODE
    <3>3. ASSUME n = Owner
          PROVE  DirView' = [epoch |-> u, mode |-> worker[w].mode, nodes |-> frame'[n].possessors]
      <4>1. latch'[Owner].x \in {w, NoOne} /\ worker'[w].pc \in {"use", "downgrade"}
        BY <1>v, <3>3
      <4> QED
        BY <1>e, <1>v, <3>3, <4>1 DEF DirView, DirOf
    <3>4. ASSUME n = Owner
          PROVE  frame'[n].possessors = IF worker[w].pc = "copy" THEN frame[n].possessors \cup {n} ELSE {n}
      BY <1>0, <1>e, <1>g, <1>v, <1>t, <3>4 DEF OwnerFrame, Claims, MODE
    <3> QED
      BY SMTT(30), <3>1, <3>2, <3>3, <3>4 DEF DirOf
  <2> QED
    BY <1>0, <1>g, <2>1, <2>2, <2>3, StutterStep DEF OtherViews
<1> QED
  BY <1>1, <1>2, <1>3, <1>4, <1>5, <1>6, <1>7, <1>8, <1>9, <1>10
     DEF Preserved, Control

(* The owner has answered with the page and sharers to invalidate. *)
LEMMA PossessionInvalidateSafe ==
    ASSUME SafetyInv, NEW w \in Worker, NEW n \in Node, n = NodeOf[w], CollectPossession(w),
           mail[w][Owner].resultType = "WithPageSharedConflict"
    PROVE  Preserved
<1>0. /\ TypeOK /\ Latches /\ Providers /\ RemoteFrames /\ Waited /\ OwnerFrame
      /\ GuardsHold /\ Mailboxes /\ Registered /\ Allocation /\ PagesAreFresh
      /\ E!EpochInv
  BY DEF SafetyInv, Control
<1>r. /\ mail[w][Owner].conflict \subseteq Node /\ mail[w][Owner].pVersion \in Nat
      /\ Answered(w, Owner)
  BY <1>0, AnsweredType DEF CollectPossession, CollectUpdate
<1>l. worker[w].pc = "request" /\ RequestMail(w) /\ latch[n].x = w
  BY <1>0 DEF CollectPossession, Mailboxes, Mailbox, Latches, Claims
<1>g. /\ worker[w].pc = "request" /\ n # Owner /\ latch[n].x = w /\ frame[n].state = "IO_RDMA"
      /\ RequestMail(w) /\ mail[w][Owner] # Nothing
      /\ UNCHANGED <<latch, inflightCRs, provider, fresh, downgrading>>
  BY <1>l, <1>r DEF CollectPossession, RequestMail, Answered
<1>v. /\ worker'[w].pc = "invalidate" /\ worker'[w].mode = worker[w].mode
      /\ worker'[w].peers = mail[w][Owner].conflict
      /\ worker'[w].pVersionOld = worker[w].pVersionOld
      /\ \A v \in Worker : v # w => worker'[v] = worker[v] /\ mail'[v] = mail[v]
      /\ \A k \in Node : mail'[w][k] = IF k \in mail[w][Owner].conflict
                             THEN [type |-> "PMR", needPage |-> FALSE] ELSE Nothing
      /\ frame'[n].state = frame[n].state /\ frame'[n].possession = frame[n].possession
      /\ frame'[n].possessors = frame[n].possessors /\ frame'[n].pVersion = mail[w][Owner].pVersion
      /\ frame'[n].mhWaiting = frame[n].mhWaiting
      /\ \A k \in Node : k # n => frame'[k] = frame[k]
  BY <1>0, <1>r DEF CollectPossession, InvalidateSharedConflicts,
     Invalidating, TypeOK, WorkerState, Frame
<1>e. PageExists /\ PageExists'
  BY <1>0, <1>g, <1>v, PageIsThere DEF PageExists
<1>m. \A k \in Node : /\ ~Answered(w, k)'
                      /\ Asked(w, k, "PMR")' <=> k \in mail[w][Owner].conflict
                      /\ k \in mail[w][Owner].conflict => ~mail'[w][k].needPage
  BY <1>v, NotNothing DEF Answered, Asked
<1>a. AskedFor(w)' = mail[w][Owner].conflict
  BY <1>r, <1>m DEF AskedFor
<1>c. AskedFor(w) = {}
  BY <1>g, <1>r DEF AskedFor, Asked, Answered, RequestMail, OnlyOwner
<1>1. Latches'
  BY <1>0, <1>g, <1>v, <1>e DEF Latches, Claims, Holds
<1>2. Providers'
  BY <1>0, <1>g, <1>v, <1>e DEF Providers, Reading
<1>3. RemoteFrames'
  BY <1>0, <1>g, <1>v, <1>e DEF RemoteFrames, Claims, Latches
<1>4. Waited'
  BY <1>0, <1>g, <1>v, <1>e, <1>c DEF Waited, Asked, Mailboxes, Mailbox,
     AskedFor
<1>5. OwnerFrame'
  BY <1>0, <1>g, <1>v, <1>e DEF OwnerFrame, Claims, Latches
<1>6. GuardsHold'
  BY <1>0, <1>g, <1>v, <1>e DEF GuardsHold, Possessed, Sufficient,
     IsPossessor, Latches, Holds
<1>7. Mailboxes'
  <2>1. ASSUME NEW v \in Worker, v # w PROVE Mailbox(v)'
    BY <1>0, <1>g, <1>v, <2>1, SameMailbox DEF Mailboxes, Latches, Claims
  <2>2. Mailbox(w)'
    BY <1>0, <1>g, <1>v, <1>m DEF Mailbox, InvalidateMail
  <2> QED
    BY <2>1, <2>2 DEF Mailboxes
<1>8. Registered'
  BY <1>0, <1>g, <1>v, <1>e, <1>m DEF Registered, Answered
<1>9. Allocation'
  BY <1>0, <1>g, <1>v, <1>e DEF Allocation
<1>10. EpochStep /\ PagesAreFresh'
  <2>1. View(n)' = View(n)
    <3>1. View(n) = ClaimView(w)
      BY <1>0, <1>g, <1>e, ClaimIsView DEF Claims
    <3>2. View(n)' = ClaimView(w)'
      BY <1>e, <1>g, <1>v DEF View, Claims
    <3> QED
      BY <1>g, <1>v, <1>m, <1>a, <1>c, <1>r, <3>1, <3>2 DEF ClaimView, RequestView,
         GrantStatus, InvalidateView, CopyOf
  <2>2. OtherViews({n}) /\ DirView' = DirView
    BY <1>0, <1>e, <1>g, <1>v, LocalViews DEF WorkerOnly
  <2> QED
    BY <1>0, <1>g, <2>1, <2>2, StutterStep DEF OtherViews
<1> QED
  BY <1>1, <1>2, <1>3, <1>4, <1>5, <1>6, <1>7, <1>8, <1>9, <1>10
     DEF Preserved, Control

(* The owner has answered that a sharer has the page: a copy request (PCR) *)
(* follows.                                                                *)
LEMMA PossessionCopySafe ==
    ASSUME SafetyInv, NEW w \in Worker, NEW n \in Node, n = NodeOf[w], CollectPossession(w),
           mail[w][Owner].resultType = "NoPageEvicted"
    PROVE  Preserved
<1>0. /\ TypeOK /\ Latches /\ Providers /\ RemoteFrames /\ Waited /\ OwnerFrame
      /\ GuardsHold /\ Mailboxes /\ Registered /\ Allocation /\ PagesAreFresh
      /\ E!EpochInv
  BY DEF SafetyInv, Control
<1>r. /\ mail[w][Owner].conflict \subseteq Node /\ mail[w][Owner].pVersion \in Nat
      /\ Answered(w, Owner)
  BY <1>0, AnsweredType DEF CollectPossession, CollectUpdate
<1>l. worker[w].pc = "request" /\ RequestMail(w) /\ latch[n].x = w
  BY <1>0 DEF CollectPossession, Mailboxes, Mailbox, Latches, Claims
<1>s. PICK src \in mail[w][Owner].conflict :
        /\ mail' = [mail EXCEPT ![w] = [k \in Node |-> IF k = src
                     THEN [type |-> "PCR", pVersion |-> mail[w][Owner].pVersion, retries |-> 0]
                     ELSE Nothing]]
        /\ worker' = [worker EXCEPT ![w].pc = "copy", ![w].peers = mail[w][Owner].conflict]
  BY DEF CollectPossession, CopyPageRnd
<1>g. /\ worker[w].pc = "request" /\ n # Owner /\ latch[n].x = w /\ frame[n].state = "IO_RDMA"
      /\ RequestMail(w) /\ mail[w][Owner] # Nothing
      /\ UNCHANGED <<latch, inflightCRs, provider, fresh, downgrading>>
      /\ src \in Node
  BY <1>l, <1>r, <1>s DEF CollectPossession, RequestMail, Answered
<1>v. /\ worker'[w].pc = "copy" /\ worker'[w].mode = worker[w].mode
      /\ worker'[w].peers = mail[w][Owner].conflict
      /\ worker'[w].pVersionOld = worker[w].pVersionOld
      /\ \A v \in Worker : v # w => worker'[v] = worker[v] /\ mail'[v] = mail[v]
      /\ \A k \in Node : k # src => mail'[w][k] = Nothing
      /\ mail'[w][src] = [type |-> "PCR", pVersion |-> mail[w][Owner].pVersion, retries |-> 0]
      /\ frame'[n].state = frame[n].state /\ frame'[n].possession = frame[n].possession
      /\ frame'[n].possessors = frame[n].possessors /\ frame'[n].pVersion = mail[w][Owner].pVersion
      /\ frame'[n].mhWaiting = frame[n].mhWaiting
      /\ \A k \in Node : k # n => frame'[k] = frame[k]
  <2>1. frame' = [frame EXCEPT ![n].pVersion = mail[w][Owner].pVersion]
    BY DEF CollectPossession
  <2> QED
    BY <1>0, <1>r, <1>s, <1>g, <2>1 DEF TypeOK, WorkerState, Frame
<1>e. PageExists /\ PageExists'
  BY <1>0, <1>g, <1>v, PageIsThere DEF PageExists
<1>m. /\ \A k \in Node : ~Answered(w, k)' /\ ~Asked(w, k, "PMR")'
      /\ Asked(w, src, "PCR")'
  BY <1>v, <1>r, NotNothing DEF Answered, Asked
<1>a. ~GotCopy(w)'
  BY <1>m DEF GotCopy
<1>c. AskedFor(w) = {}
  BY <1>g, <1>r DEF AskedFor, Asked, Answered, RequestMail, OnlyOwner
<1>1. Latches'
  BY <1>0, <1>g, <1>v, <1>e DEF Latches, Claims, Holds
<1>2. Providers'
  BY <1>0, <1>g, <1>v, <1>e DEF Providers, Reading
<1>3. RemoteFrames'
  BY <1>0, <1>g, <1>v, <1>e DEF RemoteFrames, Claims, Latches
<1>4. Waited'
  BY <1>0, <1>g, <1>v, <1>e, <1>c DEF Waited, Asked, Mailboxes, Mailbox,
     AskedFor
<1>5. OwnerFrame'
  BY <1>0, <1>g, <1>v, <1>e DEF OwnerFrame, Claims, Latches
<1>6. GuardsHold'
  BY <1>0, <1>g, <1>v, <1>e DEF GuardsHold, Possessed, Sufficient,
     IsPossessor, Latches, Holds
<1>7. Mailboxes'
  <2>1. ASSUME NEW v \in Worker, v # w PROVE Mailbox(v)'
    BY <1>0, <1>g, <1>v, <2>1, SameMailbox DEF Mailboxes, Latches, Claims
  <2>2. Mailbox(w)'
    BY <1>0, <1>g, <1>v, <1>m, <1>r, <1>s DEF Mailbox, CopyMail, RequestMail, Registered,
       Answered, Asked
  <2> QED
    BY <2>1, <2>2 DEF Mailboxes
<1>8. Registered'
  BY <1>0, <1>g, <1>v, <1>e, <1>m DEF Registered, Answered
<1>9. Allocation'
  BY <1>0, <1>g, <1>v, <1>e DEF Allocation
<1>10. EpochStep /\ PagesAreFresh'
  <2>1. View(n)' = View(n)
    <3>1. View(n) = ClaimView(w)
      BY <1>0, <1>g, <1>e, ClaimIsView DEF Claims
    <3>2. View(n)' = ClaimView(w)'
      BY <1>e, <1>g, <1>v DEF View, Claims
    <3> QED
      BY <1>g, <1>v, <1>m, <1>a, <1>c, <1>r, <3>1, <3>2 DEF ClaimView, RequestView,
         GrantStatus, CopyView, RequestMail, Answered, Asked, CopyOf
  <2>2. OtherViews({n}) /\ DirView' = DirView
    BY <1>0, <1>e, <1>g, <1>v, LocalViews DEF WorkerOnly
  <2> QED
    BY <1>0, <1>g, <2>1, <2>2, StutterStep DEF OtherViews
<1> QED
  BY <1>1, <1>2, <1>3, <1>4, <1>5, <1>6, <1>7, <1>8, <1>9, <1>10
     DEF Preserved, Control

(* The owner has answered that the page must be moved from a possessor     *)
(* (PMR).                                                                  *)
LEMMA PossessionMoveSafe ==
    ASSUME SafetyInv, NEW w \in Worker, NEW n \in Node, n = NodeOf[w], CollectPossession(w),
           mail[w][Owner].resultType \in {"NoPageSharedConflict", "NoPageExclusiveConflict"}
    PROVE  Preserved
<1>0. /\ TypeOK /\ Latches /\ Providers /\ RemoteFrames /\ Waited /\ OwnerFrame
      /\ GuardsHold /\ Mailboxes /\ Registered /\ Allocation /\ PagesAreFresh
      /\ E!EpochInv
  BY DEF SafetyInv, Control
<1>r. /\ mail[w][Owner].conflict \subseteq Node /\ mail[w][Owner].pVersion \in Nat
      /\ Answered(w, Owner)
  BY <1>0, AnsweredType DEF CollectPossession, CollectUpdate
<1>l. worker[w].pc = "request" /\ RequestMail(w) /\ latch[n].x = w
  BY <1>0 DEF CollectPossession, Mailboxes, Mailbox, Latches, Claims
<1>s. PICK src \in mail[w][Owner].conflict :
        /\ mail' = [mail EXCEPT ![w][Owner] = Nothing,
                                 ![w][src] = [type |-> "PMR", needPage |-> TRUE]]
        /\ worker' = [worker EXCEPT ![w].pc = "move",
                          ![w].peers = mail[w][Owner].conflict \ {src}]
  BY DEF CollectPossession
<1>o. Owner \notin mail[w][Owner].conflict
  <2>1. View(n) = RequestView(w)
    BY <1>0, <1>l, PageIsThere, ClaimIsView DEF Claims, ClaimView
  <2>2. Owner \notin View(n).wait
    BY <1>0, EpochFacts
  <2> QED
    BY <1>r, <2>1, <2>2 DEF RequestView, CopyOf
<1>g. /\ worker[w].pc = "request" /\ n # Owner /\ latch[n].x = w /\ frame[n].state = "IO_RDMA"
      /\ RequestMail(w) /\ mail[w][Owner] # Nothing
      /\ UNCHANGED <<latch, inflightCRs, provider, fresh, downgrading>>
      /\ src \in Node /\ src # Owner
  BY <1>l, <1>r, <1>s, <1>o DEF CollectPossession, RequestMail, Answered
<1>v. /\ worker'[w].pc = "move" /\ worker'[w].mode = worker[w].mode
      /\ worker'[w].peers = mail[w][Owner].conflict \ {src}
      /\ worker'[w].pVersionOld = worker[w].pVersionOld
      /\ \A v \in Worker : v # w => worker'[v] = worker[v] /\ mail'[v] = mail[v]
      /\ \A k \in Node : k # src => mail'[w][k] = Nothing
      /\ mail'[w][src] = [type |-> "PMR", needPage |-> TRUE]
      /\ frame'[n].state = frame[n].state /\ frame'[n].possession = frame[n].possession
      /\ frame'[n].possessors = frame[n].possessors /\ frame'[n].pVersion = mail[w][Owner].pVersion
      /\ frame'[n].mhWaiting = frame[n].mhWaiting
      /\ \A k \in Node : k # n => frame'[k] = frame[k]
  <2>1. frame' = [frame EXCEPT ![n].pVersion = mail[w][Owner].pVersion]
    BY DEF CollectPossession
  <2>2. /\ worker'[w].pc = "move" /\ worker'[w].mode = worker[w].mode
        /\ worker'[w].peers = mail[w][Owner].conflict \ {src}
        /\ worker'[w].pVersionOld = worker[w].pVersionOld
        /\ \A v \in Worker : v # w => worker'[v] = worker[v]
    BY <1>0, <1>s DEF TypeOK, WorkerState
  <2>3. /\ \A v \in Worker : v # w => mail'[v] = mail[v]
        /\ \A k \in Node : k # src => mail'[w][k] = Nothing
        /\ mail'[w][src] = [type |-> "PMR", needPage |-> TRUE]
    BY <1>0, <1>s, <1>g DEF TypeOK, RequestMail, OnlyOwner
  <2>4. /\ frame'[n].state = frame[n].state /\ frame'[n].possession = frame[n].possession
        /\ frame'[n].possessors = frame[n].possessors /\ frame'[n].pVersion = mail[w][Owner].pVersion
        /\ frame'[n].mhWaiting = frame[n].mhWaiting
        /\ \A k \in Node : k # n => frame'[k] = frame[k]
    BY <1>0, <2>1 DEF TypeOK, Frame
  <2> QED
    BY <2>2, <2>3, <2>4
<1>e. PageExists /\ PageExists'
  BY <1>0, <1>g, <1>v, PageIsThere DEF PageExists
<1>m. /\ \A k \in Node : ~Answered(w, k)' /\ (Asked(w, k, "PMR")' => k = src)
      /\ Asked(w, src, "PMR")' /\ mail'[w][src].needPage
  BY <1>v, <1>r, NotNothing DEF Answered, Asked
<1>a. AskedFor(w)' = {src}
  BY <1>g, <1>m DEF AskedFor
<1>c. AskedFor(w) = {}
  BY <1>g, <1>r DEF AskedFor, Asked, Answered, RequestMail, OnlyOwner
<1>1. Latches'
  BY <1>0, <1>g, <1>v, <1>e DEF Latches, Claims, Holds
<1>2. Providers'
  BY <1>0, <1>g, <1>v, <1>e DEF Providers, Reading
<1>3. RemoteFrames'
  BY <1>0, <1>g, <1>v, <1>e DEF RemoteFrames, Claims, Latches
<1>4. Waited'
  BY <1>0, <1>g, <1>v, <1>e, <1>c DEF Waited, Asked, Mailboxes, Mailbox,
     AskedFor
<1>5. OwnerFrame'
  BY <1>0, <1>g, <1>v, <1>e DEF OwnerFrame, Claims, Latches
<1>6. GuardsHold'
  BY <1>0, <1>g, <1>v, <1>e DEF GuardsHold, Possessed, Sufficient,
     IsPossessor, Latches, Holds
<1>7. Mailboxes'
  <2>1. ASSUME NEW v \in Worker, v # w PROVE Mailbox(v)'
    BY <1>0, <1>g, <1>v, <2>1, SameMailbox DEF Mailboxes, Latches, Claims
  <2>2. Mailbox(w)'
    BY <1>0, <1>g, <1>v, <1>m, <1>r, <1>s DEF Mailbox, MoveMail
  <2> QED
    BY <2>1, <2>2 DEF Mailboxes
<1>8. Registered'
  BY <1>0, <1>g, <1>v, <1>e, <1>m DEF Registered, Answered
<1>9. Allocation'
  BY <1>0, <1>g, <1>v, <1>e DEF Allocation
<1>10. EpochStep /\ PagesAreFresh'
  <2>1. View(n)' = View(n)
    <3>1. View(n) = ClaimView(w)
      BY <1>0, <1>g, <1>e, ClaimIsView DEF Claims
    <3>2. View(n)' = ClaimView(w)'
      BY <1>e, <1>g, <1>v DEF View, Claims
    <3>3. (mail[w][Owner].conflict \ {src}) \cup {src} = mail[w][Owner].conflict
      BY <1>s
    <3>4. ClaimView(w) = CopyOf("moving", mail[w][Owner].pVersion, worker[w].mode,
                                mail[w][Owner].conflict)
      BY <1>g, <1>r DEF ClaimView, RequestView, GrantStatus
    <3>5. MoveView(w)' = CopyOf("moving", mail[w][Owner].pVersion, worker[w].mode,
                                mail[w][Owner].conflict)
      BY <1>v, <1>m, <1>a, <3>3 DEF MoveView, CopyOf
    <3>6. ClaimView(w)' = MoveView(w)'
      BY <1>v DEF ClaimView
    <3> QED
      BY <3>1, <3>2, <3>4, <3>5, <3>6
  <2>2. OtherViews({n}) /\ DirView' = DirView
    BY <1>0, <1>e, <1>g, <1>v, LocalViews DEF WorkerOnly
  <2> QED
    BY <1>0, <1>g, <2>1, <2>2, StutterStep DEF OtherViews
<1> QED
  BY <1>1, <1>2, <1>3, <1>4, <1>5, <1>6, <1>7, <1>8, <1>9, <1>10
     DEF Preserved, Control

(* A copy request of a remote node failed and an invalidation waits        *)
(* (mhWaiting): fix releases the latch.                                    *)
LEMMA CopyStoppedSafe ==
    ASSUME SafetyInv, NEW w \in Worker, NEW n \in Node, n = NodeOf[w], NEW src \in Node,
           n # Owner, frame[n].mhWaiting, StopsCopying(w, n, src)
    PROVE  Preserved
<1>0. /\ TypeOK /\ Latches /\ Providers /\ RemoteFrames /\ Waited /\ OwnerFrame
      /\ GuardsHold /\ Mailboxes /\ Registered /\ Allocation /\ PagesAreFresh
      /\ E!EpochInv
  BY DEF SafetyInv, Control
<1>l. /\ PageExists /\ CopyMail(w) /\ AskedFor(w) = {} /\ ~GotCopy(w)
      /\ \A k \in Node : k # src => mail[w][k] = Nothing
      /\ latch[n].x = w /\ latch[n].s = {}
      /\ worker[w].peers \subseteq Node /\ frame[n].pVersion \in Nat
      /\ View(n) = CopyOf("copying", frame[n].pVersion, "SHARED", worker[w].peers)
  BY <1>0, CopyFailsFacts DEF StopsCopying, RetriesCopy
<1>g. /\ worker[w].pc = "copy" /\ n # Owner /\ frame[n].mhWaiting /\ frame[n].state = "IO_RDMA"
      /\ latch[n].x = w /\ latch[n].s = {}
      /\ UNCHANGED <<frame, downgrading, inflightCRs, provider, fresh>>
  BY <1>l DEF CopyMail, StopsCopying, CopyFails
<1>v. /\ worker'[w].pc = "fix" /\ worker'[w].mode = worker[w].mode
      /\ worker'[w].peers = {} /\ worker'[w].pVersionOld = worker[w].pVersionOld
      /\ \A v \in Worker : v # w => worker'[v] = worker[v] /\ mail'[v] = mail[v]
      /\ \A k \in Node : mail'[w][k] = Nothing
      /\ \A k \in Node : k # n => latch'[k] = latch[k]
      /\ latch'[n].x = NoOne /\ latch'[n].s = latch[n].s
  <2>1. /\ \A k \in Node : mail'[w][k] = Nothing
        /\ \A v \in Worker : v # w => mail'[v] = mail[v]
    BY <1>0, <1>l, AskFacts DEF StopsCopying
  <2>2. /\ \A k \in Node : k # n => latch'[k] = latch[k]
        /\ latch'[n].x = NoOne /\ latch'[n].s = latch[n].s
    BY <1>0 DEF StopsCopying, UnlatchExclusive, TypeOK, Latch
  <2> QED
    BY <1>0, <2>1, <2>2 DEF StopsCopying, TypeOK, WorkerState
<1>e. PageExists /\ PageExists'
  BY <1>l, <1>g, <1>v DEF PageExists
<1>1. Latches'
  BY <1>0, <1>g, <1>v, <1>e DEF Latches, Claims, Holds
<1>2. Providers'
  BY <1>0, <1>g, <1>v, <1>e DEF Providers, Reading
<1>3. RemoteFrames'
  BY <1>0, <1>g, <1>v, <1>e DEF RemoteFrames, Claims, Latches
<1>4. Waited'
  BY <1>0, <1>g, <1>v, <1>e, <1>l DEF Waited, Asked, Mailboxes, Mailbox,
     AskedFor
<1>5. OwnerFrame'
  BY <1>0, <1>g, <1>v, <1>e DEF OwnerFrame, Claims, Latches
<1>6. GuardsHold'
  BY <1>0, <1>g, <1>v, <1>e DEF GuardsHold, Possessed, Sufficient,
     IsPossessor, Latches, Holds, Claims
<1>7. Mailboxes'
  <2>1. ASSUME NEW v \in Worker, v # w PROVE Mailbox(v)'
    BY <1>0, <1>g, <1>v, <2>1, SameMailbox DEF Mailboxes, Latches, Claims
  <2>2. Mailbox(w)'
    BY <1>v DEF Mailbox
  <2> QED
    BY <2>1, <2>2 DEF Mailboxes
<1>8. Registered'
  BY <1>0, <1>g, <1>v, <1>e DEF Registered, Answered
<1>9. Allocation'
  BY <1>0, <1>g, <1>v, <1>e DEF Allocation
<1>10. EpochStep /\ PagesAreFresh'
  <2>1. View(n)' = CopyOf("copying", frame[n].pVersion, "SHARED", {})
    BY <1>0, <1>e, <1>g, <1>v DEF View, FrameView
  <2>2. OtherViews({n}) /\ DirView' = DirView
    BY SMTT(30), <1>0, <1>e, <1>g, <1>v, LocalViews DEF WorkerOnly
  <2>3. EpochStep
    BY <1>g, <1>l, <2>1, <2>2, StepStopCopying DEF CopyOf
  <2> QED
    BY <1>0, <1>g, <2>1, <2>2, <2>3 DEF OtherViews, PagesAreFresh, CopyOf
<1> QED
  BY <1>1, <1>2, <1>3, <1>4, <1>5, <1>6, <1>7, <1>8, <1>9, <1>10
     DEF Preserved, Control

(* The same at the owner: its frame does not list it as a possessor yet, so *)
(* it leaves no trace.                                                     *)
LEMMA OwnerCopyStoppedSafe ==
    ASSUME SafetyInv, NEW w \in Worker, NEW n \in Node, n = NodeOf[w], NEW src \in Node,
           n = Owner, StopsCopying(w, n, src)
    PROVE  Preserved
<1>0. /\ TypeOK /\ Latches /\ Providers /\ RemoteFrames /\ Waited /\ OwnerFrame
      /\ GuardsHold /\ Mailboxes /\ Registered /\ Allocation /\ PagesAreFresh
      /\ E!EpochInv
  BY DEF SafetyInv, Control
<1>l. /\ PageExists /\ CopyMail(w) /\ AskedFor(w) = {} /\ ~GotCopy(w)
      /\ \A k \in Node : k # src => mail[w][k] = Nothing
      /\ latch[n].x = w /\ latch[n].s = {}
      /\ worker[w].peers \subseteq Node /\ frame[n].pVersion \in Nat
      /\ View(n) = CopyOf("copying", frame[n].pVersion, "SHARED", worker[w].peers)
  BY <1>0, CopyFailsFacts DEF StopsCopying, RetriesCopy
<1>g. /\ worker[w].pc = "copy" /\ n = Owner /\ Owner \notin frame[n].possessors
      /\ frame[n].possession = "SHARED"
      /\ latch[n].x = w /\ latch[n].s = {}
      /\ UNCHANGED <<frame, downgrading, inflightCRs, provider, fresh>>
  BY <1>0, <1>l DEF OwnerFrame, Claims, StopsCopying, CopyFails
<1>v. /\ worker'[w].pc = "fix" /\ worker'[w].mode = worker[w].mode
      /\ worker'[w].peers = {} /\ worker'[w].pVersionOld = worker[w].pVersionOld
      /\ \A v \in Worker : v # w => worker'[v] = worker[v] /\ mail'[v] = mail[v]
      /\ \A k \in Node : mail'[w][k] = Nothing
      /\ \A k \in Node : k # n => latch'[k] = latch[k]
      /\ latch'[n].x = NoOne /\ latch'[n].s = latch[n].s
  <2>1. /\ \A k \in Node : mail'[w][k] = Nothing
        /\ \A v \in Worker : v # w => mail'[v] = mail[v]
    BY <1>0, <1>l, AskFacts DEF StopsCopying
  <2>2. /\ \A k \in Node : k # n => latch'[k] = latch[k]
        /\ latch'[n].x = NoOne /\ latch'[n].s = latch[n].s
    BY <1>0 DEF StopsCopying, UnlatchExclusive, TypeOK, Latch
  <2> QED
    BY <1>0, <2>1, <2>2 DEF StopsCopying, TypeOK, WorkerState
<1>e. PageExists /\ PageExists'
  BY <1>l, <1>g, <1>v DEF PageExists
<1>1. Latches'
  BY <1>0, <1>g, <1>v, <1>e DEF Latches, Claims, Holds
<1>2. Providers'
  BY <1>0, <1>g, <1>v, <1>e DEF Providers, Reading
<1>3. RemoteFrames'
  BY <1>0, <1>g, <1>v, <1>e DEF RemoteFrames, Claims, Latches
<1>4. Waited'
  BY <1>0, <1>g, <1>v, <1>e, <1>l DEF Waited, Asked, Mailboxes, Mailbox,
     AskedFor
<1>5. OwnerFrame'
  BY <1>0, <1>g, <1>v, <1>e DEF OwnerFrame, Claims, Latches
<1>6. GuardsHold'
  BY <1>0, <1>g, <1>v, <1>e DEF GuardsHold, Possessed, Sufficient,
     IsPossessor, Latches, Holds, Claims
<1>7. Mailboxes'
  <2>1. ASSUME NEW v \in Worker, v # w PROVE Mailbox(v)'
    BY <1>0, <1>g, <1>v, <2>1, SameMailbox DEF Mailboxes, Latches, Claims
  <2>2. Mailbox(w)'
    BY <1>v DEF Mailbox
  <2> QED
    BY <2>1, <2>2 DEF Mailboxes
<1>8. Registered'
  BY <1>0, <1>g, <1>v, <1>e DEF Registered, Answered
<1>9. Allocation'
  BY <1>0, <1>g, <1>v, <1>e DEF Allocation
<1>10. EpochStep /\ PagesAreFresh'
  <2>1. View(n)' = NoCopy
    BY <1>0, <1>e, <1>g, <1>v DEF View, OwnerView
  <2>2. OtherViews({n})
    BY <1>0, <1>e, <1>g, <1>v, LocalViews DEF WorkerOnly
  <2>3. DirView = DirOf("SHARED", frame[n].possessors \cup {Owner})
    BY <1>e, <1>g DEF DirView
  <2>4. DirView' = DirOf("SHARED", frame[n].possessors)
    BY <1>e, <1>g, <1>v DEF DirView, DirOf
  <2>5. DirView' = [DirView EXCEPT !.nodes = @ \ {Owner}]
    <3>1. (frame[n].possessors \cup {Owner}) \ {Owner} = frame[n].possessors
      BY <1>g
    <3> QED
      BY SMTT(30), <2>3, <2>4, <3>1 DEF DirOf
  <2>6. DirView.nodes # {Owner}
    BY <1>0, <1>g, <1>l, <2>3, EpochFacts DEF Has, CopyOf, DirOf
  <2>7. EpochStep
    BY <1>g, <1>l, <2>1, <2>2, <2>3, <2>5, <2>6, StepOwnerLeaves DEF CopyOf, DirOf
  <2> QED
    BY <1>0, <1>g, <2>1, <2>2, <2>7 DEF OtherViews, PagesAreFresh, CopyOf, NoCopy
<1> QED
  BY <1>1, <1>2, <1>3, <1>4, <1>5, <1>6, <1>7, <1>8, <1>9, <1>10
     DEF Preserved, Control

(* A copy request failed and is sent again, to any sharer. *)
LEMMA CopyRetriedSafe ==
    ASSUME SafetyInv, NEW w \in Worker, NEW n \in Node, n = NodeOf[w], NEW src \in Node,
           n # Owner, RetriesCopy(w, n, src)
    PROVE  Preserved
<1>0. /\ TypeOK /\ Latches /\ Providers /\ RemoteFrames /\ Waited /\ OwnerFrame
      /\ GuardsHold /\ Mailboxes /\ Registered /\ Allocation /\ PagesAreFresh
      /\ E!EpochInv
  BY DEF SafetyInv, Control
<1>l. /\ PageExists /\ CopyMail(w) /\ AskedFor(w) = {} /\ ~GotCopy(w)
      /\ \A k \in Node : k # src => mail[w][k] = Nothing
      /\ latch[n].x = w /\ latch[n].s = {}
      /\ worker[w].peers \subseteq Node /\ frame[n].pVersion \in Nat
      /\ View(n) = CopyOf("copying", frame[n].pVersion, "SHARED", worker[w].peers)
  BY <1>0, CopyFailsFacts DEF StopsCopying, RetriesCopy
<1>s. PICK new \in worker[w].peers :
        /\ mail' = [mail EXCEPT ![w] = [k \in Node |-> IF k = new
                     THEN [type |-> "PCR", pVersion |-> frame[n].pVersion, retries |-> 0]
                     ELSE Nothing]]
        /\ worker' = [worker EXCEPT ![w].pc = "copy", ![w].peers = worker[w].peers]
  BY DEF RetriesCopy, CopyPageRnd
<1>g. /\ worker[w].pc = "copy" /\ n # Owner /\ new \in Node
      /\ latch[n].x = w
      /\ UNCHANGED <<frame, latch, downgrading, inflightCRs, provider, fresh>>
  BY <1>l, <1>s DEF RetriesCopy, CopyFails
<1>v. /\ worker'[w].pc = "copy" /\ worker'[w].mode = worker[w].mode
      /\ worker'[w].peers = worker[w].peers /\ worker'[w].pVersionOld = worker[w].pVersionOld
      /\ \A v \in Worker : v # w => worker'[v] = worker[v] /\ mail'[v] = mail[v]
      /\ \A k \in Node : k # new => mail'[w][k] = Nothing
      /\ mail'[w][new] = [type |-> "PCR", pVersion |-> frame[n].pVersion, retries |-> 0]
  BY <1>0, <1>g, <1>s DEF TypeOK, WorkerState
<1>e. PageExists /\ PageExists'
  BY <1>l, <1>g, <1>v DEF PageExists
<1>m. /\ \A k \in Node : ~Answered(w, k)' /\ ~Asked(w, k, "PMR")'
      /\ Asked(w, new, "PCR")'
  BY <1>v, <1>l, NotNothing DEF Answered, Asked
<1>a. ~GotCopy(w)' /\ ~GotCopy(w)
  BY <1>l, <1>m DEF GotCopy
<1>1. Latches'
  BY <1>0, <1>g, <1>v, <1>e DEF Latches, Claims, Holds
<1>2. Providers'
  BY <1>0, <1>g, <1>v, <1>e DEF Providers, Reading
<1>3. RemoteFrames'
  BY <1>0, <1>g, <1>v, <1>e DEF RemoteFrames, Claims, Latches
<1>4. Waited'
  BY <1>0, <1>g, <1>v, <1>e, <1>l DEF Waited, Asked, Mailboxes, Mailbox,
     AskedFor
<1>5. OwnerFrame'
  BY <1>0, <1>g, <1>v, <1>e DEF OwnerFrame, Claims, Latches
<1>6. GuardsHold'
  BY <1>0, <1>g, <1>v, <1>e DEF GuardsHold, Possessed, Sufficient,
     IsPossessor, Latches, Holds
<1>7. Mailboxes'
  <2>1. ASSUME NEW v \in Worker, v # w PROVE Mailbox(v)'
    BY <1>0, <1>g, <1>v, <2>1, SameMailbox DEF Mailboxes, Latches, Claims
  <2>2. Mailbox(w)'
    BY <1>0, <1>g, <1>v, <1>l, <1>m, <1>a, <1>s DEF Mailbox, CopyMail
  <2> QED
    BY <2>1, <2>2 DEF Mailboxes
<1>8. Registered'
  BY <1>0, <1>g, <1>v, <1>e, <1>m DEF Registered, Answered
<1>9. Allocation'
  BY <1>0, <1>g, <1>v, <1>e DEF Allocation
<1>10. EpochStep /\ PagesAreFresh'
  <2>1. View(n)' = View(n)
    <3>1. View(n)' = ClaimView(w)'
      BY <1>e, <1>g, <1>v DEF View, Claims
    <3> QED
      BY <1>g, <1>v, <1>a, <1>l, <3>1 DEF ClaimView, CopyView, CopyOf
  <2>2. OtherViews({n}) /\ DirView' = DirView
    BY <1>0, <1>e, <1>g, <1>v, LocalViews DEF WorkerOnly
  <2> QED
    BY <1>0, <1>g, <2>1, <2>2, StutterStep DEF OtherViews
<1> QED
  BY <1>1, <1>2, <1>3, <1>4, <1>5, <1>6, <1>7, <1>8, <1>9, <1>10
     DEF Preserved, Control

(* The upgrade was refused: the old version is restored and the latch      *)
(* released.                                                               *)
LEMMA UpdateFailedSafe ==
    ASSUME SafetyInv, NEW w \in Worker, NEW n \in Node, n = NodeOf[w], CollectUpdate(w),
           mail[w][Owner].resultType = "UpdateFailed"
    PROVE  Preserved
<1>0. /\ TypeOK /\ Latches /\ Providers /\ RemoteFrames /\ Waited /\ OwnerFrame
      /\ GuardsHold /\ Mailboxes /\ Registered /\ Allocation /\ PagesAreFresh
      /\ E!EpochInv
  BY DEF SafetyInv, Control
<1>r. /\ mail[w][Owner].conflict \subseteq Node /\ mail[w][Owner].pVersion \in Nat
      /\ Answered(w, Owner)
  BY <1>0, AnsweredType DEF CollectPossession, CollectUpdate
<1>l. worker[w].pc = "update" /\ UpdateMail(w) /\ latch[n].x = w /\ latch[n].s = {}
  BY <1>0 DEF CollectUpdate, Mailboxes, Mailbox, Latches, Claims
<1>c. AskedFor(w) = {}
  BY <1>l, <1>r DEF AskedFor, Asked, Answered, UpdateMail, OnlyOwner
<1>g. /\ worker[w].pc = "update" /\ n # Owner /\ latch[n].x = w /\ latch[n].s = {}
      /\ frame[n].state = "HOT" /\ frame[n].possession = "SHARED" /\ worker[w].mode = "EXCLUSIVE"
      /\ UNCHANGED <<downgrading, inflightCRs, provider, fresh>>
  BY <1>l DEF CollectUpdate, UpdateMail
<1>v. /\ worker'[w].pc = "fix" /\ worker'[w].mode = worker[w].mode
      /\ worker'[w].peers = worker[w].peers /\ worker'[w].pVersionOld = 0
      /\ \A v \in Worker : v # w => worker'[v] = worker[v] /\ mail'[v] = mail[v]
      /\ \A k \in Node : mail'[w][k] = Nothing
      /\ frame'[n].state = frame[n].state /\ frame'[n].possession = frame[n].possession
      /\ frame'[n].possessors = frame[n].possessors /\ frame'[n].pVersion = worker[w].pVersionOld
      /\ frame'[n].mhWaiting = frame[n].mhWaiting
      /\ \A k \in Node : k # n => frame'[k] = frame[k]
      /\ \A k \in Node : k # n => latch'[k] = latch[k]
      /\ latch'[n].x = NoOne /\ latch'[n].s = latch[n].s
  <2>1. /\ frame' = [frame EXCEPT ![n].pVersion = worker[w].pVersionOld]
        /\ UnlatchExclusive(n) /\ AskOne(w, Owner, Nothing)
        /\ worker' = [worker EXCEPT ![w].pc = "fix", ![w].pVersionOld = 0]
    BY <1>l DEF CollectUpdate
  <2>2. \A k \in Node : mail'[w][k] = Nothing
    BY <1>0, <1>l, <2>1, AskFacts DEF UpdateMail, OnlyOwner
  <2>3. \A v \in Worker : v # w => mail'[v] = mail[v]
    BY <1>0, <2>1, AskFacts
  <2>4. /\ \A k \in Node : k # n => latch'[k] = latch[k]
        /\ latch'[n].x = NoOne /\ latch'[n].s = latch[n].s
    BY <1>0, <2>1 DEF UnlatchExclusive, TypeOK, Latch
  <2> QED
    BY <1>0, <2>1, <2>2, <2>3, <2>4 DEF TypeOK, WorkerState, Frame
<1>e. PageExists /\ PageExists'
  BY <1>0, <1>g, <1>v, PageIsThere DEF PageExists
<1>1. Latches'
  BY <1>0, <1>g, <1>v, <1>e DEF Latches, Claims, Holds
<1>2. Providers'
  BY <1>0, <1>g, <1>v, <1>e DEF Providers, Reading
<1>3. RemoteFrames'
  BY <1>0, <1>g, <1>v, <1>e DEF RemoteFrames, Claims, Latches
<1>4. Waited'
  BY <1>0, <1>g, <1>v, <1>e, <1>c DEF Waited, Asked, Mailboxes, Mailbox,
     AskedFor
<1>5. OwnerFrame'
  BY <1>0, <1>g, <1>v, <1>e DEF OwnerFrame, Claims, Latches
<1>6. GuardsHold'
  BY <1>0, <1>g, <1>v, <1>e DEF GuardsHold, Possessed, Sufficient,
     IsPossessor, Latches, Holds, Claims
<1>7. Mailboxes'
  <2>1. ASSUME NEW v \in Worker, v # w PROVE Mailbox(v)'
    BY <1>0, <1>g, <1>v, <2>1, SameMailbox DEF Mailboxes, Latches, Claims
  <2>2. Mailbox(w)'
    BY <1>v DEF Mailbox
  <2> QED
    BY <2>1, <2>2 DEF Mailboxes
<1>8. Registered'
  BY <1>0, <1>g, <1>v, <1>e DEF Registered, Answered
<1>9. Allocation'
  BY <1>0, <1>g, <1>v, <1>e DEF Allocation
<1>10. EpochStep /\ PagesAreFresh'
  <2>1. View(n)' = View(n)
    <3>1. View(n) = CopyOf("page", worker[w].pVersionOld, "SHARED", {})
      BY <1>0, <1>g, <1>e, ClaimIsView DEF Claims, ClaimView, UpdateView
    <3> QED
      BY <1>0, <1>e, <1>g, <1>v, <3>1 DEF View, FrameView, Providers
  <2>2. OtherViews({n}) /\ DirView' = DirView
    BY <1>0, <1>e, <1>g, <1>v, LocalViews DEF WorkerOnly
  <2> QED
    BY <1>0, <1>g, <2>1, <2>2, StutterStep DEF OtherViews
<1> QED
  BY <1>1, <1>2, <1>3, <1>4, <1>5, <1>6, <1>7, <1>8, <1>9, <1>10
     DEF Preserved, Control

(* The upgrade was granted: the other sharers are asked to give up their   *)
(* copies.                                                                 *)
LEMMA UpdateGrantedSafe ==
    ASSUME SafetyInv, NEW w \in Worker, NEW n \in Node, n = NodeOf[w], CollectUpdate(w),
           mail[w][Owner].resultType = "UpdateSucceedWithSharedConflict"
    PROVE  Preserved
<1>0. /\ TypeOK /\ Latches /\ Providers /\ RemoteFrames /\ Waited /\ OwnerFrame
      /\ GuardsHold /\ Mailboxes /\ Registered /\ Allocation /\ PagesAreFresh
      /\ E!EpochInv
  BY DEF SafetyInv, Control
<1>r. /\ mail[w][Owner].conflict \subseteq Node /\ mail[w][Owner].pVersion \in Nat
      /\ Answered(w, Owner)
  BY <1>0, AnsweredType DEF CollectPossession, CollectUpdate
<1>l. worker[w].pc = "update" /\ UpdateMail(w) /\ latch[n].x = w /\ latch[n].s = {}
  BY <1>0 DEF CollectUpdate, Mailboxes, Mailbox, Latches, Claims
<1>c. AskedFor(w) = {}
  BY <1>l, <1>r DEF AskedFor, Asked, Answered, UpdateMail, OnlyOwner
<1>g. /\ worker[w].pc = "update" /\ n # Owner /\ latch[n].x = w /\ latch[n].s = {}
      /\ frame[n].state = "HOT" /\ frame[n].possession = "SHARED" /\ worker[w].mode = "EXCLUSIVE"
      /\ UNCHANGED <<downgrading, inflightCRs, provider, fresh>>
      /\ UNCHANGED <<latch>>
  BY <1>l DEF CollectUpdate, UpdateMail
<1>v. /\ worker'[w].pc = "invalidate" /\ worker'[w].mode = worker[w].mode
      /\ worker'[w].peers = mail[w][Owner].conflict \ {n}
      /\ worker'[w].pVersionOld = worker[w].pVersionOld
      /\ \A v \in Worker : v # w => worker'[v] = worker[v] /\ mail'[v] = mail[v]
      /\ \A k \in Node : mail'[w][k] = IF k \in mail[w][Owner].conflict \ {n}
                             THEN [type |-> "PMR", needPage |-> FALSE] ELSE Nothing
      /\ frame'[n].state = frame[n].state /\ frame'[n].possession = frame[n].possession
      /\ frame'[n].possessors = frame[n].possessors /\ frame'[n].pVersion = mail[w][Owner].pVersion
      /\ frame'[n].mhWaiting = frame[n].mhWaiting
      /\ \A k \in Node : k # n => frame'[k] = frame[k]
  BY <1>0, <1>r DEF CollectUpdate, InvalidateSharedConflicts, Invalidating,
     TypeOK, WorkerState, Frame
<1>e. PageExists /\ PageExists'
  BY <1>0, <1>g, <1>v, PageIsThere DEF PageExists
<1>m. \A k \in Node : /\ ~Answered(w, k)'
                      /\ Asked(w, k, "PMR")' <=> k \in mail[w][Owner].conflict \ {n}
                      /\ k \in mail[w][Owner].conflict \ {n} => ~mail'[w][k].needPage
  BY <1>v, NotNothing DEF Answered, Asked
<1>a. AskedFor(w)' = mail[w][Owner].conflict \ {n}
  BY <1>r, <1>m DEF AskedFor
<1>1. Latches'
  BY <1>0, <1>g, <1>v, <1>e DEF Latches, Claims, Holds
<1>2. Providers'
  BY <1>0, <1>g, <1>v, <1>e DEF Providers, Reading
<1>3. RemoteFrames'
  BY <1>0, <1>g, <1>v, <1>e DEF RemoteFrames, Claims, Latches
<1>4. Waited'
  BY <1>0, <1>g, <1>v, <1>e, <1>c DEF Waited, Asked, Mailboxes, Mailbox,
     AskedFor
<1>5. OwnerFrame'
  BY <1>0, <1>g, <1>v, <1>e DEF OwnerFrame, Claims, Latches
<1>6. GuardsHold'
  BY <1>0, <1>g, <1>v, <1>e DEF GuardsHold, Possessed, Sufficient,
     IsPossessor, Latches, Holds, Claims
<1>7. Mailboxes'
  <2>1. ASSUME NEW v \in Worker, v # w PROVE Mailbox(v)'
    BY <1>0, <1>g, <1>v, <2>1, SameMailbox DEF Mailboxes, Latches, Claims
  <2>2. Mailbox(w)'
    BY <1>0, <1>g, <1>v, <1>m DEF Mailbox, InvalidateMail
  <2> QED
    BY <2>1, <2>2 DEF Mailboxes
<1>8. Registered'
  BY <1>0, <1>g, <1>v, <1>e, <1>m DEF Registered, Answered
<1>9. Allocation'
  BY <1>0, <1>g, <1>v, <1>e DEF Allocation
<1>10. EpochStep /\ PagesAreFresh'
  <2>1. View(n)' = View(n)
    <3>1. View(n) = UpdateView(w)
      BY <1>0, <1>g, <1>e, ClaimIsView DEF Claims, ClaimView
    <3>2. View(n)' = InvalidateView(w)'
      BY <1>e, <1>g, <1>v DEF View, Claims, ClaimView
    <3>3. UpdateView(w) = CopyOf("page", mail[w][Owner].pVersion, "EXCLUSIVE",
                                 mail[w][Owner].conflict \ {n})
      BY <1>r DEF UpdateView
    <3>4. InvalidateView(w)' = CopyOf("page", mail[w][Owner].pVersion, "EXCLUSIVE",
                                 mail[w][Owner].conflict \ {n})
      BY <1>g, <1>v, <1>a DEF InvalidateView, CopyOf
    <3> QED
      BY <3>1, <3>2, <3>3, <3>4
  <2>2. OtherViews({n}) /\ DirView' = DirView
    BY <1>0, <1>e, <1>g, <1>v, LocalViews DEF WorkerOnly
  <2> QED
    BY <1>0, <1>g, <2>1, <2>2, StutterStep DEF OtherViews
<1> QED
  BY <1>1, <1>2, <1>3, <1>4, <1>5, <1>6, <1>7, <1>8, <1>9, <1>10
     DEF Preserved, Control

-----------------------------------------------------------------------------
(* Requests that are put off, and evictions that change no view *)

(* The owner's frame is latched: its handler puts the request off. *)
LEMMA RetryPossessionRequestSafe ==
    ASSUME SafetyInv, NEW w \in Worker, RetryPossessionRequest(w)
    PROVE  Preserved
<1>0. /\ TypeOK /\ Latches /\ Providers /\ RemoteFrames /\ Waited /\ OwnerFrame
      /\ GuardsHold /\ Mailboxes /\ Registered /\ Allocation /\ PagesAreFresh
      /\ E!EpochInv
  BY DEF SafetyInv, Control
<1>l. worker[w].pc = "request" /\ ~Answered(w, Owner)
  BY <1>0, WhoAsks DEF RetryPossessionRequest, Answered, Asked
<1>g. /\ worker[w].pc = "request" /\ ~Answered(w, Owner)
      /\ UNCHANGED <<frame, latch, worker, mail, provider, fresh, downgrading>>
  BY <1>l DEF RetryPossessionRequest
<1>v. /\ inflightCRs' = inflightCRs \ {w}
  BY DEF RetryPossessionRequest, ForgetCopyRequest
<1>e. PageExists /\ PageExists'
  BY <1>0, <1>g, <1>v, PageIsThere DEF PageExists
<1>1. Latches'
  BY <1>0, <1>g, <1>v, <1>e DEF Latches, Claims, Holds
<1>2. Providers'
  BY <1>0, <1>g, <1>v, <1>e DEF Providers, Reading
<1>3. RemoteFrames'
  BY <1>0, <1>g, <1>v, <1>e DEF RemoteFrames, Claims, Latches
<1>4. Waited'
  BY <1>0, <1>g, <1>v, <1>e DEF Waited, Asked, Mailboxes, Mailbox
<1>5. OwnerFrame'
  BY <1>0, <1>g, <1>v, <1>e DEF OwnerFrame, Claims, Latches
<1>6. GuardsHold'
  BY <1>0, <1>g, <1>v, <1>e DEF GuardsHold, Possessed, Sufficient,
     IsPossessor, Latches, Holds
<1>7. Mailboxes'
  <2>1. ASSUME NEW v \in Worker PROVE Mailbox(v)'
    BY <1>0, <1>g, <1>v, <2>1, SameMailbox DEF Mailboxes, Latches, Claims
  <2> QED
    BY <2>1 DEF Mailboxes
<1>8. Registered'
  BY <1>0, <1>g, <1>v, <1>e DEF Registered, Answered
<1>9. Allocation'
  BY <1>0, <1>g, <1>v, <1>e DEF Allocation
<1>10. EpochStep /\ PagesAreFresh'
  <2>1. ASSUME NEW k \in Node PROVE SameFrame(k) /\ SameHolder(k)
    BY <1>0, <1>g, <1>v, <2>1 DEF SameFrame, SameHolder, Latches, Claims, Holds
  <2>2. SameReading
    BY <1>g DEF SameReading, Reading
  <2>3. DirView' = DirView /\ OtherViews({})
    BY <1>0, <1>e, <1>g, <2>1, <2>2, AllSame
  <2> QED
    BY <1>0, <1>g, <2>3, StutterStep
<1> QED
  BY <1>1, <1>2, <1>3, <1>4, <1>5, <1>6, <1>7, <1>8, <1>9, <1>10
     DEF Preserved, Control

(* The owner's frame is latched: the upgrade is put off and announced in   *)
(* mhWaiting.                                                              *)
LEMMA RetryPURSafe ==
    ASSUME SafetyInv, NEW w \in Worker, RetryPUR(w)
    PROVE  Preserved
<1>0. /\ TypeOK /\ Latches /\ Providers /\ RemoteFrames /\ Waited /\ OwnerFrame
      /\ GuardsHold /\ Mailboxes /\ Registered /\ Allocation /\ PagesAreFresh
      /\ E!EpochInv
  BY DEF SafetyInv, Control
<1>l. worker[w].pc = "update" /\ ~Answered(w, Owner)
  BY <1>0, WhoAsks DEF RetryPUR, Answered, Asked
<1>g. /\ worker[w].pc = "update" /\ ~Answered(w, Owner)
      /\ UNCHANGED <<latch, worker, mail, provider, fresh, downgrading>>
  BY <1>l DEF RetryPUR
<1>v. /\ inflightCRs' = inflightCRs \ {w}
      /\ frame'[Owner].state = frame[Owner].state
      /\ frame'[Owner].possession = frame[Owner].possession
      /\ frame'[Owner].possessors = frame[Owner].possessors
      /\ frame'[Owner].pVersion = frame[Owner].pVersion
      /\ frame'[Owner].mhWaiting = TRUE
      /\ \A k \in Node : k # Owner => frame'[k] = frame[k]
  BY <1>0 DEF RetryPUR, ForgetCopyRequest, TypeOK, Frame
<1>e. PageExists /\ PageExists'
  BY <1>0, <1>g, <1>v, PageIsThere DEF PageExists
<1>1. Latches'
  BY <1>0, <1>g, <1>v, <1>e DEF Latches, Claims, Holds
<1>2. Providers'
  BY <1>0, <1>g, <1>v, <1>e DEF Providers, Reading
<1>3. RemoteFrames'
  BY <1>0, <1>g, <1>v, <1>e DEF RemoteFrames, Claims, Latches
<1>4. Waited'
  BY <1>0, <1>g, <1>v, <1>e DEF Waited, Asked, Mailboxes, Mailbox
<1>5. OwnerFrame'
  BY <1>0, <1>g, <1>v, <1>e DEF OwnerFrame, Claims, Latches
<1>6. GuardsHold'
  BY <1>0, <1>g, <1>v, <1>e DEF GuardsHold, Possessed, Sufficient,
     IsPossessor, Latches, Holds
<1>7. Mailboxes'
  <2>1. ASSUME NEW v \in Worker PROVE Mailbox(v)'
    BY <1>0, <1>g, <1>v, <2>1, SameMailbox DEF Mailboxes, Latches, Claims
  <2> QED
    BY <2>1 DEF Mailboxes
<1>8. Registered'
  BY <1>0, <1>g, <1>v, <1>e DEF Registered, Answered
<1>9. Allocation'
  BY <1>0, <1>g, <1>v, <1>e DEF Allocation
<1>10. EpochStep /\ PagesAreFresh'
  <2>1. ASSUME NEW k \in Node PROVE SameFrame(k) /\ SameHolder(k)
    BY <1>0, <1>g, <1>v, <2>1 DEF SameFrame, SameHolder, Latches, Claims, Holds
  <2>2. SameReading
    BY <1>g DEF SameReading, Reading
  <2>3. DirView' = DirView /\ OtherViews({})
    BY <1>0, <1>e, <1>g, <2>1, <2>2, AllSame
  <2> QED
    BY <1>0, <1>g, <2>3, StutterStep
<1> QED
  BY <1>1, <1>2, <1>3, <1>4, <1>5, <1>6, <1>7, <1>8, <1>9, <1>10
     DEF Preserved, Control

(* The holder's frame is latched: the invalidation is put off and          *)
(* announced in mhWaiting.                                                 *)
LEMMA RetryPMRSafe ==
    ASSUME SafetyInv, NEW w \in Worker, NEW n \in Node, RetryPMR(w, n)
    PROVE  Preserved
<1>0. /\ TypeOK /\ Latches /\ Providers /\ RemoteFrames /\ Waited /\ OwnerFrame
      /\ GuardsHold /\ Mailboxes /\ Registered /\ Allocation /\ PagesAreFresh
      /\ E!EpochInv
  BY DEF SafetyInv, Control
<1>l. Asked(w, n, "PMR") /\ ~mail[w][n].needPage /\ worker[w].pc = "invalidate"
  BY <1>0, WhoAsks DEF RetryPMR
<1>g. /\ Asked(w, n, "PMR") /\ ~mail[w][n].needPage /\ worker[w].pc = "invalidate"
      /\ UNCHANGED <<latch, worker, mail, inflightCRs, provider, fresh, downgrading>>
  BY <1>l DEF RetryPMR
<1>v. /\ frame'[n].state = frame[n].state /\ frame'[n].possession = frame[n].possession
      /\ frame'[n].possessors = frame[n].possessors /\ frame'[n].pVersion = frame[n].pVersion
      /\ frame'[n].mhWaiting = TRUE
      /\ \A k \in Node : k # n => frame'[k] = frame[k]
  BY <1>0 DEF RetryPMR, TypeOK, Frame
<1>e. PageExists /\ PageExists'
  BY <1>0, <1>g, <1>v, PageIsThere DEF PageExists
<1>1. Latches'
  BY <1>0, <1>g, <1>v, <1>e DEF Latches, Claims, Holds
<1>2. Providers'
  BY <1>0, <1>g, <1>v, <1>e DEF Providers, Reading
<1>3. RemoteFrames'
  BY <1>0, <1>g, <1>v, <1>e DEF RemoteFrames, Claims, Latches
<1>4. Waited'
  BY <1>0, <1>g, <1>v, <1>e DEF Waited, Asked, Mailboxes, Mailbox
<1>5. OwnerFrame'
  BY <1>0, <1>g, <1>v, <1>e DEF OwnerFrame, Claims, Latches
<1>6. GuardsHold'
  BY <1>0, <1>g, <1>v, <1>e DEF GuardsHold, Possessed, Sufficient,
     IsPossessor, Latches, Holds
<1>7. Mailboxes'
  <2>1. ASSUME NEW v \in Worker PROVE Mailbox(v)'
    BY <1>0, <1>g, <1>v, <2>1, SameMailbox DEF Mailboxes, Latches, Claims
  <2> QED
    BY <2>1 DEF Mailboxes
<1>8. Registered'
  BY <1>0, <1>g, <1>v, <1>e DEF Registered, Answered
<1>9. Allocation'
  BY <1>0, <1>g, <1>v, <1>e DEF Allocation
<1>10. EpochStep /\ PagesAreFresh'
  <2>1. ASSUME NEW k \in Node PROVE SameFrame(k) /\ SameHolder(k)
    BY <1>0, <1>g, <1>v, <2>1 DEF SameFrame, SameHolder, Latches, Claims, Holds
  <2>2. SameReading
    BY <1>g DEF SameReading, Reading
  <2>3. DirView' = DirView /\ OtherViews({})
    BY <1>0, <1>e, <1>g, <2>1, <2>2, AllSame
  <2> QED
    BY <1>0, <1>g, <2>3, StutterStep
<1> QED
  BY <1>1, <1>2, <1>3, <1>4, <1>5, <1>6, <1>7, <1>8, <1>9, <1>10
     DEF Preserved, Control

(* A page provider latches a frame and asks the owner to take the page     *)
(* back.                                                                   *)
LEMMA RequestEvictionSafe ==
    ASSUME SafetyInv, NEW n \in Node, RequestEviction(n)
    PROVE  Preserved
<1>0. /\ TypeOK /\ Latches /\ Providers /\ RemoteFrames /\ Waited /\ OwnerFrame
      /\ GuardsHold /\ Mailboxes /\ Registered /\ Allocation /\ PagesAreFresh
      /\ E!EpochInv
  BY DEF SafetyInv, Control
<1>g. /\ n # Owner /\ provider[n] = "idle" /\ frame[n].state = "HOT"
      /\ latch[n].x = NoOne /\ latch[n].s = {}
      /\ UNCHANGED <<frame, worker, mail, inflightCRs, fresh>>
  BY <1>0 DEF RequestEviction, CanLatchExclusive, Unlatched
<1>v. /\ provider'[n] = "requested"
      /\ \A k \in Node : k # n => provider'[k] = provider[k]
      /\ latch'[n].x = PageProvider /\ latch'[n].s = {}
      /\ \A k \in Node : k # n => latch'[k] = latch[k]
      /\ downgrading' = {v \in downgrading : NodeOf[v] # n}
  BY <1>0, <1>g DEF RequestEviction, LatchExclusive, TypeOK, Latch
<1>e. PageExists /\ PageExists'
  BY <1>0, <1>g, FrameIsThere DEF PageExists
<1>1. Latches'
  BY <1>0, <1>g, <1>v, <1>e DEF Latches, Claims, Holds
<1>2. Providers'
  BY <1>0, <1>g, <1>v, <1>e DEF Providers, Reading
<1>3. RemoteFrames'
  BY <1>0, <1>g, <1>v, <1>e DEF RemoteFrames, Claims, Latches
<1>4. Waited'
  BY <1>0, <1>g, <1>v, <1>e DEF Waited, Asked, Mailboxes, Mailbox
<1>5. OwnerFrame'
  BY <1>0, <1>g, <1>v, <1>e DEF OwnerFrame, Claims, Latches
<1>6. GuardsHold'
  BY <1>0, <1>g, <1>v, <1>e DEF GuardsHold, Possessed, Sufficient,
     IsPossessor, Latches, Holds
<1>7. Mailboxes'
  <2>1. ASSUME NEW v \in Worker PROVE Mailbox(v)'
    BY <1>0, <1>g, <1>v, <2>1, SameMailbox DEF Mailboxes, Latches, Claims
  <2> QED
    BY <2>1 DEF Mailboxes
<1>8. Registered'
  BY <1>0, <1>g, <1>v, <1>e DEF Registered, Answered
<1>9. Allocation'
  BY <1>0, <1>g, <1>v, <1>e DEF Allocation
<1>10. EpochStep /\ PagesAreFresh'
  <2>1. View(n)' = View(n)
    BY <1>0, <1>e, <1>g, <1>v DEF View, FrameView
  <2>2. ASSUME NEW k \in Node, k # n PROVE SameFrame(k) /\ SameHolder(k)
    BY <1>g, <1>v, <2>2 DEF SameFrame, SameHolder
  <2>3. SameReading
    BY <1>g, <1>v DEF SameReading, Reading
  <2>4. OtherViews({n}) /\ DirView' = DirView
    BY <1>0, <1>e, <1>g, <1>v, <2>2, <2>3, SameView, SameDir DEF OtherViews
  <2> QED
    BY <1>0, <1>g, <2>1, <2>4, StutterStep DEF OtherViews
<1> QED
  BY <1>1, <1>2, <1>3, <1>4, <1>5, <1>6, <1>7, <1>8, <1>9, <1>10
     DEF Preserved, Control

(* The owner's page provider turns an eviction down. *)
LEMMA RejectEvictionSafe ==
    ASSUME SafetyInv, NEW n \in Node, RejectEviction(n)
    PROVE  Preserved
<1>0. /\ TypeOK /\ Latches /\ Providers /\ RemoteFrames /\ Waited /\ OwnerFrame
      /\ GuardsHold /\ Mailboxes /\ Registered /\ Allocation /\ PagesAreFresh
      /\ E!EpochInv
  BY DEF SafetyInv, Control
<1>g. /\ provider[n] = "requested" /\ n # Owner
      /\ UNCHANGED <<frame, latch, worker, mail, inflightCRs, fresh>>
      /\ downgrading' \subseteq downgrading
  BY <1>0 DEF RejectEviction, LatchBriefly, Providers
<1>v. /\ provider'[n] = "rejected"
      /\ \A k \in Node : k # n => provider'[k] = provider[k]
  BY <1>0 DEF RejectEviction, TypeOK
<1>e. PageExists /\ PageExists'
  BY <1>0, <1>g DEF PageExists, Allocation
<1>1. Latches'
  BY <1>0, <1>g, <1>v, <1>e DEF Latches, Claims, Holds
<1>2. Providers'
  BY <1>0, <1>g, <1>v, <1>e DEF Providers, Reading
<1>3. RemoteFrames'
  BY <1>0, <1>g, <1>v, <1>e DEF RemoteFrames, Claims, Latches
<1>4. Waited'
  BY <1>0, <1>g, <1>v, <1>e DEF Waited, Asked, Mailboxes, Mailbox
<1>5. OwnerFrame'
  BY <1>0, <1>g, <1>v, <1>e DEF OwnerFrame, Claims, Latches
<1>6. GuardsHold'
  BY <1>0, <1>g, <1>v, <1>e DEF GuardsHold, Possessed, Sufficient,
     IsPossessor, Latches, Holds
<1>7. Mailboxes'
  <2>1. ASSUME NEW v \in Worker PROVE Mailbox(v)'
    BY <1>0, <1>g, <1>v, <2>1, SameMailbox DEF Mailboxes, Latches, Claims
  <2> QED
    BY <2>1 DEF Mailboxes
<1>8. Registered'
  BY <1>0, <1>g, <1>v, <1>e DEF Registered, Answered
<1>9. Allocation'
  BY <1>0, <1>g, <1>v, <1>e DEF Allocation
<1>10. EpochStep /\ PagesAreFresh'
  <2>1. ASSUME NEW k \in Node PROVE SameFrame(k) /\ SameHolder(k)
    BY <1>g, <2>1 DEF SameFrame, SameHolder
  <2>2. SameReading
    BY <1>g, <1>v DEF SameReading, Reading
  <2>3. \A k \in Node : (provider'[k] = "accepted" <=> provider[k] = "accepted")
    BY <1>g, <1>v
  <2>4. DirView' = DirView /\ OtherViews({})
    BY <1>0, <1>e, <2>1, <2>2, <2>3, AllSame
  <2> QED
    BY <1>0, <1>g, <2>4, StutterStep
<1> QED
  BY <1>1, <1>2, <1>3, <1>4, <1>5, <1>6, <1>7, <1>8, <1>9, <1>10
     DEF Preserved, Control

(* The handler that has answered PMR frees the frame it has latched. *)
LEMMA RemoveFrameSafe ==
    ASSUME SafetyInv, NEW n \in Node, RemoveFrame(n)
    PROVE  Preserved
<1>0. /\ TypeOK /\ Latches /\ Providers /\ RemoteFrames /\ Waited /\ OwnerFrame
      /\ GuardsHold /\ Mailboxes /\ Registered /\ Allocation /\ PagesAreFresh
      /\ E!EpochInv
  BY DEF SafetyInv, Control
<1>g. /\ latch[n].x = MessageHandler /\ n # Owner /\ latch[n].s = {}
      /\ fresh' = fresh \ {n}
      /\ UNCHANGED <<worker, mail, inflightCRs, provider, downgrading>>
  BY <1>0 DEF RemoveFrame, Providers, Latches
<1>v. /\ frame'[n] = EmptyFrame
      /\ \A k \in Node : k # n => frame'[k] = frame[k]
      /\ \A k \in Node : k # n => latch'[k] = latch[k]
      /\ latch'[n].x = NoOne /\ latch'[n].s = {}
  BY <1>0, <1>g DEF RemoveFrame, UnlatchExclusive, TypeOK, Latch
<1>e. PageExists /\ PageExists'
  BY <1>0, <1>g, <1>v DEF PageExists, Allocation
<1>d. \A v \in Worker : NodeOf[v] = n => ~Claims(v) /\ worker[v].pc # "use" /\ v \notin downgrading
  BY <1>0, <1>g, NobodyInside
<1>1. Latches'
  BY <1>0, <1>g, <1>v, <1>e, <1>d DEF Latches, Claims, Holds
<1>2. Providers'
  BY <1>0, <1>g, <1>v, <1>e, <1>d DEF Providers, Reading, EmptyFrame
<1>3. RemoteFrames'
  BY <1>0, <1>g, <1>v, <1>e, <1>d DEF RemoteFrames, Claims, Latches,
     EmptyFrame
<1>4. Waited'
  BY <1>0, <1>g, <1>v, <1>e, <1>d DEF Waited, Asked, Mailboxes, Mailbox,
     EmptyFrame
<1>5. OwnerFrame'
  BY <1>0, <1>g, <1>v, <1>e, <1>d DEF OwnerFrame, Claims, Latches
<1>6. GuardsHold'
  BY <1>0, <1>g, <1>v, <1>e, <1>d DEF GuardsHold, Possessed, Sufficient,
     IsPossessor, Latches, Holds
<1>7. Mailboxes'
  <2>1. ASSUME NEW v \in Worker PROVE Mailbox(v)'
    BY <1>0, <1>g, <1>v, <2>1, <1>d, SameMailbox DEF Mailboxes, Latches, Claims
  <2> QED
    BY <2>1 DEF Mailboxes
<1>8. Registered'
  BY <1>0, <1>g, <1>v, <1>e, <1>d DEF Registered, Answered
<1>9. Allocation'
  BY <1>0, <1>g, <1>v, <1>e, <1>d DEF Allocation
<1>10. EpochStep /\ PagesAreFresh'
  <2>1. View(n) = NoCopy
    BY <1>e, <1>g DEF View, FrameView
  <2>5. View(n)' = NoCopy
    BY <1>e, <1>g, <1>v DEF View, FrameView, EmptyFrame
  <2>2. ASSUME NEW k \in Node, k # n PROVE SameFrame(k) /\ SameHolder(k)
    BY <1>g, <1>v, <2>2 DEF SameFrame, SameHolder
  <2>3. SameReading
    BY <1>g, <1>v DEF SameReading, Reading
  <2>4. OtherViews({n}) /\ DirView' = DirView
    BY <1>0, <1>e, <1>g, <1>v, <2>2, <2>3, SameView, SameDir DEF OtherViews
  <2> QED
    <3>1. EpochStep
      BY <2>1, <2>4, <2>5, StepStutter DEF OtherViews
    <3>2. View(n)'.status # "page"
      BY <2>5 DEF NoCopy, CopyOf
    <3> QED
      BY <1>0, <1>g, <2>4, <3>1, <3>2 DEF OtherViews, PagesAreFresh
<1> QED
  BY <1>1, <1>2, <1>3, <1>4, <1>5, <1>6, <1>7, <1>8, <1>9, <1>10
     DEF Preserved, Control

(* An eviction that was turned down leaves the frame as it was. *)
LEMMA CollectEvictionKeepSafe ==
    ASSUME SafetyInv, NEW n \in Node, CollectEviction(n), provider[n] # "accepted"
    PROVE  Preserved
<1>0. /\ TypeOK /\ Latches /\ Providers /\ RemoteFrames /\ Waited /\ OwnerFrame
      /\ GuardsHold /\ Mailboxes /\ Registered /\ Allocation /\ PagesAreFresh
      /\ E!EpochInv
  BY DEF SafetyInv, Control
<1>g. /\ provider[n] = "rejected" /\ n # Owner /\ latch[n].x = PageProvider
      /\ latch[n].s = {} /\ frame[n].state = "HOT"
      /\ UNCHANGED <<frame, fresh, worker, mail, inflightCRs, downgrading>>
  BY <1>0 DEF CollectEviction, Providers, Latches
<1>v. /\ provider'[n] = "idle"
      /\ \A k \in Node : k # n => provider'[k] = provider[k]
      /\ \A k \in Node : k # n => latch'[k] = latch[k]
      /\ latch'[n].x = NoOne /\ latch'[n].s = {}
  BY <1>0, <1>g DEF CollectEviction, UnlatchExclusive, TypeOK, Latch
<1>e. PageExists /\ PageExists'
  BY <1>0, <1>g DEF PageExists, Allocation
<1>d. \A v \in Worker : NodeOf[v] = n => ~Claims(v) /\ worker[v].pc # "use" /\ v \notin downgrading
  BY <1>0, <1>g, NobodyInside
<1>1. Latches'
  BY <1>0, <1>g, <1>v, <1>e, <1>d DEF Latches, Claims, Holds
<1>2. Providers'
  BY <1>0, <1>g, <1>v, <1>e, <1>d DEF Providers, Reading
<1>3. RemoteFrames'
  BY <1>0, <1>g, <1>v, <1>e, <1>d DEF RemoteFrames, Claims, Latches
<1>4. Waited'
  BY <1>0, <1>g, <1>v, <1>e, <1>d DEF Waited, Asked, Mailboxes, Mailbox
<1>5. OwnerFrame'
  BY <1>0, <1>g, <1>v, <1>e, <1>d DEF OwnerFrame, Claims, Latches
<1>6. GuardsHold'
  BY <1>0, <1>g, <1>v, <1>e, <1>d DEF GuardsHold, Possessed, Sufficient,
     IsPossessor, Latches, Holds
<1>7. Mailboxes'
  <2>1. ASSUME NEW v \in Worker PROVE Mailbox(v)'
    BY <1>0, <1>g, <1>v, <2>1, <1>d, SameMailbox DEF Mailboxes, Latches, Claims
  <2> QED
    BY <2>1 DEF Mailboxes
<1>8. Registered'
  BY <1>0, <1>g, <1>v, <1>e, <1>d DEF Registered, Answered
<1>9. Allocation'
  BY <1>0, <1>g, <1>v, <1>e, <1>d DEF Allocation
<1>10. EpochStep /\ PagesAreFresh'
  <2>1. View(n)' = View(n)
    BY <1>e, <1>g, <1>v DEF View, FrameView
  <2>2. ASSUME NEW k \in Node, k # n PROVE SameFrame(k) /\ SameHolder(k)
    BY <1>g, <1>v, <2>2 DEF SameFrame, SameHolder
  <2>3. SameReading
    BY <1>g, <1>v DEF SameReading, Reading
  <2>4. OtherViews({n}) /\ DirView' = DirView
    BY <1>0, <1>e, <1>g, <1>v, <2>2, <2>3, SameView, SameDir DEF OtherViews
  <2> QED
    BY <1>0, <1>g, <2>1, <2>4, StutterStep DEF OtherViews
<1> QED
  BY <1>1, <1>2, <1>3, <1>4, <1>5, <1>6, <1>7, <1>8, <1>9, <1>10
     DEF Preserved, Control

(* An eviction that was accepted frees the frame. *)
LEMMA CollectEvictionDropSafe ==
    ASSUME SafetyInv, NEW n \in Node, CollectEviction(n), provider[n] = "accepted"
    PROVE  Preserved
<1>0. /\ TypeOK /\ Latches /\ Providers /\ RemoteFrames /\ Waited /\ OwnerFrame
      /\ GuardsHold /\ Mailboxes /\ Registered /\ Allocation /\ PagesAreFresh
      /\ E!EpochInv
  BY DEF SafetyInv, Control
<1>g. /\ provider[n] = "accepted" /\ n # Owner /\ latch[n].x = PageProvider /\ latch[n].s = {}
      /\ fresh' = fresh \ {n}
      /\ UNCHANGED <<worker, mail, inflightCRs, downgrading>>
  BY <1>0 DEF CollectEviction, Providers, Latches
<1>v. /\ frame'[n] = EmptyFrame
      /\ \A k \in Node : k # n => frame'[k] = frame[k]
      /\ provider'[n] = "idle"
      /\ \A k \in Node : k # n => provider'[k] = provider[k]
      /\ \A k \in Node : k # n => latch'[k] = latch[k]
      /\ latch'[n].x = NoOne /\ latch'[n].s = {}
  BY <1>0, <1>g DEF CollectEviction, UnlatchExclusive, TypeOK, Latch
<1>e. PageExists /\ PageExists'
  BY <1>0, <1>g, <1>v DEF PageExists, Allocation
<1>d. \A v \in Worker : NodeOf[v] = n => ~Claims(v) /\ worker[v].pc # "use" /\ v \notin downgrading
  BY <1>0, <1>g, NobodyInside
<1>1. Latches'
  BY <1>0, <1>g, <1>v, <1>e, <1>d DEF Latches, Claims, Holds
<1>2. Providers'
  BY <1>0, <1>g, <1>v, <1>e, <1>d DEF Providers, Reading, EmptyFrame
<1>3. RemoteFrames'
  BY <1>0, <1>g, <1>v, <1>e, <1>d DEF RemoteFrames, Claims, Latches,
     EmptyFrame
<1>4. Waited'
  BY <1>0, <1>g, <1>v, <1>e, <1>d DEF Waited, Asked, Mailboxes, Mailbox,
     EmptyFrame
<1>5. OwnerFrame'
  BY <1>0, <1>g, <1>v, <1>e, <1>d DEF OwnerFrame, Claims, Latches
<1>6. GuardsHold'
  BY <1>0, <1>g, <1>v, <1>e, <1>d DEF GuardsHold, Possessed, Sufficient,
     IsPossessor, Latches, Holds
<1>7. Mailboxes'
  <2>1. ASSUME NEW v \in Worker PROVE Mailbox(v)'
    BY <1>0, <1>g, <1>v, <2>1, <1>d, SameMailbox DEF Mailboxes, Latches, Claims
  <2> QED
    BY <2>1 DEF Mailboxes
<1>8. Registered'
  BY <1>0, <1>g, <1>v, <1>e, <1>d DEF Registered, Answered
<1>9. Allocation'
  BY <1>0, <1>g, <1>v, <1>e, <1>d DEF Allocation
<1>10. EpochStep /\ PagesAreFresh'
  <2>1. View(n) = NoCopy
    BY <1>0, <1>e, <1>g DEF View, FrameView, Providers
  <2>5. View(n)' = NoCopy
    BY <1>e, <1>g, <1>v DEF View, FrameView, EmptyFrame
  <2>2. ASSUME NEW k \in Node, k # n PROVE SameFrame(k) /\ SameHolder(k)
    BY <1>g, <1>v, <2>2 DEF SameFrame, SameHolder
  <2>3. SameReading
    BY <1>g, <1>v DEF SameReading, Reading
  <2>4. OtherViews({n}) /\ DirView' = DirView
    BY <1>0, <1>e, <1>g, <1>v, <2>2, <2>3, SameView, SameDir DEF OtherViews
  <2> QED
    <3>1. EpochStep
      BY <2>1, <2>4, <2>5, StepStutter DEF OtherViews
    <3>2. View(n)'.status # "page"
      BY <2>5 DEF NoCopy, CopyOf
    <3> QED
      BY <1>0, <1>g, <2>4, <3>1, <3>2 DEF OtherViews, PagesAreFresh
<1> QED
  BY <1>1, <1>2, <1>3, <1>4, <1>5, <1>6, <1>7, <1>8, <1>9, <1>10
     DEF Preserved, Control

-----------------------------------------------------------------------------
(* The owner's message handler *)

(* PRS while the owner has the page exclusively: both share it in a new    *)
(* epoch.                                                                  *)
LEMMA PRSShareOwnerSafe ==
    ASSUME SafetyInv, NEW w \in Worker, NEW n \in Node, n = NodeOf[w], HandlePRS(w),
           frame[Owner].possession = "EXCLUSIVE", frame[Owner].possessors = {Owner}
    PROVE  Preserved
<1>0. /\ TypeOK /\ Latches /\ Providers /\ RemoteFrames /\ Waited /\ OwnerFrame
      /\ GuardsHold /\ Mailboxes /\ Registered /\ Allocation /\ PagesAreFresh
      /\ E!EpochInv
  BY DEF SafetyInv, Control
<1>y. /\ Asked(w, Owner, "PRS")
      /\ Answers(w, "WithPage", {}, frame[Owner].pVersion + 1)
  BY DEF HandlePRS, Answers
<1>x. /\ "WithPage" \in RESULT /\ {} \in SUBSET Node /\ frame[Owner].pVersion + 1 \in Nat
  BY <1>0, FrameType DEF RESULT
<1>z. Asked(w, Owner, "PUR") <=> FALSE
  BY <1>y DEF Asked
<1>a. /\ worker[w].pc = "request" /\ DirectoryFree
      /\ AnswerSent(w, n, "WithPage", {}, frame[Owner].pVersion + 1)
      /\ View(n) = NoCopy
  BY <1>y, <1>x, <1>z, AnswersFacts
<1>l. /\ worker[w].pc = "request" /\ n # Owner /\ latch[n].x = w /\ latch[n].s = {}
      /\ PageExists /\ latch[Owner].x = NoOne /\ latch[Owner].s = {}
      /\ \A v \in Worker : NodeOf[v] = Owner => ~Claims(v) /\ worker[v].pc # "use"
      /\ UNCHANGED <<worker, provider, latch>>
      /\ downgrading' = {v \in downgrading : NodeOf[v] # Owner}
      /\ \A v \in Worker : v # w => mail'[v] = mail[v]
      /\ \A k \in Node : k # Owner => mail'[w][k] = mail[w][k] /\ mail[w][k] = Nothing
      /\ mail'[w][Owner] = Reply("WithPage", {}, frame[Owner].pVersion + 1)
      /\ Answered(w, Owner)' /\ \A t \in {"PRS", "PRX", "PUR", "PMR"} : ~Asked(w, Owner, t)'
  BY <1>a DEF AnswerSent
<1>d. /\ DirView = DirOf(frame[Owner].possession, frame[Owner].possessors)
      /\ frame[Owner].possession \in MODE /\ frame[Owner].pVersion \in Nat
      /\ frame[Owner].possessors \subseteq Node
      /\ View(Owner) = IF Owner \in frame[Owner].possessors
            THEN CopyOf("page", frame[Owner].pVersion, frame[Owner].possession, {})
            ELSE NoCopy
      /\ frame[Owner].state = IF Owner \in frame[Owner].possessors
            THEN "HOT" ELSE "EVICTED"
      /\ \A m \in Node : ~Reading(m)
      /\ View(n) = NoCopy
  BY <1>a DEF DirectoryFree
<1>g. /\ worker[w].pc = "request" /\ n # Owner /\ latch[n].x = w /\ latch[n].s = {}
      /\ latch[Owner].x = NoOne /\ latch[Owner].s = {}
      /\ \A v \in Worker : NodeOf[v] = Owner => ~Claims(v) /\ worker[v].pc # "use"
      /\ UNCHANGED <<worker, provider, latch>>
  BY <1>l
<1>v. /\ downgrading' = {v \in downgrading : NodeOf[v] # Owner}
      /\ \A v \in Worker : v # w => mail'[v] = mail[v]
      /\ \A k \in Node : k # Owner => mail'[w][k] = Nothing
      /\ mail'[w][Owner].resultType = "WithPage"
      /\ mail'[w][Owner].conflict = {} /\ mail'[w][Owner].pVersion = frame[Owner].pVersion + 1
      /\ frame'[Owner].state = frame[Owner].state /\ frame'[Owner].possession = "SHARED"
      /\ frame'[Owner].possessors = {Owner, n} /\ frame'[Owner].pVersion = frame[Owner].pVersion + 1
      /\ frame'[Owner].mhWaiting = frame[Owner].mhWaiting
      /\ \A k \in Node : k # Owner => frame'[k] = frame[k]
      /\ inflightCRs' = inflightCRs \ {w}
      /\ fresh' = IF Owner \in fresh THEN fresh \cup {n} ELSE fresh \ {n}
  <2>1. /\ mail'[w][Owner].resultType = "WithPage"
        /\ mail'[w][Owner].conflict = {} /\ mail'[w][Owner].pVersion = frame[Owner].pVersion + 1
    BY <1>l DEF Reply
  <2>2. /\ frame'[Owner].state = frame[Owner].state /\ frame'[Owner].possession = "SHARED"
        /\ frame'[Owner].possessors = {Owner, n}
        /\ frame'[Owner].pVersion = frame[Owner].pVersion + 1
        /\ frame'[Owner].mhWaiting = frame[Owner].mhWaiting
        /\ \A k \in Node : k # Owner => frame'[k] = frame[k]
    BY <1>0, <1>d DEF HandlePRS, GiveAway, TypeOK, Frame
  <2>3. inflightCRs' = inflightCRs \ {w} /\ fresh' = IF Owner \in fresh THEN fresh \cup {n} ELSE fresh \ {n}
    BY <1>0, <1>d DEF HandlePRS, CopyPage, ForgetCopyRequest
  <2> QED
    BY <1>l, <2>1, <2>2, <2>3
<1>e. PageExists /\ PageExists'
  BY <1>l, <1>v DEF PageExists
<1>1. Latches'
  BY <1>0, <1>g DEF Latches, Claims, Holds
<1>2. Providers'
  BY <1>0, <1>g, <1>v, <1>e, <1>l, <1>d DEF Providers, Reading, Latches
<1>3. RemoteFrames'
  BY <1>0, <1>g, <1>v, <1>e, <1>l, <1>d DEF RemoteFrames, Claims, Latches
<1>4. Waited'
  BY <1>0, <1>g, <1>v, <1>e, <1>l, <1>d, WhoAsks DEF Waited, Asked, Mailboxes,
     Mailbox
<1>5. OwnerFrame'
  BY <1>0, <1>g, <1>v, <1>e, <1>l, <1>d DEF OwnerFrame, Claims, Latches
<1>6. GuardsHold'
  BY <1>0, <1>g, <1>v, <1>e, <1>l, <1>d DEF GuardsHold, Possessed, Sufficient,
     IsPossessor, Latches, Holds
<1>7. Mailboxes'
  <2>1. ASSUME NEW v \in Worker, v # w PROVE Mailbox(v)'
    BY <1>0, <1>g, <1>v, <2>1, SameMailbox DEF Mailboxes, Latches, Claims
  <2>2. Mailbox(w)'
    <3>1. RequestMail(w)
      BY <1>0, <1>l DEF Mailboxes, Mailbox
    <3>2. Asked(w, Owner, "PRS") => worker[w].mode = "SHARED"
      BY <1>0, WhoAsks
    <3> QED
      BY <1>l, <1>v, <1>y, <3>1, <3>2 DEF Mailbox, RequestMail, OnlyOwner
  <2> QED
    BY <2>1, <2>2 DEF Mailboxes
<1>8. Registered'
  <2>1. ASSUME NEW v \in Worker, v # w, worker[v].pc = "request", Answered(v, Owner)',
               mail'[v][Owner].resultType = "NoPageEvicted"
        PROVE  v \in inflightCRs'
    BY <1>0, <1>v, <1>g, <2>1 DEF Registered, Answered
  <2> QED
    BY <1>g, <1>v, <2>1 DEF Registered
<1>9. Allocation'
  BY <1>e DEF Allocation
<1>10. EpochStep /\ PagesAreFresh'
  <2>1. View(n)' = CopyOf("page", frame[Owner].pVersion + 1, "SHARED",
                         {})
    <3>1. View(n)' = ClaimView(w)'
      BY <1>e, <1>g DEF View, Claims
    <3> QED
      BY <1>0, <1>g, <1>v, <1>l, <1>y, <3>1, WhoAsks DEF ClaimView, RequestView, GrantStatus
  <2>2. DirView' = [epoch |-> frame[Owner].pVersion + 1, mode |-> "SHARED", nodes |-> {Owner, n}]
    BY <1>e, <1>g, <1>v DEF DirView, DirOf
  <2>3. View(Owner)' = CopyOf("page", frame[Owner].pVersion + 1, "SHARED", {})
    BY <1>0, <1>e, <1>g, <1>v, <1>l, <1>d DEF View, OwnerView, Reading
  <2>4. OtherViews({n, Owner})
    <3>1. HandlerOnly(w, {n, Owner})
      BY <1>g, <1>v DEF HandlerOnly, SameFrame
    <3> QED
      BY <1>0, <1>e, <3>1, HandlerViews
  <2>6. EpochStep
    <3>1. MayUse(Owner) /\ ~Has(n)
      BY <1>d DEF MayUse, Has, CopyOf, NoCopy
    <3>2. /\ DirView.mode # "NOBODY"
          /\ DirView.nodes = {Owner}
          /\ DirView.epoch = frame[Owner].pVersion
      BY <1>d DEF DirOf, MODE
    <3> QED
      BY <1>g, <2>1, <2>2, <2>3, <2>4, <3>1, <3>2, StepShareOwner
  <2>7. PagesAreFresh'
    <3>1. Owner \in frame[Owner].possessors => Owner \in fresh
      BY <1>0, <1>d DEF PagesAreFresh, CopyOf
    <3>2. \A k \in Node : k \notin {n, Owner} /\ View(k)'.status = "page" => k \in fresh'
      BY <1>0, <1>v, <2>4 DEF PagesAreFresh, OtherViews
    <3>3. View(n)'.status = "page" => n \in fresh'
      BY <1>0, <1>v, <1>d, <1>l, <2>1, <3>1 DEF CopyOf, PagesAreFresh
    <3>4. View(Owner)'.status = "page" => Owner \in fresh'
      BY <1>0, <1>v, <1>d, <1>l, <2>3, <3>1 DEF CopyOf, NoCopy, PagesAreFresh
    <3> QED
      BY <3>2, <3>3, <3>4 DEF PagesAreFresh
  <2> QED
    BY <2>6, <2>7
<1> QED
  BY <1>1, <1>2, <1>3, <1>4, <1>5, <1>6, <1>7, <1>8, <1>9, <1>10
     DEF Preserved, Control

(* PRS while another node has the page exclusively: the page will be       *)
(* moved.                                                                  *)
LEMMA PRSTakeAwaySafe ==
    ASSUME SafetyInv, NEW w \in Worker, NEW n \in Node, n = NodeOf[w], HandlePRS(w),
           frame[Owner].possession = "EXCLUSIVE", frame[Owner].possessors # {Owner}
    PROVE  Preserved
<1>0. /\ TypeOK /\ Latches /\ Providers /\ RemoteFrames /\ Waited /\ OwnerFrame
      /\ GuardsHold /\ Mailboxes /\ Registered /\ Allocation /\ PagesAreFresh
      /\ E!EpochInv
  BY DEF SafetyInv, Control
<1>y. /\ Asked(w, Owner, "PRS")
      /\ Answers(w, "NoPageExclusiveConflict", frame[Owner].possessors, frame[Owner].pVersion + 1)
  BY DEF HandlePRS, Answers
<1>x. /\ "NoPageExclusiveConflict" \in RESULT /\ frame[Owner].possessors \in SUBSET Node
      /\ frame[Owner].pVersion + 1 \in Nat
  BY <1>0, FrameType DEF RESULT
<1>z. Asked(w, Owner, "PUR") <=> FALSE
  BY <1>y DEF Asked
<1>a. /\ worker[w].pc = "request" /\ DirectoryFree
      /\ AnswerSent(w, n, "NoPageExclusiveConflict", frame[Owner].possessors, frame[Owner].pVersion + 1)
      /\ View(n) = NoCopy
  BY <1>y, <1>x, <1>z, AnswersFacts
<1>l. /\ worker[w].pc = "request" /\ n # Owner /\ latch[n].x = w /\ latch[n].s = {}
      /\ PageExists /\ latch[Owner].x = NoOne /\ latch[Owner].s = {}
      /\ \A v \in Worker : NodeOf[v] = Owner => ~Claims(v) /\ worker[v].pc # "use"
      /\ UNCHANGED <<worker, provider, latch>>
      /\ downgrading' = {v \in downgrading : NodeOf[v] # Owner}
      /\ \A v \in Worker : v # w => mail'[v] = mail[v]
      /\ \A k \in Node : k # Owner => mail'[w][k] = mail[w][k] /\ mail[w][k] = Nothing
      /\ mail'[w][Owner] = Reply("NoPageExclusiveConflict", frame[Owner].possessors, frame[Owner].pVersion + 1)
      /\ Answered(w, Owner)' /\ \A t \in {"PRS", "PRX", "PUR", "PMR"} : ~Asked(w, Owner, t)'
  BY <1>a DEF AnswerSent
<1>d. /\ DirView = DirOf(frame[Owner].possession, frame[Owner].possessors)
      /\ frame[Owner].possession \in MODE /\ frame[Owner].pVersion \in Nat
      /\ frame[Owner].possessors \subseteq Node
      /\ View(Owner) = IF Owner \in frame[Owner].possessors
            THEN CopyOf("page", frame[Owner].pVersion, frame[Owner].possession, {})
            ELSE NoCopy
      /\ frame[Owner].state = IF Owner \in frame[Owner].possessors
            THEN "HOT" ELSE "EVICTED"
      /\ \A m \in Node : ~Reading(m)
      /\ View(n) = NoCopy
  BY <1>a DEF DirectoryFree
<1>o. Owner \notin frame[Owner].possessors /\ frame[Owner].state = "EVICTED"
  <2>1. frame[Owner].possessors = {k \in Node : Has(k) /\ View(k).epoch = DirView.epoch}
    BY <1>0, <1>d, EpochFacts DEF DirOf
  <2>2. \A k \in Node : k \in frame[Owner].possessors /\ Owner \in frame[Owner].possessors => k = Owner
    BY <1>0, <1>d, <2>1, EpochFacts DEF CopyOf
  <2> QED
    BY <1>d, <2>2
<1>g. /\ worker[w].pc = "request" /\ n # Owner /\ latch[n].x = w /\ latch[n].s = {}
      /\ latch[Owner].x = NoOne /\ latch[Owner].s = {}
      /\ \A v \in Worker : NodeOf[v] = Owner => ~Claims(v) /\ worker[v].pc # "use"
      /\ UNCHANGED <<worker, provider, latch>>
  BY <1>l
<1>v. /\ downgrading' = {v \in downgrading : NodeOf[v] # Owner}
      /\ \A v \in Worker : v # w => mail'[v] = mail[v]
      /\ \A k \in Node : k # Owner => mail'[w][k] = Nothing
      /\ mail'[w][Owner].resultType = "NoPageExclusiveConflict"
      /\ mail'[w][Owner].conflict = frame[Owner].possessors
      /\ mail'[w][Owner].pVersion = frame[Owner].pVersion + 1
      /\ frame'[Owner].state = frame[Owner].state /\ frame'[Owner].possession = "SHARED"
      /\ frame'[Owner].possessors = {n} /\ frame'[Owner].pVersion = frame[Owner].pVersion + 1
      /\ frame'[Owner].mhWaiting = frame[Owner].mhWaiting
      /\ \A k \in Node : k # Owner => frame'[k] = frame[k]
      /\ inflightCRs' = inflightCRs \ {w}
      /\ fresh' = fresh
  <2>1. /\ mail'[w][Owner].resultType = "NoPageExclusiveConflict"
        /\ mail'[w][Owner].conflict = frame[Owner].possessors
        /\ mail'[w][Owner].pVersion = frame[Owner].pVersion + 1
    BY <1>l DEF Reply
  <2>2. /\ frame'[Owner].state = frame[Owner].state /\ frame'[Owner].possession = "SHARED"
        /\ frame'[Owner].possessors = {n} /\ frame'[Owner].pVersion = frame[Owner].pVersion + 1
        /\ frame'[Owner].mhWaiting = frame[Owner].mhWaiting
        /\ \A k \in Node : k # Owner => frame'[k] = frame[k]
    BY <1>0, <1>d DEF HandlePRS, GiveAway, TypeOK, Frame
  <2>3. inflightCRs' = inflightCRs \ {w} /\ fresh' = fresh
    BY <1>0, <1>d DEF HandlePRS, CopyPage, ForgetCopyRequest
  <2> QED
    BY <1>l, <2>1, <2>2, <2>3
<1>e. PageExists /\ PageExists'
  BY <1>l, <1>v DEF PageExists
<1>1. Latches'
  BY <1>0, <1>g DEF Latches, Claims, Holds
<1>2. Providers'
  BY <1>0, <1>g, <1>v, <1>e, <1>l, <1>d, <1>o DEF Providers, Reading, Latches
<1>3. RemoteFrames'
  BY <1>0, <1>g, <1>v, <1>e, <1>l, <1>d, <1>o DEF RemoteFrames, Claims,
     Latches
<1>4. Waited'
  BY <1>0, <1>g, <1>v, <1>e, <1>l, <1>d, <1>o, WhoAsks DEF Waited, Asked,
     Mailboxes, Mailbox
<1>5. OwnerFrame'
  BY <1>0, <1>g, <1>v, <1>e, <1>l, <1>d, <1>o DEF OwnerFrame, Claims, Latches
<1>6. GuardsHold'
  BY <1>0, <1>g, <1>v, <1>e, <1>l, <1>d, <1>o DEF GuardsHold, Possessed,
     Sufficient, IsPossessor, Latches, Holds
<1>7. Mailboxes'
  <2>1. ASSUME NEW v \in Worker, v # w PROVE Mailbox(v)'
    BY <1>0, <1>g, <1>v, <2>1, SameMailbox DEF Mailboxes, Latches, Claims
  <2>2. Mailbox(w)'
    <3>1. RequestMail(w)
      BY <1>0, <1>l DEF Mailboxes, Mailbox
    <3>2. Asked(w, Owner, "PRS") => worker[w].mode = "SHARED"
      BY <1>0, WhoAsks
    <3> QED
      BY <1>l, <1>v, <1>y, <3>1, <3>2 DEF Mailbox, RequestMail, OnlyOwner
  <2> QED
    BY <2>1, <2>2 DEF Mailboxes
<1>8. Registered'
  <2>1. ASSUME NEW v \in Worker, v # w, worker[v].pc = "request", Answered(v, Owner)',
               mail'[v][Owner].resultType = "NoPageEvicted"
        PROVE  v \in inflightCRs'
    BY <1>0, <1>v, <1>g, <2>1 DEF Registered, Answered
  <2> QED
    BY <1>g, <1>v, <2>1 DEF Registered
<1>9. Allocation'
  BY <1>e DEF Allocation
<1>10. EpochStep /\ PagesAreFresh'
  <2>1. View(n)' = CopyOf("moving", frame[Owner].pVersion + 1, "SHARED",
                         frame[Owner].possessors)
    <3>1. View(n)' = ClaimView(w)'
      BY <1>e, <1>g DEF View, Claims
    <3> QED
      BY <1>0, <1>g, <1>v, <1>l, <1>y, <3>1, WhoAsks DEF ClaimView, RequestView, GrantStatus
  <2>2. DirView' = [epoch |-> frame[Owner].pVersion + 1, mode |-> "SHARED", nodes |-> {n}]
    BY <1>e, <1>g, <1>v DEF DirView, DirOf
  <2>3. View(Owner)' = NoCopy
    BY <1>0, <1>e, <1>g, <1>v, <1>l, <1>d DEF View, OwnerView, Reading
  <2>4. OtherViews({n, Owner})
    <3>1. HandlerOnly(w, {n, Owner})
      BY <1>g, <1>v DEF HandlerOnly, SameFrame
    <3> QED
      BY <1>0, <1>e, <3>1, HandlerViews
  <2>6. EpochStep
    <3>1. ~Has(n) /\ (Has(Owner) <=> Owner \in frame[Owner].possessors) /\ (Has(Owner) => MayUse(Owner))
      BY <1>d DEF MayUse, Has, CopyOf, NoCopy
    <3>2. DirView.mode # "NOBODY" /\ DirView.nodes = frame[Owner].possessors /\ DirView.epoch = frame[Owner].pVersion
      BY <1>d DEF DirOf, MODE
    <3>3. n \notin frame[Owner].possessors
      BY <1>0, <3>1, <3>2, EpochFacts
    <3>4. Owner \notin frame[Owner].possessors /\ ~Has(Owner)
          /\ DirView.nodes \ {Owner, n} = frame[Owner].possessors
      BY <1>o, <3>1, <3>2, <3>3
    <3> QED
      BY <1>g, <1>d, <2>1, <2>2, <2>3, <2>4, <3>1, <3>2, <3>4, StepNewEpoch DEF MODE
  <2>7. PagesAreFresh'
    <3>1. Owner \in frame[Owner].possessors => Owner \in fresh
      BY <1>0, <1>d DEF PagesAreFresh, CopyOf
    <3>2. \A k \in Node : k \notin {n, Owner} /\ View(k)'.status = "page" => k \in fresh'
      BY <1>0, <1>v, <2>4 DEF PagesAreFresh, OtherViews
    <3>3. View(n)'.status = "page" => n \in fresh'
      BY <1>0, <1>v, <1>d, <1>l, <2>1, <3>1 DEF CopyOf, PagesAreFresh
    <3>4. View(Owner)'.status = "page" => Owner \in fresh'
      BY <1>0, <1>v, <1>d, <1>l, <2>3, <3>1 DEF CopyOf, NoCopy, PagesAreFresh
    <3> QED
      BY <3>2, <3>3, <3>4 DEF PagesAreFresh
  <2> QED
    BY <2>6, <2>7
<1> QED
  BY <1>1, <1>2, <1>3, <1>4, <1>5, <1>6, <1>7, <1>8, <1>9, <1>10
     DEF Preserved, Control

(* PRS while only other nodes share the page: a copy is granted, the       *)
(* request registered.                                                     *)
LEMMA PRSCopySafe ==
    ASSUME SafetyInv, NEW w \in Worker, NEW n \in Node, n = NodeOf[w], HandlePRS(w),
           frame[Owner].possession = "SHARED", frame[Owner].state = "EVICTED"
    PROVE  Preserved
<1>0. /\ TypeOK /\ Latches /\ Providers /\ RemoteFrames /\ Waited /\ OwnerFrame
      /\ GuardsHold /\ Mailboxes /\ Registered /\ Allocation /\ PagesAreFresh
      /\ E!EpochInv
  BY DEF SafetyInv, Control
<1>y. /\ Asked(w, Owner, "PRS")
      /\ Answers(w, "NoPageEvicted", frame[Owner].possessors, frame[Owner].pVersion)
  BY DEF HandlePRS, Answers
<1>x. /\ "NoPageEvicted" \in RESULT /\ frame[Owner].possessors \in SUBSET Node
      /\ frame[Owner].pVersion \in Nat
  BY <1>0, FrameType DEF RESULT
<1>z. Asked(w, Owner, "PUR") <=> FALSE
  BY <1>y DEF Asked
<1>a. /\ worker[w].pc = "request" /\ DirectoryFree
      /\ AnswerSent(w, n, "NoPageEvicted", frame[Owner].possessors, frame[Owner].pVersion)
      /\ View(n) = NoCopy
  BY <1>y, <1>x, <1>z, AnswersFacts
<1>l. /\ worker[w].pc = "request" /\ n # Owner /\ latch[n].x = w /\ latch[n].s = {}
      /\ PageExists /\ latch[Owner].x = NoOne /\ latch[Owner].s = {}
      /\ \A v \in Worker : NodeOf[v] = Owner => ~Claims(v) /\ worker[v].pc # "use"
      /\ UNCHANGED <<worker, provider, latch>>
      /\ downgrading' = {v \in downgrading : NodeOf[v] # Owner}
      /\ \A v \in Worker : v # w => mail'[v] = mail[v]
      /\ \A k \in Node : k # Owner => mail'[w][k] = mail[w][k] /\ mail[w][k] = Nothing
      /\ mail'[w][Owner] = Reply("NoPageEvicted", frame[Owner].possessors, frame[Owner].pVersion)
      /\ Answered(w, Owner)' /\ \A t \in {"PRS", "PRX", "PUR", "PMR"} : ~Asked(w, Owner, t)'
  BY <1>a DEF AnswerSent
<1>d. /\ DirView = DirOf(frame[Owner].possession, frame[Owner].possessors)
      /\ frame[Owner].possession \in MODE /\ frame[Owner].pVersion \in Nat
      /\ frame[Owner].possessors \subseteq Node
      /\ View(Owner) = IF Owner \in frame[Owner].possessors
            THEN CopyOf("page", frame[Owner].pVersion, frame[Owner].possession, {})
            ELSE NoCopy
      /\ frame[Owner].state = IF Owner \in frame[Owner].possessors
            THEN "HOT" ELSE "EVICTED"
      /\ \A m \in Node : ~Reading(m)
      /\ View(n) = NoCopy
  BY <1>a DEF DirectoryFree
<1>g. /\ worker[w].pc = "request" /\ n # Owner /\ latch[n].x = w /\ latch[n].s = {}
      /\ latch[Owner].x = NoOne /\ latch[Owner].s = {}
      /\ \A v \in Worker : NodeOf[v] = Owner => ~Claims(v) /\ worker[v].pc # "use"
      /\ UNCHANGED <<worker, provider, latch>>
  BY <1>l
<1>v. /\ downgrading' = {v \in downgrading : NodeOf[v] # Owner}
      /\ \A v \in Worker : v # w => mail'[v] = mail[v]
      /\ \A k \in Node : k # Owner => mail'[w][k] = Nothing
      /\ mail'[w][Owner].resultType = "NoPageEvicted"
      /\ mail'[w][Owner].conflict = frame[Owner].possessors
      /\ mail'[w][Owner].pVersion = frame[Owner].pVersion
      /\ frame'[Owner].state = frame[Owner].state
      /\ frame'[Owner].possession = frame[Owner].possession
      /\ frame'[Owner].possessors = frame[Owner].possessors \cup {n}
      /\ frame'[Owner].pVersion = frame[Owner].pVersion
      /\ frame'[Owner].mhWaiting = frame[Owner].mhWaiting
      /\ \A k \in Node : k # Owner => frame'[k] = frame[k]
      /\ inflightCRs' = inflightCRs \cup {w}
      /\ fresh' = fresh
  <2>1. /\ mail'[w][Owner].resultType = "NoPageEvicted"
        /\ mail'[w][Owner].conflict = frame[Owner].possessors
        /\ mail'[w][Owner].pVersion = frame[Owner].pVersion
    BY <1>l DEF Reply
  <2>2. /\ frame'[Owner].state = frame[Owner].state
        /\ frame'[Owner].possession = frame[Owner].possession
        /\ frame'[Owner].possessors = frame[Owner].possessors \cup {n}
        /\ frame'[Owner].pVersion = frame[Owner].pVersion
        /\ frame'[Owner].mhWaiting = frame[Owner].mhWaiting
        /\ \A k \in Node : k # Owner => frame'[k] = frame[k]
    BY <1>0, <1>d DEF HandlePRS, GiveAway, TypeOK, Frame
  <2>3. inflightCRs' = inflightCRs \cup {w} /\ fresh' = fresh
    BY <1>0, <1>d DEF HandlePRS, CopyPage, ForgetCopyRequest
  <2> QED
    BY <1>l, <2>1, <2>2, <2>3
<1>e. PageExists /\ PageExists'
  BY <1>l, <1>v DEF PageExists
<1>1. Latches'
  BY <1>0, <1>g DEF Latches, Claims, Holds
<1>2. Providers'
  BY <1>0, <1>g, <1>v, <1>e, <1>l, <1>d DEF Providers, Reading, Latches
<1>3. RemoteFrames'
  BY <1>0, <1>g, <1>v, <1>e, <1>l, <1>d DEF RemoteFrames, Claims, Latches
<1>4. Waited'
  BY <1>0, <1>g, <1>v, <1>e, <1>l, <1>d, WhoAsks DEF Waited, Asked, Mailboxes,
     Mailbox
<1>5. OwnerFrame'
  BY <1>0, <1>g, <1>v, <1>e, <1>l, <1>d DEF OwnerFrame, Claims, Latches
<1>6. GuardsHold'
  BY <1>0, <1>g, <1>v, <1>e, <1>l, <1>d DEF GuardsHold, Possessed, Sufficient,
     IsPossessor, Latches, Holds
<1>7. Mailboxes'
  <2>1. ASSUME NEW v \in Worker, v # w PROVE Mailbox(v)'
    BY <1>0, <1>g, <1>v, <2>1, SameMailbox DEF Mailboxes, Latches, Claims
  <2>2. Mailbox(w)'
    <3>1. RequestMail(w)
      BY <1>0, <1>l DEF Mailboxes, Mailbox
    <3>2. Asked(w, Owner, "PRS") => worker[w].mode = "SHARED"
      BY <1>0, WhoAsks
    <3> QED
      BY <1>l, <1>v, <1>y, <3>1, <3>2 DEF Mailbox, RequestMail, OnlyOwner
  <2> QED
    BY <2>1, <2>2 DEF Mailboxes
<1>8. Registered'
  <2>1. ASSUME NEW v \in Worker, v # w, worker[v].pc = "request", Answered(v, Owner)',
               mail'[v][Owner].resultType = "NoPageEvicted"
        PROVE  v \in inflightCRs'
    BY <1>0, <1>v, <1>g, <2>1 DEF Registered, Answered
  <2> QED
    BY <1>g, <1>v, <2>1 DEF Registered
<1>9. Allocation'
  BY <1>e DEF Allocation
<1>10. EpochStep /\ PagesAreFresh'
  <2>1. View(n)' = CopyOf("copying", frame[Owner].pVersion, "SHARED",
                         frame[Owner].possessors)
    <3>1. View(n)' = ClaimView(w)'
      BY <1>e, <1>g DEF View, Claims
    <3> QED
      BY <1>0, <1>g, <1>v, <1>l, <1>y, <3>1, WhoAsks DEF ClaimView, RequestView, GrantStatus
  <2>2. DirView' = [epoch |-> frame[Owner].pVersion, mode |-> "SHARED", nodes |-> frame[Owner].possessors \cup {n}]
    BY <1>e, <1>g, <1>v DEF DirView, DirOf
  <2>3. View(Owner)' = NoCopy
    BY <1>0, <1>e, <1>g, <1>v, <1>l, <1>d DEF View, OwnerView, Reading
  <2>4. OtherViews({n, Owner})
    <3>1. HandlerOnly(w, {n, Owner})
      BY <1>g, <1>v DEF HandlerOnly, SameFrame
    <3> QED
      BY <1>0, <1>e, <3>1, HandlerViews
  <2>6. EpochStep
    <3>1. ~Has(n) /\ ~Has(Owner)
      BY <1>d DEF Has, CopyOf, NoCopy
    <3>2. DirView = [epoch |-> frame[Owner].pVersion, mode |-> "SHARED", nodes |-> frame[Owner].possessors]
      BY <1>d DEF DirOf
    <3>3. DirView' = [DirView EXCEPT !.nodes = @ \cup {n}] /\ OtherViews({n})
      BY <1>d, <2>2, <2>3, <2>4, <3>2 DEF OtherViews
    <3> QED
      BY <2>1, <3>1, <3>2, <3>3, StepJoinCopying
  <2>7. PagesAreFresh'
    <3>1. Owner \in frame[Owner].possessors => Owner \in fresh
      BY <1>0, <1>d DEF PagesAreFresh, CopyOf
    <3>2. \A k \in Node : k \notin {n, Owner} /\ View(k)'.status = "page" => k \in fresh'
      BY <1>0, <1>v, <2>4 DEF PagesAreFresh, OtherViews
    <3>3. View(n)'.status = "page" => n \in fresh'
      BY <1>0, <1>v, <1>d, <1>l, <2>1, <3>1 DEF CopyOf, PagesAreFresh
    <3>4. View(Owner)'.status = "page" => Owner \in fresh'
      BY <1>0, <1>v, <1>d, <1>l, <2>3, <3>1 DEF CopyOf, NoCopy, PagesAreFresh
    <3> QED
      BY <3>2, <3>3, <3>4 DEF PagesAreFresh
  <2> QED
    BY <2>6, <2>7
<1> QED
  BY <1>1, <1>2, <1>3, <1>4, <1>5, <1>6, <1>7, <1>8, <1>9, <1>10
     DEF Preserved, Control

(* PRS while the owner is a sharer: the answer carries the page. *)
LEMMA PRSJoinSafe ==
    ASSUME SafetyInv, NEW w \in Worker, NEW n \in Node, n = NodeOf[w], HandlePRS(w),
           frame[Owner].possession = "SHARED", frame[Owner].state # "EVICTED"
    PROVE  Preserved
<1>0. /\ TypeOK /\ Latches /\ Providers /\ RemoteFrames /\ Waited /\ OwnerFrame
      /\ GuardsHold /\ Mailboxes /\ Registered /\ Allocation /\ PagesAreFresh
      /\ E!EpochInv
  BY DEF SafetyInv, Control
<1>y. /\ Asked(w, Owner, "PRS")
      /\ Answers(w, "WithPage", {}, frame[Owner].pVersion)
  BY DEF HandlePRS, Answers
<1>x. /\ "WithPage" \in RESULT /\ {} \in SUBSET Node /\ frame[Owner].pVersion \in Nat
  BY <1>0, FrameType DEF RESULT
<1>z. Asked(w, Owner, "PUR") <=> FALSE
  BY <1>y DEF Asked
<1>a. /\ worker[w].pc = "request" /\ DirectoryFree
      /\ AnswerSent(w, n, "WithPage", {}, frame[Owner].pVersion)
      /\ View(n) = NoCopy
  BY <1>y, <1>x, <1>z, AnswersFacts
<1>l. /\ worker[w].pc = "request" /\ n # Owner /\ latch[n].x = w /\ latch[n].s = {}
      /\ PageExists /\ latch[Owner].x = NoOne /\ latch[Owner].s = {}
      /\ \A v \in Worker : NodeOf[v] = Owner => ~Claims(v) /\ worker[v].pc # "use"
      /\ UNCHANGED <<worker, provider, latch>>
      /\ downgrading' = {v \in downgrading : NodeOf[v] # Owner}
      /\ \A v \in Worker : v # w => mail'[v] = mail[v]
      /\ \A k \in Node : k # Owner => mail'[w][k] = mail[w][k] /\ mail[w][k] = Nothing
      /\ mail'[w][Owner] = Reply("WithPage", {}, frame[Owner].pVersion)
      /\ Answered(w, Owner)' /\ \A t \in {"PRS", "PRX", "PUR", "PMR"} : ~Asked(w, Owner, t)'
  BY <1>a DEF AnswerSent
<1>d. /\ DirView = DirOf(frame[Owner].possession, frame[Owner].possessors)
      /\ frame[Owner].possession \in MODE /\ frame[Owner].pVersion \in Nat
      /\ frame[Owner].possessors \subseteq Node
      /\ View(Owner) = IF Owner \in frame[Owner].possessors
            THEN CopyOf("page", frame[Owner].pVersion, frame[Owner].possession, {})
            ELSE NoCopy
      /\ frame[Owner].state = IF Owner \in frame[Owner].possessors
            THEN "HOT" ELSE "EVICTED"
      /\ \A m \in Node : ~Reading(m)
      /\ View(n) = NoCopy
  BY <1>a DEF DirectoryFree
<1>g. /\ worker[w].pc = "request" /\ n # Owner /\ latch[n].x = w /\ latch[n].s = {}
      /\ latch[Owner].x = NoOne /\ latch[Owner].s = {}
      /\ \A v \in Worker : NodeOf[v] = Owner => ~Claims(v) /\ worker[v].pc # "use"
      /\ UNCHANGED <<worker, provider, latch>>
  BY <1>l
<1>v. /\ downgrading' = {v \in downgrading : NodeOf[v] # Owner}
      /\ \A v \in Worker : v # w => mail'[v] = mail[v]
      /\ \A k \in Node : k # Owner => mail'[w][k] = Nothing
      /\ mail'[w][Owner].resultType = "WithPage"
      /\ mail'[w][Owner].conflict = {} /\ mail'[w][Owner].pVersion = frame[Owner].pVersion
      /\ frame'[Owner].state = frame[Owner].state
      /\ frame'[Owner].possession = frame[Owner].possession
      /\ frame'[Owner].possessors = frame[Owner].possessors \cup {n}
      /\ frame'[Owner].pVersion = frame[Owner].pVersion
      /\ frame'[Owner].mhWaiting = frame[Owner].mhWaiting
      /\ \A k \in Node : k # Owner => frame'[k] = frame[k]
      /\ inflightCRs' = inflightCRs \ {w}
      /\ fresh' = IF Owner \in fresh THEN fresh \cup {n} ELSE fresh \ {n}
  <2>1. /\ mail'[w][Owner].resultType = "WithPage"
        /\ mail'[w][Owner].conflict = {} /\ mail'[w][Owner].pVersion = frame[Owner].pVersion
    BY <1>l DEF Reply
  <2>2. /\ frame'[Owner].state = frame[Owner].state
        /\ frame'[Owner].possession = frame[Owner].possession
        /\ frame'[Owner].possessors = frame[Owner].possessors \cup {n}
        /\ frame'[Owner].pVersion = frame[Owner].pVersion
        /\ frame'[Owner].mhWaiting = frame[Owner].mhWaiting
        /\ \A k \in Node : k # Owner => frame'[k] = frame[k]
    BY <1>0, <1>d DEF HandlePRS, GiveAway, TypeOK, Frame
  <2>3. inflightCRs' = inflightCRs \ {w} /\ fresh' = IF Owner \in fresh THEN fresh \cup {n} ELSE fresh \ {n}
    BY <1>0, <1>d DEF HandlePRS, CopyPage, ForgetCopyRequest
  <2> QED
    BY <1>l, <2>1, <2>2, <2>3
<1>e. PageExists /\ PageExists'
  BY <1>l, <1>v DEF PageExists
<1>1. Latches'
  BY <1>0, <1>g DEF Latches, Claims, Holds
<1>2. Providers'
  BY <1>0, <1>g, <1>v, <1>e, <1>l, <1>d DEF Providers, Reading, Latches
<1>3. RemoteFrames'
  BY <1>0, <1>g, <1>v, <1>e, <1>l, <1>d DEF RemoteFrames, Claims, Latches
<1>4. Waited'
  BY <1>0, <1>g, <1>v, <1>e, <1>l, <1>d, WhoAsks DEF Waited, Asked, Mailboxes,
     Mailbox
<1>5. OwnerFrame'
  BY <1>0, <1>g, <1>v, <1>e, <1>l, <1>d DEF OwnerFrame, Claims, Latches
<1>6. GuardsHold'
  BY <1>0, <1>g, <1>v, <1>e, <1>l, <1>d DEF GuardsHold, Possessed, Sufficient,
     IsPossessor, Latches, Holds
<1>7. Mailboxes'
  <2>1. ASSUME NEW v \in Worker, v # w PROVE Mailbox(v)'
    BY <1>0, <1>g, <1>v, <2>1, SameMailbox DEF Mailboxes, Latches, Claims
  <2>2. Mailbox(w)'
    <3>1. RequestMail(w)
      BY <1>0, <1>l DEF Mailboxes, Mailbox
    <3>2. Asked(w, Owner, "PRS") => worker[w].mode = "SHARED"
      BY <1>0, WhoAsks
    <3> QED
      BY <1>l, <1>v, <1>y, <3>1, <3>2 DEF Mailbox, RequestMail, OnlyOwner
  <2> QED
    BY <2>1, <2>2 DEF Mailboxes
<1>8. Registered'
  <2>1. ASSUME NEW v \in Worker, v # w, worker[v].pc = "request", Answered(v, Owner)',
               mail'[v][Owner].resultType = "NoPageEvicted"
        PROVE  v \in inflightCRs'
    BY <1>0, <1>v, <1>g, <2>1 DEF Registered, Answered
  <2> QED
    BY <1>g, <1>v, <2>1 DEF Registered
<1>9. Allocation'
  BY <1>e DEF Allocation
<1>10. EpochStep /\ PagesAreFresh'
  <2>1. View(n)' = CopyOf("page", frame[Owner].pVersion, "SHARED",
                         {})
    <3>1. View(n)' = ClaimView(w)'
      BY <1>e, <1>g DEF View, Claims
    <3> QED
      BY <1>0, <1>g, <1>v, <1>l, <1>y, <3>1, WhoAsks DEF ClaimView, RequestView, GrantStatus
  <2>2. DirView' = [epoch |-> frame[Owner].pVersion, mode |-> "SHARED", nodes |-> frame[Owner].possessors \cup {n}]
    BY <1>e, <1>g, <1>v DEF DirView, DirOf
  <2>3. View(Owner)' = CopyOf("page", frame[Owner].pVersion, "SHARED", {})
    BY <1>0, <1>e, <1>g, <1>v, <1>l, <1>d DEF View, OwnerView, Reading
  <2>4. OtherViews({n, Owner})
    <3>1. HandlerOnly(w, {n, Owner})
      BY <1>g, <1>v DEF HandlerOnly, SameFrame
    <3> QED
      BY <1>0, <1>e, <3>1, HandlerViews
  <2>6. EpochStep
    <3>1. MayUse(Owner) /\ ~Has(n)
      BY <1>d DEF MayUse, Has, CopyOf, NoCopy
    <3>2. DirView = [epoch |-> frame[Owner].pVersion, mode |-> "SHARED", nodes |-> frame[Owner].possessors]
      BY <1>d DEF DirOf
    <3>3. DirView' = [DirView EXCEPT !.nodes = @ \cup {n}] /\ OtherViews({n})
      BY <1>d, <2>2, <2>3, <2>4, <3>2 DEF OtherViews
    <3> QED
      BY <2>1, <3>1, <3>2, <3>3, StepJoin
  <2>7. PagesAreFresh'
    <3>1. Owner \in frame[Owner].possessors => Owner \in fresh
      BY <1>0, <1>d DEF PagesAreFresh, CopyOf
    <3>2. \A k \in Node : k \notin {n, Owner} /\ View(k)'.status = "page" => k \in fresh'
      BY <1>0, <1>v, <2>4 DEF PagesAreFresh, OtherViews
    <3>3. View(n)'.status = "page" => n \in fresh'
      BY <1>0, <1>v, <1>d, <1>l, <2>1, <3>1 DEF CopyOf, PagesAreFresh
    <3>4. View(Owner)'.status = "page" => Owner \in fresh'
      BY <1>0, <1>v, <1>d, <1>l, <2>3, <3>1 DEF CopyOf, NoCopy, PagesAreFresh
    <3> QED
      BY <3>2, <3>3, <3>4 DEF PagesAreFresh
  <2> QED
    BY <2>6, <2>7
<1> QED
  BY <1>1, <1>2, <1>3, <1>4, <1>5, <1>6, <1>7, <1>8, <1>9, <1>10
     DEF Preserved, Control

(* PRX while the owner does not have the page *)
LEMMA PRXTakeAwaySafe ==
    ASSUME SafetyInv, NEW w \in Worker, NEW n \in Node, n = NodeOf[w], HandlePRX(w),
           frame[Owner].state = "EVICTED"
    PROVE  Preserved
<1>0. /\ TypeOK /\ Latches /\ Providers /\ RemoteFrames /\ Waited /\ OwnerFrame
      /\ GuardsHold /\ Mailboxes /\ Registered /\ Allocation /\ PagesAreFresh
      /\ E!EpochInv
  BY DEF SafetyInv, Control
<1>y. /\ Asked(w, Owner, "PRX")
      /\ Answers(w, (IF frame[Owner].possession = "SHARED" THEN "NoPageSharedConflict"
           ELSE "NoPageExclusiveConflict"), frame[Owner].possessors \ {Owner}, frame[Owner].pVersion + 1)
  BY DEF HandlePRX, Answers
<1>x. /\ (IF frame[Owner].possession = "SHARED" THEN "NoPageSharedConflict"
           ELSE "NoPageExclusiveConflict") \in RESULT /\ frame[Owner].possessors \ {Owner} \in SUBSET Node /\ frame[Owner].pVersion + 1 \in Nat
  BY <1>0, FrameType DEF RESULT
<1>z. Asked(w, Owner, "PUR") <=> FALSE
  BY <1>y DEF Asked
<1>a. /\ worker[w].pc = "request" /\ DirectoryFree
      /\ AnswerSent(w, n, (IF frame[Owner].possession = "SHARED" THEN "NoPageSharedConflict"
           ELSE "NoPageExclusiveConflict"), frame[Owner].possessors \ {Owner}, frame[Owner].pVersion + 1)
      /\ View(n) = NoCopy
  BY <1>y, <1>x, <1>z, AnswersFacts
<1>l. /\ worker[w].pc = "request" /\ n # Owner /\ latch[n].x = w /\ latch[n].s = {}
      /\ PageExists /\ latch[Owner].x = NoOne /\ latch[Owner].s = {}
      /\ \A v \in Worker : NodeOf[v] = Owner => ~Claims(v) /\ worker[v].pc # "use"
      /\ UNCHANGED <<worker, provider, latch>>
      /\ downgrading' = {v \in downgrading : NodeOf[v] # Owner}
      /\ \A v \in Worker : v # w => mail'[v] = mail[v]
      /\ \A k \in Node : k # Owner => mail'[w][k] = mail[w][k] /\ mail[w][k] = Nothing
      /\ mail'[w][Owner] = Reply((IF frame[Owner].possession = "SHARED" THEN "NoPageSharedConflict"
           ELSE "NoPageExclusiveConflict"), frame[Owner].possessors \ {Owner}, frame[Owner].pVersion + 1)
      /\ Answered(w, Owner)' /\ \A t \in {"PRS", "PRX", "PUR", "PMR"} : ~Asked(w, Owner, t)'
  BY <1>a DEF AnswerSent
<1>d. /\ DirView = DirOf(frame[Owner].possession, frame[Owner].possessors)
      /\ frame[Owner].possession \in MODE /\ frame[Owner].pVersion \in Nat
      /\ frame[Owner].possessors \subseteq Node
      /\ View(Owner) = IF Owner \in frame[Owner].possessors
            THEN CopyOf("page", frame[Owner].pVersion, frame[Owner].possession, {})
            ELSE NoCopy
      /\ frame[Owner].state = IF Owner \in frame[Owner].possessors
            THEN "HOT" ELSE "EVICTED"
      /\ \A m \in Node : ~Reading(m)
      /\ View(n) = NoCopy
  BY <1>a DEF DirectoryFree
<1>g. /\ worker[w].pc = "request" /\ n # Owner /\ latch[n].x = w /\ latch[n].s = {}
      /\ latch[Owner].x = NoOne /\ latch[Owner].s = {}
      /\ \A v \in Worker : NodeOf[v] = Owner => ~Claims(v) /\ worker[v].pc # "use"
      /\ UNCHANGED <<worker, provider, latch>>
  BY <1>l
<1>v. /\ downgrading' = {v \in downgrading : NodeOf[v] # Owner}
      /\ \A v \in Worker : v # w => mail'[v] = mail[v]
      /\ \A k \in Node : k # Owner => mail'[w][k] = Nothing
      /\ mail'[w][Owner].resultType = (IF frame[Owner].possession = "SHARED" THEN "NoPageSharedConflict"
           ELSE "NoPageExclusiveConflict")
      /\ mail'[w][Owner].conflict = frame[Owner].possessors \ {Owner}
      /\ mail'[w][Owner].pVersion = frame[Owner].pVersion + 1
      /\ frame'[Owner].state = "EVICTED" /\ frame'[Owner].possession = "EXCLUSIVE"
      /\ frame'[Owner].possessors = {n} /\ frame'[Owner].pVersion = frame[Owner].pVersion + 1
      /\ frame'[Owner].mhWaiting = frame[Owner].mhWaiting
      /\ \A k \in Node : k # Owner => frame'[k] = frame[k]
      /\ inflightCRs' = inflightCRs \ {w}
      /\ fresh' = fresh
  <2>1. /\ mail'[w][Owner].resultType = (IF frame[Owner].possession = "SHARED" THEN "NoPageSharedConflict"
           ELSE "NoPageExclusiveConflict")
        /\ mail'[w][Owner].conflict = frame[Owner].possessors \ {Owner}
        /\ mail'[w][Owner].pVersion = frame[Owner].pVersion + 1
    BY <1>l DEF Reply
  <2>2. /\ frame'[Owner].state = "EVICTED" /\ frame'[Owner].possession = "EXCLUSIVE"
        /\ frame'[Owner].possessors = {n} /\ frame'[Owner].pVersion = frame[Owner].pVersion + 1
        /\ frame'[Owner].mhWaiting = frame[Owner].mhWaiting
        /\ \A k \in Node : k # Owner => frame'[k] = frame[k]
    BY <1>0, <1>d DEF HandlePRX, GiveAway, TypeOK, Frame
  <2>3. inflightCRs' = inflightCRs \ {w} /\ fresh' = fresh
    BY <1>0, <1>d DEF HandlePRX, CopyPage, ForgetCopyRequest
  <2> QED
    BY ZenonT(40), <1>l, <2>1, <2>2, <2>3
<1>e. PageExists /\ PageExists'
  BY <1>l, <1>v DEF PageExists
<1>1. Latches'
  BY <1>0, <1>g DEF Latches, Claims, Holds
<1>2. Providers'
  BY <1>0, <1>g, <1>v, <1>e, <1>l, <1>d DEF Providers, Reading, Latches
<1>3. RemoteFrames'
  BY <1>0, <1>g, <1>v, <1>e, <1>l, <1>d DEF RemoteFrames, Claims, Latches
<1>4. Waited'
  BY SMTT(30), <1>0, <1>g, <1>v, <1>e, <1>l, <1>d, WhoAsks DEF Waited, Asked, Mailboxes,
     Mailbox
<1>5. OwnerFrame'
  BY <1>0, <1>g, <1>v, <1>e, <1>l, <1>d DEF OwnerFrame, Claims, Latches
<1>6. GuardsHold'
  BY <1>0, <1>g, <1>v, <1>e, <1>l, <1>d DEF GuardsHold, Possessed, Sufficient,
     IsPossessor, Latches, Holds
<1>7. Mailboxes'
  <2>1. ASSUME NEW v \in Worker, v # w PROVE Mailbox(v)'
    BY <1>0, <1>g, <1>v, <2>1, SameMailbox DEF Mailboxes, Latches, Claims
  <2>2. Mailbox(w)'
    <3>1. RequestMail(w)
      BY <1>0, <1>l DEF Mailboxes, Mailbox
    <3>2. Asked(w, Owner, "PRS") => worker[w].mode = "SHARED"
      BY <1>0, WhoAsks
    <3> QED
      BY <1>l, <1>v, <1>y, <3>1, <3>2 DEF Mailbox, RequestMail, OnlyOwner
  <2> QED
    BY <2>1, <2>2 DEF Mailboxes
<1>8. Registered'
  <2>1. ASSUME NEW v \in Worker, v # w, worker[v].pc = "request", Answered(v, Owner)',
               mail'[v][Owner].resultType = "NoPageEvicted"
        PROVE  v \in inflightCRs'
    BY <1>0, <1>v, <1>g, <2>1 DEF Registered, Answered
  <2> QED
    BY <1>g, <1>v, <2>1 DEF Registered
<1>9. Allocation'
  BY <1>e DEF Allocation
<1>10. EpochStep /\ PagesAreFresh'
  <2>1. View(n)' = CopyOf("moving", frame[Owner].pVersion + 1, "EXCLUSIVE",
                         frame[Owner].possessors \ {Owner})
    <3>1. View(n)' = ClaimView(w)'
      BY <1>e, <1>g DEF View, Claims
    <3> QED
      BY <1>0, <1>g, <1>v, <1>l, <1>y, <3>1, WhoAsks DEF ClaimView, RequestView, GrantStatus
  <2>2. DirView' = [epoch |-> frame[Owner].pVersion + 1, mode |-> "EXCLUSIVE", nodes |-> {n}]
    BY <1>e, <1>g, <1>v DEF DirView, DirOf
  <2>3. View(Owner)' = NoCopy
    BY <1>0, <1>e, <1>g, <1>v, <1>l, <1>d DEF View, OwnerView, Reading
  <2>4. OtherViews({n, Owner})
    <3>1. HandlerOnly(w, {n, Owner})
      BY <1>g, <1>v DEF HandlerOnly, SameFrame
    <3> QED
      BY <1>0, <1>e, <3>1, HandlerViews
  <2>6. EpochStep
    <3>1. ~Has(n) /\ (Has(Owner) <=> Owner \in frame[Owner].possessors) /\ (Has(Owner) => MayUse(Owner))
      BY <1>d DEF MayUse, Has, CopyOf, NoCopy
    <3>2. DirView.mode # "NOBODY" /\ DirView.nodes = frame[Owner].possessors /\ DirView.epoch = frame[Owner].pVersion
      BY <1>d DEF DirOf, MODE
    <3>3. n \notin frame[Owner].possessors
      BY <1>0, <3>1, <3>2, EpochFacts
    <3>4. DirView.nodes \ {Owner, n} = frame[Owner].possessors \ {Owner} /\ ~Has(Owner)
      BY <1>d, <3>1, <3>2, <3>3
    <3> QED
      BY <1>g, <1>d, <2>1, <2>2, <2>3, <2>4, <3>1, <3>2, <3>4, StepNewEpoch DEF MODE
  <2>7. PagesAreFresh'
    <3>1. Owner \in frame[Owner].possessors => Owner \in fresh
      BY <1>0, <1>d DEF PagesAreFresh, CopyOf
    <3>2. \A k \in Node : k \notin {n, Owner} /\ View(k)'.status = "page" => k \in fresh'
      BY <1>0, <1>v, <2>4 DEF PagesAreFresh, OtherViews
    <3>3. View(n)'.status = "page" => n \in fresh'
      BY <1>0, <1>v, <1>d, <1>l, <2>1, <3>1 DEF CopyOf, PagesAreFresh
    <3>4. View(Owner)'.status = "page" => Owner \in fresh'
      BY <1>0, <1>v, <1>d, <1>l, <2>3, <3>1 DEF CopyOf, NoCopy, PagesAreFresh
    <3> QED
      BY <3>2, <3>3, <3>4 DEF PagesAreFresh
  <2> QED
    BY <2>6, <2>7
<1> QED
  BY <1>1, <1>2, <1>3, <1>4, <1>5, <1>6, <1>7, <1>8, <1>9, <1>10
     DEF Preserved, Control

(* PRX while the owner has the page: it is handed over with the answer. *)
LEMMA PRXGiveAwaySafe ==
    ASSUME SafetyInv, NEW w \in Worker, NEW n \in Node, n = NodeOf[w], HandlePRX(w),
           frame[Owner].state # "EVICTED"
    PROVE  Preserved
<1>0. /\ TypeOK /\ Latches /\ Providers /\ RemoteFrames /\ Waited /\ OwnerFrame
      /\ GuardsHold /\ Mailboxes /\ Registered /\ Allocation /\ PagesAreFresh
      /\ E!EpochInv
  BY DEF SafetyInv, Control
<1>y. /\ Asked(w, Owner, "PRX")
      /\ Answers(w, (IF frame[Owner].possessors \ {Owner} # {} THEN "WithPageSharedConflict"
           ELSE "WithPage"), frame[Owner].possessors \ {Owner}, frame[Owner].pVersion + 1)
  BY DEF HandlePRX, Answers
<1>x. /\ (IF frame[Owner].possessors \ {Owner} # {} THEN "WithPageSharedConflict"
           ELSE "WithPage") \in RESULT /\ frame[Owner].possessors \ {Owner} \in SUBSET Node /\ frame[Owner].pVersion + 1 \in Nat
  BY <1>0, FrameType DEF RESULT
<1>z. Asked(w, Owner, "PUR") <=> FALSE
  BY <1>y DEF Asked
<1>a. /\ worker[w].pc = "request" /\ DirectoryFree
      /\ AnswerSent(w, n, (IF frame[Owner].possessors \ {Owner} # {} THEN "WithPageSharedConflict"
           ELSE "WithPage"), frame[Owner].possessors \ {Owner}, frame[Owner].pVersion + 1)
      /\ View(n) = NoCopy
  BY <1>y, <1>x, <1>z, AnswersFacts
<1>l. /\ worker[w].pc = "request" /\ n # Owner /\ latch[n].x = w /\ latch[n].s = {}
      /\ PageExists /\ latch[Owner].x = NoOne /\ latch[Owner].s = {}
      /\ \A v \in Worker : NodeOf[v] = Owner => ~Claims(v) /\ worker[v].pc # "use"
      /\ UNCHANGED <<worker, provider, latch>>
      /\ downgrading' = {v \in downgrading : NodeOf[v] # Owner}
      /\ \A v \in Worker : v # w => mail'[v] = mail[v]
      /\ \A k \in Node : k # Owner => mail'[w][k] = mail[w][k] /\ mail[w][k] = Nothing
      /\ mail'[w][Owner] = Reply((IF frame[Owner].possessors \ {Owner} # {} THEN "WithPageSharedConflict"
           ELSE "WithPage"), frame[Owner].possessors \ {Owner}, frame[Owner].pVersion + 1)
      /\ Answered(w, Owner)' /\ \A t \in {"PRS", "PRX", "PUR", "PMR"} : ~Asked(w, Owner, t)'
  BY <1>a DEF AnswerSent
<1>d. /\ DirView = DirOf(frame[Owner].possession, frame[Owner].possessors)
      /\ frame[Owner].possession \in MODE /\ frame[Owner].pVersion \in Nat
      /\ frame[Owner].possessors \subseteq Node
      /\ View(Owner) = IF Owner \in frame[Owner].possessors
            THEN CopyOf("page", frame[Owner].pVersion, frame[Owner].possession, {})
            ELSE NoCopy
      /\ frame[Owner].state = IF Owner \in frame[Owner].possessors
            THEN "HOT" ELSE "EVICTED"
      /\ \A m \in Node : ~Reading(m)
      /\ View(n) = NoCopy
  BY <1>a DEF DirectoryFree
<1>g. /\ worker[w].pc = "request" /\ n # Owner /\ latch[n].x = w /\ latch[n].s = {}
      /\ latch[Owner].x = NoOne /\ latch[Owner].s = {}
      /\ \A v \in Worker : NodeOf[v] = Owner => ~Claims(v) /\ worker[v].pc # "use"
      /\ UNCHANGED <<worker, provider, latch>>
  BY <1>l
<1>v. /\ downgrading' = {v \in downgrading : NodeOf[v] # Owner}
      /\ \A v \in Worker : v # w => mail'[v] = mail[v]
      /\ \A k \in Node : k # Owner => mail'[w][k] = Nothing
      /\ mail'[w][Owner].resultType = (IF frame[Owner].possessors \ {Owner} # {} THEN "WithPageSharedConflict"
           ELSE "WithPage")
      /\ mail'[w][Owner].conflict = frame[Owner].possessors \ {Owner}
      /\ mail'[w][Owner].pVersion = frame[Owner].pVersion + 1
      /\ frame'[Owner].state = "EVICTED" /\ frame'[Owner].possession = "EXCLUSIVE"
      /\ frame'[Owner].possessors = {n} /\ frame'[Owner].pVersion = frame[Owner].pVersion + 1
      /\ frame'[Owner].mhWaiting = frame[Owner].mhWaiting
      /\ \A k \in Node : k # Owner => frame'[k] = frame[k]
      /\ inflightCRs' = inflightCRs \ {w}
      /\ fresh' = (IF Owner \in fresh THEN fresh \cup {n} ELSE fresh \ {n}) \ {Owner}
  <2>1. /\ mail'[w][Owner].resultType = (IF frame[Owner].possessors \ {Owner} # {} THEN "WithPageSharedConflict"
           ELSE "WithPage")
        /\ mail'[w][Owner].conflict = frame[Owner].possessors \ {Owner}
        /\ mail'[w][Owner].pVersion = frame[Owner].pVersion + 1
    BY <1>l DEF Reply
  <2>2. /\ frame'[Owner].state = "EVICTED" /\ frame'[Owner].possession = "EXCLUSIVE"
        /\ frame'[Owner].possessors = {n} /\ frame'[Owner].pVersion = frame[Owner].pVersion + 1
        /\ frame'[Owner].mhWaiting = frame[Owner].mhWaiting
        /\ \A k \in Node : k # Owner => frame'[k] = frame[k]
    BY <1>0, <1>d DEF HandlePRX, GiveAway, TypeOK, Frame
  <2>3. inflightCRs' = inflightCRs \ {w} /\ fresh' = (IF Owner \in fresh THEN fresh \cup {n} ELSE fresh \ {n}) \ {Owner}
    BY <1>0, <1>d DEF HandlePRX, CopyPage, ForgetCopyRequest
  <2> QED
    BY <1>l, <2>1, <2>2, <2>3
<1>e. PageExists /\ PageExists'
  BY <1>l, <1>v DEF PageExists
<1>1. Latches'
  BY <1>0, <1>g DEF Latches, Claims, Holds
<1>2. Providers'
  BY <1>0, <1>g, <1>v, <1>e, <1>l, <1>d DEF Providers, Reading, Latches
<1>3. RemoteFrames'
  BY <1>0, <1>g, <1>v, <1>e, <1>l, <1>d DEF RemoteFrames, Claims, Latches
<1>4. Waited'
  BY SMTT(30), <1>0, <1>g, <1>v, <1>e, <1>l, <1>d, WhoAsks DEF Waited, Asked, Mailboxes,
     Mailbox
<1>5. OwnerFrame'
  BY <1>0, <1>g, <1>v, <1>e, <1>l, <1>d DEF OwnerFrame, Claims, Latches
<1>6. GuardsHold'
  BY <1>0, <1>g, <1>v, <1>e, <1>l, <1>d DEF GuardsHold, Possessed, Sufficient,
     IsPossessor, Latches, Holds
<1>7. Mailboxes'
  <2>1. ASSUME NEW v \in Worker, v # w PROVE Mailbox(v)'
    BY <1>0, <1>g, <1>v, <2>1, SameMailbox DEF Mailboxes, Latches, Claims
  <2>2. Mailbox(w)'
    <3>1. RequestMail(w)
      BY <1>0, <1>l DEF Mailboxes, Mailbox
    <3>2. Asked(w, Owner, "PRS") => worker[w].mode = "SHARED"
      BY <1>0, WhoAsks
    <3> QED
      BY <1>l, <1>v, <1>y, <3>1, <3>2 DEF Mailbox, RequestMail, OnlyOwner
  <2> QED
    BY <2>1, <2>2 DEF Mailboxes
<1>8. Registered'
  <2>1. ASSUME NEW v \in Worker, v # w, worker[v].pc = "request", Answered(v, Owner)',
               mail'[v][Owner].resultType = "NoPageEvicted"
        PROVE  v \in inflightCRs'
    BY <1>0, <1>v, <1>g, <2>1 DEF Registered, Answered
  <2> QED
    BY <1>g, <1>v, <2>1 DEF Registered
<1>9. Allocation'
  BY <1>e DEF Allocation
<1>10. EpochStep /\ PagesAreFresh'
  <2>1. View(n)' = CopyOf("page", frame[Owner].pVersion + 1, "EXCLUSIVE",
                         frame[Owner].possessors \ {Owner})
    <3>1. View(n)' = ClaimView(w)'
      BY <1>e, <1>g DEF View, Claims
    <3> QED
      BY <1>0, <1>g, <1>v, <1>l, <1>y, <3>1, WhoAsks DEF ClaimView, RequestView, GrantStatus
  <2>2. DirView' = [epoch |-> frame[Owner].pVersion + 1, mode |-> "EXCLUSIVE", nodes |-> {n}]
    BY <1>e, <1>g, <1>v DEF DirView, DirOf
  <2>3. View(Owner)' = NoCopy
    BY <1>0, <1>e, <1>g, <1>v, <1>l, <1>d DEF View, OwnerView, Reading
  <2>4. OtherViews({n, Owner})
    <3>1. HandlerOnly(w, {n, Owner})
      BY <1>g, <1>v DEF HandlerOnly, SameFrame
    <3> QED
      BY <1>0, <1>e, <3>1, HandlerViews
  <2>6. EpochStep
    <3>1. ~Has(n) /\ (Has(Owner) <=> Owner \in frame[Owner].possessors) /\ (Has(Owner) => MayUse(Owner))
      BY <1>d DEF MayUse, Has, CopyOf, NoCopy
    <3>2. DirView.mode # "NOBODY" /\ DirView.nodes = frame[Owner].possessors /\ DirView.epoch = frame[Owner].pVersion
      BY <1>d DEF DirOf, MODE
    <3>3. n \notin frame[Owner].possessors
      BY <1>0, <3>1, <3>2, EpochFacts
    <3>4. DirView.nodes \ {Owner, n} = frame[Owner].possessors \ {Owner} /\ Has(Owner)
      BY <1>d, <3>1, <3>2, <3>3
    <3> QED
      BY <1>g, <1>d, <2>1, <2>2, <2>3, <2>4, <3>1, <3>2, <3>4, StepNewEpoch DEF MODE
  <2>7. PagesAreFresh'
    <3>1. Owner \in frame[Owner].possessors => Owner \in fresh
      BY <1>0, <1>d DEF PagesAreFresh, CopyOf
    <3>2. \A k \in Node : k \notin {n, Owner} /\ View(k)'.status = "page" => k \in fresh'
      BY <1>0, <1>v, <2>4 DEF PagesAreFresh, OtherViews
    <3>3. View(n)'.status = "page" => n \in fresh'
      BY <1>0, <1>v, <1>d, <1>l, <2>1, <3>1 DEF CopyOf, PagesAreFresh
    <3>4. View(Owner)'.status = "page" => Owner \in fresh'
      BY <1>0, <1>v, <1>d, <1>l, <2>3, <3>1 DEF CopyOf, NoCopy, PagesAreFresh
    <3> QED
      BY <3>2, <3>3, <3>4 DEF PagesAreFresh
  <2> QED
    BY <2>6, <2>7
<1> QED
  BY <1>1, <1>2, <1>3, <1>4, <1>5, <1>6, <1>7, <1>8, <1>9, <1>10
     DEF Preserved, Control

(* PUR of a sharer with the current version *)
LEMMA AcceptPURSafe ==
    ASSUME SafetyInv, NEW w \in Worker, NEW n \in Node, n = NodeOf[w], AcceptPUR(w)
    PROVE  Preserved
<1>0. /\ TypeOK /\ Latches /\ Providers /\ RemoteFrames /\ Waited /\ OwnerFrame
      /\ GuardsHold /\ Mailboxes /\ Registered /\ Allocation /\ PagesAreFresh
      /\ E!EpochInv
  BY DEF SafetyInv, Control
<1>y. /\ Asked(w, Owner, "PUR")
      /\ Answers(w, "UpdateSucceedWithSharedConflict", frame[Owner].possessors \ {Owner}, frame[Owner].pVersion + 1)
  BY DEF AcceptPUR, Answers
<1>x. /\ "UpdateSucceedWithSharedConflict" \in RESULT
      /\ frame[Owner].possessors \ {Owner} \in SUBSET Node
      /\ frame[Owner].pVersion + 1 \in Nat
  BY <1>0, FrameType DEF RESULT
<1>z. Asked(w, Owner, "PUR") <=> TRUE
  BY <1>y DEF Asked
<1>a. /\ worker[w].pc = "update" /\ DirectoryFree
      /\ AnswerSent(w, n, "UpdateSucceedWithSharedConflict", frame[Owner].possessors \ {Owner}, frame[Owner].pVersion + 1)
  BY <1>y, <1>x, <1>z, AnswersFacts
<1>l. /\ worker[w].pc = "update" /\ n # Owner /\ latch[n].x = w /\ latch[n].s = {}
      /\ PageExists /\ latch[Owner].x = NoOne /\ latch[Owner].s = {}
      /\ \A v \in Worker : NodeOf[v] = Owner => ~Claims(v) /\ worker[v].pc # "use"
      /\ UNCHANGED <<worker, provider, latch>>
      /\ downgrading' = {v \in downgrading : NodeOf[v] # Owner}
      /\ \A v \in Worker : v # w => mail'[v] = mail[v]
      /\ \A k \in Node : k # Owner => mail'[w][k] = mail[w][k] /\ mail[w][k] = Nothing
      /\ mail'[w][Owner] = Reply("UpdateSucceedWithSharedConflict", frame[Owner].possessors \ {Owner}, frame[Owner].pVersion + 1)
      /\ Answered(w, Owner)' /\ \A t \in {"PRS", "PRX", "PUR", "PMR"} : ~Asked(w, Owner, t)'
  BY <1>a DEF AnswerSent
<1>d. /\ DirView = DirOf(frame[Owner].possession, frame[Owner].possessors)
      /\ frame[Owner].possession \in MODE /\ frame[Owner].pVersion \in Nat
      /\ frame[Owner].possessors \subseteq Node
      /\ View(Owner) = IF Owner \in frame[Owner].possessors
            THEN CopyOf("page", frame[Owner].pVersion, frame[Owner].possession, {})
            ELSE NoCopy
      /\ frame[Owner].state = IF Owner \in frame[Owner].possessors
            THEN "HOT" ELSE "EVICTED"
      /\ \A m \in Node : ~Reading(m)
  BY <1>a DEF DirectoryFree
<1>q. /\ mail[w][Owner].pVersion = worker[w].pVersionOld
      /\ View(n) = CopyOf("page", worker[w].pVersionOld, "SHARED", {})
  <2>1. UpdateMail(w) /\ ~Answered(w, Owner)
    BY <1>0, <1>l, <1>y DEF Mailboxes, Mailbox, Asked, Answered
  <2>2. View(n) = ClaimView(w)
    BY <1>0, <1>l, ClaimIsView DEF Claims
  <2> QED
    BY <1>l, <2>1, <2>2 DEF UpdateMail, ClaimView, UpdateView
<1>g. /\ worker[w].pc = "update" /\ n # Owner /\ latch[n].x = w /\ latch[n].s = {}
      /\ latch[Owner].x = NoOne /\ latch[Owner].s = {}
      /\ \A v \in Worker : NodeOf[v] = Owner => ~Claims(v) /\ worker[v].pc # "use"
      /\ UNCHANGED <<worker, provider, latch>>
  BY <1>l
<1>v. /\ downgrading' = {v \in downgrading : NodeOf[v] # Owner}
      /\ \A v \in Worker : v # w => mail'[v] = mail[v]
      /\ \A k \in Node : k # Owner => mail'[w][k] = Nothing
      /\ mail'[w][Owner].resultType = "UpdateSucceedWithSharedConflict"
      /\ mail'[w][Owner].conflict = frame[Owner].possessors \ {Owner}
      /\ mail'[w][Owner].pVersion = frame[Owner].pVersion + 1
      /\ frame'[Owner].state = "EVICTED" /\ frame'[Owner].possession = "EXCLUSIVE"
      /\ frame'[Owner].possessors = {n} /\ frame'[Owner].pVersion = frame[Owner].pVersion + 1
      /\ frame'[Owner].mhWaiting = FALSE
      /\ \A k \in Node : k # Owner => frame'[k] = frame[k]
      /\ inflightCRs' = inflightCRs \ {w}
      /\ fresh' = fresh \ {Owner}
  <2>1. /\ mail'[w][Owner].resultType = "UpdateSucceedWithSharedConflict"
        /\ mail'[w][Owner].conflict = frame[Owner].possessors \ {Owner}
        /\ mail'[w][Owner].pVersion = frame[Owner].pVersion + 1
    BY <1>l DEF Reply
  <2>2. /\ frame'[Owner].state = "EVICTED" /\ frame'[Owner].possession = "EXCLUSIVE"
        /\ frame'[Owner].possessors = {n} /\ frame'[Owner].pVersion = frame[Owner].pVersion + 1
        /\ frame'[Owner].mhWaiting = FALSE
        /\ \A k \in Node : k # Owner => frame'[k] = frame[k]
    BY <1>0, <1>d DEF AcceptPUR, GiveAway, TypeOK, Frame
  <2>3. inflightCRs' = inflightCRs \ {w} /\ fresh' = fresh \ {Owner}
    BY <1>0, <1>d DEF AcceptPUR, CopyPage, ForgetCopyRequest
  <2> QED
    BY <1>l, <2>1, <2>2, <2>3
<1>e. PageExists /\ PageExists'
  BY <1>l, <1>v DEF PageExists
<1>1. Latches'
  BY <1>0, <1>g DEF Latches, Claims, Holds
<1>2. Providers'
  BY <1>0, <1>g, <1>v, <1>e, <1>l, <1>d DEF Providers, Reading, Latches
<1>3. RemoteFrames'
  BY <1>0, <1>g, <1>v, <1>e, <1>l, <1>d DEF RemoteFrames, Claims, Latches
<1>4. Waited'
  BY <1>0, <1>g, <1>v, <1>e, <1>l, <1>d, WhoAsks DEF Waited, Asked, Mailboxes,
     Mailbox
<1>5. OwnerFrame'
  BY <1>0, <1>g, <1>v, <1>e, <1>l, <1>d DEF OwnerFrame, Claims, Latches
<1>6. GuardsHold'
  BY <1>0, <1>g, <1>v, <1>e, <1>l, <1>d DEF GuardsHold, Possessed, Sufficient,
     IsPossessor, Latches, Holds
<1>7. Mailboxes'
  <2>1. ASSUME NEW v \in Worker, v # w PROVE Mailbox(v)'
    BY <1>0, <1>g, <1>v, <2>1, SameMailbox DEF Mailboxes, Latches, Claims
  <2>2. Mailbox(w)'
    <3>1. UpdateMail(w)
      BY <1>0, <1>l DEF Mailboxes, Mailbox
    <3>2. Asked(w, Owner, "PRS") => worker[w].mode = "SHARED"
      BY <1>0, WhoAsks
    <3> QED
      BY <1>l, <1>v, <1>y, <3>1, <3>2 DEF Mailbox, UpdateMail, OnlyOwner
  <2> QED
    BY <2>1, <2>2 DEF Mailboxes
<1>8. Registered'
  <2>1. ASSUME NEW v \in Worker, v # w, worker[v].pc = "request", Answered(v, Owner)',
               mail'[v][Owner].resultType = "NoPageEvicted"
        PROVE  v \in inflightCRs'
    BY <1>0, <1>v, <1>g, <2>1 DEF Registered, Answered
  <2> QED
    BY <1>g, <1>v, <2>1 DEF Registered
<1>9. Allocation'
  BY <1>e DEF Allocation
<1>10. EpochStep /\ PagesAreFresh'
  <2>1. View(n)' = CopyOf("page", frame[Owner].pVersion + 1, "EXCLUSIVE",
                         (frame[Owner].possessors \ {Owner}) \ {n})
    <3>1. View(n)' = ClaimView(w)'
      BY <1>e, <1>g DEF View, Claims
    <3> QED
      BY <1>0, <1>g, <1>v, <1>l, <1>y, <3>1, WhoAsks DEF ClaimView, UpdateView
  <2>2. DirView' = [epoch |-> frame[Owner].pVersion + 1, mode |-> "EXCLUSIVE", nodes |-> {n}]
    BY <1>e, <1>g, <1>v DEF DirView, DirOf
  <2>3. View(Owner)' = NoCopy
    BY <1>0, <1>e, <1>g, <1>v, <1>l, <1>d DEF View, OwnerView, Reading
  <2>4. OtherViews({n, Owner})
    <3>1. HandlerOnly(w, {n, Owner})
      BY <1>g, <1>v DEF HandlerOnly, SameFrame
    <3> QED
      BY <1>0, <1>e, <3>1, HandlerViews
  <2>6. EpochStep
    <3>1. Has(n) /\ MayUse(n) /\ (Has(Owner) => MayUse(Owner))
      BY <1>d, <1>q DEF MayUse, Has, CopyOf, NoCopy
    <3>2. DirView.mode # "NOBODY" /\ DirView.nodes = frame[Owner].possessors /\ DirView.epoch = frame[Owner].pVersion
      BY <1>d DEF DirOf, MODE
    <3>3. View(n).epoch = DirView.epoch
      <4>1. View(n).epoch <= DirView.epoch
        BY <1>0, <3>1, EpochFacts
      <4>2. worker[w].pVersionOld \in Nat
        BY <1>0, WorkerType
      <4>4. View(n).epoch = worker[w].pVersionOld
        BY <1>q DEF CopyOf
      <4>3. frame[Owner].pVersion <= worker[w].pVersionOld
        BY <1>q DEF AcceptPUR
      <4> QED
        BY <1>d, <3>2, <4>1, <4>2, <4>3, <4>4
    <3>4. DirView.nodes \ {Owner, n} = (frame[Owner].possessors \ {Owner}) \ {n}
      BY <3>2
    <3> QED
      BY <1>g, <2>1, <2>2, <2>3, <2>4, <3>1, <3>2, <3>3, <3>4, StepNewEpoch DEF MODE
  <2>7. PagesAreFresh'
    <3>1. Owner \in frame[Owner].possessors => Owner \in fresh
      BY <1>0, <1>d DEF PagesAreFresh, CopyOf
    <3>2. \A k \in Node : k \notin {n, Owner} /\ View(k)'.status = "page" => k \in fresh'
      BY <1>0, <1>v, <2>4 DEF PagesAreFresh, OtherViews
    <3>3. View(n)'.status = "page" => n \in fresh'
      BY <1>0, <1>v, <1>d, <1>l, <2>1, <3>1, <1>q DEF CopyOf, PagesAreFresh
    <3>4. View(Owner)'.status = "page" => Owner \in fresh'
      BY <1>0, <1>v, <1>d, <1>l, <2>3, <3>1, <1>q DEF CopyOf, NoCopy, PagesAreFresh
    <3> QED
      BY <3>2, <3>3, <3>4 DEF PagesAreFresh
  <2> QED
    BY <2>6, <2>7
<1> QED
  BY <1>1, <1>2, <1>3, <1>4, <1>5, <1>6, <1>7, <1>8, <1>9, <1>10
     DEF Preserved, Control

(* PUR that another request has overtaken *)
LEMMA RejectPURSafe ==
    ASSUME SafetyInv, NEW w \in Worker, NEW n \in Node, n = NodeOf[w], RejectPUR(w)
    PROVE  Preserved
<1>0. /\ TypeOK /\ Latches /\ Providers /\ RemoteFrames /\ Waited /\ OwnerFrame
      /\ GuardsHold /\ Mailboxes /\ Registered /\ Allocation /\ PagesAreFresh
      /\ E!EpochInv
  BY DEF SafetyInv, Control
<1>l. /\ worker[w].pc = "update" /\ ~Answered(w, Owner) /\ UpdateMail(w) /\ latch[n].x = w
      /\ Asked(w, Owner, "PUR")
  BY <1>0, WhoAsks DEF RejectPUR, Answered, Asked, Mailboxes, Mailbox, Latches, Claims
<1>g. /\ worker[w].pc = "update" /\ n # Owner /\ latch[n].x = w
      /\ UNCHANGED <<latch, worker, provider, fresh>>
  BY <1>l DEF RejectPUR, UpdateMail, LatchBriefly
<1>v. /\ inflightCRs' = inflightCRs \ {w}
      /\ downgrading' \subseteq downgrading
      /\ \A v \in Worker : v # w => mail'[v] = mail[v]
      /\ \A k \in Node : k # Owner => mail'[w][k] = Nothing
      /\ mail'[w][Owner] = Reply("UpdateFailed", {}, 0)
      /\ frame'[Owner].state = frame[Owner].state
      /\ frame'[Owner].possession = frame[Owner].possession
      /\ frame'[Owner].possessors = frame[Owner].possessors
      /\ frame'[Owner].pVersion = frame[Owner].pVersion
      /\ frame'[Owner].mhWaiting = FALSE
      /\ \A k \in Node : k # Owner => frame'[k] = frame[k]
  <2>1. AskOne(w, Owner, Reply("UpdateFailed", {}, 0))
    BY DEF RejectPUR
  <2>2. /\ \A v \in Worker : v # w => mail'[v] = mail[v]
        /\ \A k \in Node : k # Owner => mail'[w][k] = Nothing
        /\ mail'[w][Owner] = Reply("UpdateFailed", {}, 0)
    BY <1>0, <1>l, <2>1, AskFacts DEF UpdateMail, OnlyOwner
  <2> QED
    BY <1>0, <2>2 DEF RejectPUR, ForgetCopyRequest, LatchBriefly, TypeOK, Frame
<1>e. PageExists /\ PageExists'
  BY <1>0, <1>g, <1>v, PageIsThere DEF PageExists
<1>m. /\ Answered(w, Owner)' /\ mail'[w][Owner].resultType = "UpdateFailed"
      /\ ~Asked(w, Owner, "PMR")'
  BY <1>v, NotNothing DEF Answered, Asked, Reply, RESULT
<1>1. Latches'
  BY <1>0, <1>g, <1>v, <1>e DEF Latches, Claims, Holds
<1>2. Providers'
  BY <1>0, <1>g, <1>v, <1>e DEF Providers, Reading
<1>3. RemoteFrames'
  BY <1>0, <1>g, <1>v, <1>e DEF RemoteFrames, Claims, Latches
<1>4. Waited'
  BY <1>0, <1>g, <1>v, <1>e, <1>m, WhoAsks DEF Waited, Asked, Mailboxes,
     Mailbox
<1>5. OwnerFrame'
  BY <1>0, <1>g, <1>v, <1>e DEF OwnerFrame, Claims, Latches
<1>6. GuardsHold'
  BY <1>0, <1>g, <1>v, <1>e DEF GuardsHold, Possessed, Sufficient,
     IsPossessor, Latches, Holds
<1>7. Mailboxes'
  <2>1. ASSUME NEW v \in Worker, v # w PROVE Mailbox(v)'
    BY <1>0, <1>g, <1>v, <2>1, SameMailbox DEF Mailboxes, Latches, Claims
  <2>2. Mailbox(w)'
    BY <1>l, <1>g, <1>v, <1>m DEF Mailbox, UpdateMail, OnlyOwner
  <2> QED
    BY <2>1, <2>2 DEF Mailboxes
<1>8. Registered'
  BY <1>0, <1>g, <1>v, <1>e DEF Registered, Answered
<1>9. Allocation'
  BY <1>0, <1>g, <1>v, <1>e DEF Allocation
<1>10. EpochStep /\ PagesAreFresh'
  <2>1. View(n)' = View(n)
    <3>1. View(n) = UpdateView(w)
      BY <1>0, <1>e, <1>l, ClaimIsView DEF Claims, ClaimView
    <3>2. View(n)' = UpdateView(w)'
      BY <1>e, <1>g DEF View, Claims, ClaimView
    <3> QED
      BY <1>g, <1>l, <1>m, <3>1, <3>2 DEF UpdateView, CopyOf
  <2>2. OtherViews({n})
    <3>1. HandlerOnly(w, {n})
      BY <1>g, <1>v DEF HandlerOnly, SameFrame
    <3> QED
      BY <1>0, <1>e, <3>1, HandlerViews
  <2>3. DirView' = DirView
    BY <1>e, <1>g, <1>v DEF DirView, DirOf, Reading
  <2> QED
    BY <1>0, <1>g, <2>1, <2>2, <2>3, StutterStep DEF OtherViews
<1> QED
  BY <1>1, <1>2, <1>3, <1>4, <1>5, <1>6, <1>7, <1>8, <1>9, <1>10
     DEF Preserved, Control

-----------------------------------------------------------------------------
(* The message handlers of the possessors *)

(* The sharer's frame is latched: its handler tries the copy request again *)
(* later.                                                                  *)
LEMMA RetryPCRSafe ==
    ASSUME SafetyInv, NEW w \in Worker, NEW n \in Node, NEW r \in Node, r = NodeOf[w],
           RetryPCR(w, n)
    PROVE  Preserved
<1>0. /\ TypeOK /\ Latches /\ Providers /\ RemoteFrames /\ Waited /\ OwnerFrame
      /\ GuardsHold /\ Mailboxes /\ Registered /\ Allocation /\ PagesAreFresh
      /\ E!EpochInv
  BY DEF SafetyInv, Control
<1>l. /\ worker[w].pc = "copy" /\ PageExists /\ CopyMail(w) /\ n \in worker[w].peers
      /\ \A k \in Node : k # n => mail[w][k] = Nothing
      /\ ~GotCopy(w) /\ latch[r].x = w
      /\ View(r) = CopyOf("copying", frame[r].pVersion, "SHARED", worker[w].peers)
      /\ mail[w][n] \in [type : {"PCR"}, pVersion : Nat, retries : Nat]
  BY <1>0, CopyRequestFacts DEF RetryPCR
<1>g. /\ worker[w].pc = "copy" /\ latch[r].x = w
      /\ UNCHANGED <<frame, latch, worker, inflightCRs, provider, downgrading>>
  BY <1>l DEF RetryPCR
<1>v. /\ \A v \in Worker : v # w => mail'[v] = mail[v]
      /\ \A k \in Node : k # n => mail'[w][k] = Nothing
      /\ mail'[w][n] # Nothing /\ mail'[w][n].type = "PCR"
      /\ fresh' = fresh
  <2>1. mail' = [mail EXCEPT ![w] = [mail[w] EXCEPT ![n] =
                   [mail[w][n] EXCEPT !.retries = mail[w][n].retries + 1]]]
    BY DEF RetryPCR
  <2>2. \A m \in [type : {"PCR"}, pVersion : Nat, retries : Nat] :
           [m EXCEPT !.retries = m.retries + 1] \in [type : {"PCR"}, pVersion : Nat, retries : Nat]
    OBVIOUS
  <2>3. \A m \in [type : {"PCR"}, pVersion : Nat, retries : Nat] : m # Nothing /\ m.type = "PCR"
    BY MailAssumption DEF Request
  <2>4. mail'[w][n] # Nothing /\ mail'[w][n].type = "PCR"
    BY <1>0, <1>l, <2>1, <2>2, <2>3 DEF TypeOK
  <2>5. fresh' = fresh
    BY DEF RetryPCR
  <2> QED
    BY <1>0, <1>l, <2>1, <2>4, <2>5 DEF TypeOK
<1>e. PageExists /\ PageExists'
  BY <1>l, <1>g DEF PageExists
<1>m. /\ (GotCopy(w)' <=> FALSE) /\ (Asked(w, n, "PCR")' \/ Answered(w, n)')
      /\ \A k \in Node : ~Asked(w, k, "PMR")'
  BY <1>v, <1>l, NotNothing DEF Answered, Asked, Reply, RESULT, GotCopy
<1>c. \A k \in Node : ~Asked(w, k, "PMR")
  BY <1>l DEF Asked
<1>1. Latches'
  BY <1>0, <1>g, <1>v, <1>e DEF Latches, Claims, Holds
<1>2. Providers'
  BY <1>0, <1>g, <1>v, <1>e DEF Providers, Reading
<1>3. RemoteFrames'
  BY <1>0, <1>g, <1>v, <1>e DEF RemoteFrames, Claims, Latches
<1>4. Waited'
  BY <1>0, <1>g, <1>v, <1>e, <1>m, <1>c DEF Waited, Asked, Mailboxes, Mailbox
<1>5. OwnerFrame'
  BY <1>0, <1>g, <1>v, <1>e DEF OwnerFrame, Claims, Latches
<1>6. GuardsHold'
  BY <1>0, <1>g, <1>v, <1>e DEF GuardsHold, Possessed, Sufficient,
     IsPossessor, Latches, Holds
<1>7. Mailboxes'
  <2>1. ASSUME NEW v \in Worker, v # w PROVE Mailbox(v)'
    BY <1>0, <1>g, <1>v, <2>1, SameMailbox DEF Mailboxes, Latches, Claims
  <2>2. Mailbox(w)'
    BY <1>l, <1>g, <1>v, <1>m DEF Mailbox, CopyMail
  <2> QED
    BY <2>1, <2>2 DEF Mailboxes
<1>8. Registered'
  BY <1>0, <1>g, <1>v, <1>e DEF Registered, Answered
<1>9. Allocation'
  BY <1>0, <1>g, <1>v, <1>e DEF Allocation
<1>10. EpochStep /\ PagesAreFresh'
  <2>1. View(r)' = CopyView(w)'
    BY <1>e, <1>g DEF View, Claims, ClaimView
  <2>2. OtherViews({r})
    <3>1. HandlerOnly(w, {r})
      BY <1>g, <1>v DEF HandlerOnly, SameFrame
    <3> QED
      BY <1>0, <1>e, <3>1, HandlerViews
  <2>3. DirView' = DirView
    BY <1>e, <1>g, <1>v DEF DirView, DirOf, Reading
  <2>4. View(r)' = View(r)
    BY <1>g, <1>l, <1>m, <2>1 DEF CopyView, CopyOf
  <2> QED
    BY <1>0, <1>v, <2>2, <2>3, <2>4, StutterStep DEF OtherViews
<1> QED
  BY <1>1, <1>2, <1>3, <1>4, <1>5, <1>6, <1>7, <1>8, <1>9, <1>10
     DEF Preserved, Control

(* The sharer's frame is gone, of another version, latched for too long or *)
(* given up: the copy request fails.                                       *)
LEMMA RejectPCRSafe ==
    ASSUME SafetyInv, NEW w \in Worker, NEW n \in Node, NEW r \in Node, r = NodeOf[w],
           RejectPCR(w, n)
    PROVE  Preserved
<1>0. /\ TypeOK /\ Latches /\ Providers /\ RemoteFrames /\ Waited /\ OwnerFrame
      /\ GuardsHold /\ Mailboxes /\ Registered /\ Allocation /\ PagesAreFresh
      /\ E!EpochInv
  BY DEF SafetyInv, Control
<1>l. /\ worker[w].pc = "copy" /\ PageExists /\ CopyMail(w) /\ n \in worker[w].peers
      /\ \A k \in Node : k # n => mail[w][k] = Nothing
      /\ ~GotCopy(w) /\ latch[r].x = w
      /\ View(r) = CopyOf("copying", frame[r].pVersion, "SHARED", worker[w].peers)
      /\ mail[w][n] \in [type : {"PCR"}, pVersion : Nat, retries : Nat]
  BY <1>0, CopyRequestFacts DEF RejectPCR
<1>g. /\ worker[w].pc = "copy" /\ latch[r].x = w
      /\ UNCHANGED <<frame, latch, worker, inflightCRs, provider, downgrading>>
  BY <1>l DEF RejectPCR
<1>v. /\ \A v \in Worker : v # w => mail'[v] = mail[v]
      /\ \A k \in Node : k # n => mail'[w][k] = Nothing
      /\ \E res \in {"CopyFailedWithInvalidation", "CopyFailedWithRestart"} :
           mail'[w][n] = Reply(res, {}, 0)
      /\ fresh' = fresh
  <2>1. PICK res \in {"CopyFailedWithInvalidation", "CopyFailedWithRestart"} :
          AskOne(w, n, Reply(res, {}, 0))
    BY DEF RejectPCR
  <2>2. fresh' = fresh
    BY DEF RejectPCR
  <2> QED
    BY <1>0, <1>l, <2>1, <2>2, AskFacts
<1>e. PageExists /\ PageExists'
  BY <1>l, <1>g DEF PageExists
<1>m. /\ (GotCopy(w)' <=> FALSE) /\ (Asked(w, n, "PCR")' \/ Answered(w, n)')
      /\ \A k \in Node : ~Asked(w, k, "PMR")'
  BY <1>v, <1>l, NotNothing DEF Answered, Asked, Reply, RESULT, GotCopy
<1>c. \A k \in Node : ~Asked(w, k, "PMR")
  BY <1>l DEF Asked
<1>1. Latches'
  BY <1>0, <1>g, <1>v, <1>e DEF Latches, Claims, Holds
<1>2. Providers'
  BY <1>0, <1>g, <1>v, <1>e DEF Providers, Reading
<1>3. RemoteFrames'
  BY <1>0, <1>g, <1>v, <1>e DEF RemoteFrames, Claims, Latches
<1>4. Waited'
  BY <1>0, <1>g, <1>v, <1>e, <1>m, <1>c DEF Waited, Asked, Mailboxes, Mailbox
<1>5. OwnerFrame'
  BY <1>0, <1>g, <1>v, <1>e DEF OwnerFrame, Claims, Latches
<1>6. GuardsHold'
  BY <1>0, <1>g, <1>v, <1>e DEF GuardsHold, Possessed, Sufficient,
     IsPossessor, Latches, Holds
<1>7. Mailboxes'
  <2>1. ASSUME NEW v \in Worker, v # w PROVE Mailbox(v)'
    BY <1>0, <1>g, <1>v, <2>1, SameMailbox DEF Mailboxes, Latches, Claims
  <2>2. Mailbox(w)'
    BY <1>l, <1>g, <1>v, <1>m DEF Mailbox, CopyMail
  <2> QED
    BY <2>1, <2>2 DEF Mailboxes
<1>8. Registered'
  BY <1>0, <1>g, <1>v, <1>e DEF Registered, Answered
<1>9. Allocation'
  BY <1>0, <1>g, <1>v, <1>e DEF Allocation
<1>10. EpochStep /\ PagesAreFresh'
  <2>1. View(r)' = CopyView(w)'
    BY <1>e, <1>g DEF View, Claims, ClaimView
  <2>2. OtherViews({r})
    <3>1. HandlerOnly(w, {r})
      BY <1>g, <1>v DEF HandlerOnly, SameFrame
    <3> QED
      BY <1>0, <1>e, <3>1, HandlerViews
  <2>3. DirView' = DirView
    BY <1>e, <1>g, <1>v DEF DirView, DirOf, Reading
  <2>4. View(r)' = View(r)
    BY <1>g, <1>l, <1>m, <2>1 DEF CopyView, CopyOf
  <2> QED
    BY <1>0, <1>v, <2>2, <2>3, <2>4, StutterStep DEF OtherViews
<1> QED
  BY <1>1, <1>2, <1>3, <1>4, <1>5, <1>6, <1>7, <1>8, <1>9, <1>10
     DEF Preserved, Control

(* The sharer sends the page. *)
LEMMA AcceptPCRSafe ==
    ASSUME SafetyInv, NEW w \in Worker, NEW n \in Node, NEW r \in Node, r = NodeOf[w],
           AcceptPCR(w, n)
    PROVE  Preserved
<1>0. /\ TypeOK /\ Latches /\ Providers /\ RemoteFrames /\ Waited /\ OwnerFrame
      /\ GuardsHold /\ Mailboxes /\ Registered /\ Allocation /\ PagesAreFresh
      /\ E!EpochInv
  BY DEF SafetyInv, Control
<1>l. /\ worker[w].pc = "copy" /\ PageExists /\ CopyMail(w) /\ n \in worker[w].peers
      /\ \A k \in Node : k # n => mail[w][k] = Nothing
      /\ ~GotCopy(w) /\ latch[r].x = w
      /\ View(r) = CopyOf("copying", frame[r].pVersion, "SHARED", worker[w].peers)
      /\ mail[w][n] \in [type : {"PCR"}, pVersion : Nat, retries : Nat]
  BY <1>0, CopyRequestFacts DEF AcceptPCR, ReadyToCopy
<1>o. n # Owner
  BY <1>0, <1>l, EpochFacts DEF CopyOf
<1>n. View(n) = CopyOf("page", frame[n].pVersion, frame[n].possession, {})
  <2>1. /\ latch[n].x = NoOne /\ frame[n].state # "FREE"
        /\ ~(frame[n].mhWaiting /\ frame[n].state # "HOT")
    BY DEF AcceptPCR, ReadyToCopy
  <2>2. frame[n].state = "HOT"
    BY <1>0, <1>o, <2>1, FrameType DEF RemoteFrames, BF_STATE
  <2>3. provider[n] # "accepted"
    BY <1>0, <1>o, <2>1 DEF Providers
  <2> QED
    BY <1>l, <1>o, <2>1, <2>2, <2>3 DEF View, FrameView
<1>g. /\ worker[w].pc = "copy" /\ latch[r].x = w
      /\ UNCHANGED <<frame, latch, worker, inflightCRs, provider, downgrading>>
  BY <1>l DEF AcceptPCR, ReadyToCopy
<1>v. /\ \A v \in Worker : v # w => mail'[v] = mail[v]
      /\ \A k \in Node : k # n => mail'[w][k] = Nothing
      /\ mail'[w][n] = Reply("WithPage", {}, 0)
      /\ fresh' = fresh \cup {r}
  <2>1. AskOne(w, n, Reply("WithPage", {}, 0)) /\ CopyPage(n, r)
    BY DEF AcceptPCR, ReadyToCopy
  <2> QED
    BY <1>0, <1>l, <1>n, <2>1, AskFacts DEF CopyPage, PagesAreFresh, CopyOf
<1>e. PageExists /\ PageExists'
  BY <1>l, <1>g DEF PageExists
<1>m. /\ (GotCopy(w)' <=> TRUE) /\ (Asked(w, n, "PCR")' \/ Answered(w, n)')
      /\ \A k \in Node : ~Asked(w, k, "PMR")'
  BY <1>v, <1>l, NotNothing DEF Answered, Asked, Reply, RESULT, GotCopy
<1>c. \A k \in Node : ~Asked(w, k, "PMR")
  BY <1>l DEF Asked
<1>1. Latches'
  BY <1>0, <1>g, <1>v, <1>e DEF Latches, Claims, Holds
<1>2. Providers'
  BY <1>0, <1>g, <1>v, <1>e DEF Providers, Reading
<1>3. RemoteFrames'
  BY <1>0, <1>g, <1>v, <1>e DEF RemoteFrames, Claims, Latches
<1>4. Waited'
  BY <1>0, <1>g, <1>v, <1>e, <1>m, <1>c DEF Waited, Asked, Mailboxes, Mailbox
<1>5. OwnerFrame'
  BY <1>0, <1>g, <1>v, <1>e DEF OwnerFrame, Claims, Latches
<1>6. GuardsHold'
  BY <1>0, <1>g, <1>v, <1>e DEF GuardsHold, Possessed, Sufficient,
     IsPossessor, Latches, Holds
<1>7. Mailboxes'
  <2>1. ASSUME NEW v \in Worker, v # w PROVE Mailbox(v)'
    BY <1>0, <1>g, <1>v, <2>1, SameMailbox DEF Mailboxes, Latches, Claims
  <2>2. Mailbox(w)'
    BY <1>l, <1>g, <1>v, <1>m DEF Mailbox, CopyMail
  <2> QED
    BY <2>1, <2>2 DEF Mailboxes
<1>8. Registered'
  BY <1>0, <1>g, <1>v, <1>e DEF Registered, Answered
<1>9. Allocation'
  BY <1>0, <1>g, <1>v, <1>e DEF Allocation
<1>10. EpochStep /\ PagesAreFresh'
  <2>1. View(r)' = CopyView(w)'
    BY <1>e, <1>g DEF View, Claims, ClaimView
  <2>2. OtherViews({r})
    <3>1. HandlerOnly(w, {r})
      BY <1>g, <1>v DEF HandlerOnly, SameFrame
    <3> QED
      BY <1>0, <1>e, <3>1, HandlerViews
  <2>3. DirView' = DirView
    BY <1>e, <1>g, <1>v DEF DirView, DirOf, Reading
  <2>4. View(r)' = CopyOf("page", View(r).epoch, "SHARED", {})
    BY <1>g, <1>l, <1>m, <2>1 DEF CopyView, CopyOf
  <2>5. EpochStep
    BY <1>l, <1>n, <2>2, <2>3, <2>4, StepCopied DEF CopyOf, MayUse
  <2> QED
    BY <1>0, <1>v, <2>2, <2>5 DEF OtherViews, PagesAreFresh
<1> QED
  BY <1>1, <1>2, <1>3, <1>4, <1>5, <1>6, <1>7, <1>8, <1>9, <1>10
     DEF Preserved, Control

(* The holder gives up its copy, with the page if it is asked for. *)
LEMMA HandlePMRSafe ==
    ASSUME SafetyInv, NEW w \in Worker, NEW n \in Node, NEW r \in Node, r = NodeOf[w],
           HandlePMR(w, n)
    PROVE  Preserved
<1>0. /\ TypeOK /\ Latches /\ Providers /\ RemoteFrames /\ Waited /\ OwnerFrame
      /\ GuardsHold /\ Mailboxes /\ Registered /\ Allocation /\ PagesAreFresh
      /\ E!EpochInv
  BY DEF SafetyInv, Control
<1>y. Asked(w, n, "PMR") /\ CanLatchExclusive(n)
  BY DEF HandlePMR
<1>l. /\ PageExists /\ latch[r].x = w /\ Claims(w) /\ n # Owner
      /\ worker[w].pc = (IF mail[w][n].needPage THEN "move" ELSE "invalidate")
      /\ View(r) = ClaimView(w)
      /\ n \in View(r).wait /\ View(r).status \in {"moving", "page"} /\ Has(n)
      /\ View(n).epoch + 1 = View(r).epoch
      /\ ~mail[w][n].needPage => View(r).status = "page"
  BY <1>0, <1>y, MoveRequestFacts
<1>f. /\ latch[n].x = NoOne /\ latch[n].s = {}
      /\ \A v \in Worker : NodeOf[v] = n => ~Claims(v) /\ worker[v].pc # "use"
  BY <1>0, <1>y, FreeFrame
<1>h. \/ /\ frame[n].state = "HOT"
         /\ View(n) = CopyOf("page", frame[n].pVersion, frame[n].possession, {})
      \/ frame[n].state = "IO_RDMA" /\ View(n) = CopyOf("copying", frame[n].pVersion, "SHARED", {})
  <2>1. View(n) = FrameView(n)
    BY <1>f, <1>l DEF View
  <2> QED
    BY <1>f, <1>l, <2>1 DEF FrameView, Has, NoCopy, CopyOf
<1>p. frame[n].state = "IO_RDMA" => ~mail[w][n].needPage
  <2> SUFFICES ASSUME frame[n].state = "IO_RDMA" PROVE ~mail[w][n].needPage
    OBVIOUS
  <2>1. PICK v \in Worker : Asked(v, n, "PMR") /\ ~mail[v][n].needPage
    BY <1>0, <1>f, <1>l, AbandonedCopy
  <2>2. NodeOf[v] \in Node
    BY NodeAssumption
  <2>3. /\ latch[NodeOf[v]].x = v /\ n \in View(NodeOf[v]).wait
        /\ View(NodeOf[v]).status \in {"moving", "page"}
        /\ View(n).epoch + 1 = View(NodeOf[v]).epoch
    BY <1>0, <2>1, <2>2, MoveRequestFacts
  <2>4. NodeOf[v] = r
    BY <1>0, <1>l, <2>2, <2>3, EpochFacts DEF Has
  <2> QED
    BY <1>l, <2>1, <2>3, <2>4
<1>g. /\ n # Owner /\ n # r /\ latch[r].x = w /\ latch[n].x = NoOne /\ latch[n].s = {}
      /\ \A v \in Worker : NodeOf[v] = n => ~Claims(v) /\ worker[v].pc # "use"
      /\ worker[w].pc \in {"move", "invalidate"} /\ frame[n].state # "FREE" /\ provider[n] = "idle"
      /\ UNCHANGED <<frame, worker, inflightCRs, provider>>
  BY <1>0, <1>l, <1>f, <1>h DEF HandlePMR, Providers
<1>v. /\ latch'[n].x = MessageHandler /\ latch'[n].s = {}
      /\ \A k \in Node : k # n => latch'[k] = latch[k]
      /\ downgrading' = {v \in downgrading : NodeOf[v] # n}
      /\ \A v \in Worker : v # w => mail'[v] = mail[v]
      /\ \A k \in Node : k # n => mail'[w][k] = mail[w][k]
      /\ mail'[w][n] # Nothing /\ mail'[w][n].type = "RESPONSE"
      /\ fresh' = IF mail[w][n].needPage THEN fresh \cup {r} ELSE fresh
  <2>1. AskOne(w, n, Reply(IF mail[w][n].needPage THEN "WithPage" ELSE "NoPage", {}, 0))
    BY DEF HandlePMR
  <2>2. /\ mail'[w][n] = Reply(IF mail[w][n].needPage THEN "WithPage" ELSE "NoPage", {}, 0)
        /\ \A k \in Node : k # n => mail'[w][k] = mail[w][k]
        /\ \A v \in Worker : v # w => mail'[v] = mail[v]
    BY <1>0, <2>1, AskFacts
  <2>3. mail'[w][n] # Nothing /\ mail'[w][n].type = "RESPONSE"
    BY <2>2, NotNothing DEF Reply, RESULT
  <2>4. fresh' = IF mail[w][n].needPage THEN fresh \cup {r} ELSE fresh
    BY <1>0, <1>h, <1>p DEF HandlePMR, CopyPage, PagesAreFresh, CopyOf
  <2>5. /\ latch'[n].x = MessageHandler /\ latch'[n].s = {}
        /\ \A k \in Node : k # n => latch'[k] = latch[k]
        /\ downgrading' = {v \in downgrading : NodeOf[v] # n}
    BY <1>0, <1>f DEF HandlePMR, LatchExclusive, TypeOK, Latch
  <2> QED
    BY <2>2, <2>3, <2>4, <2>5
<1>e. PageExists /\ PageExists'
  BY <1>l, <1>g DEF PageExists
<1>m. /\ Answered(w, n)' /\ ~Asked(w, n, "PMR")'
      /\ \A k \in Node : k # n => /\ (Asked(w, k, "PMR")' <=> Asked(w, k, "PMR"))
                                   /\ (Answered(w, k)' <=> Answered(w, k))
  BY <1>v DEF Asked, Answered
<1>a. AskedFor(w)' = AskedFor(w) \ {n} /\ n \in AskedFor(w)
  BY <1>m, <1>y DEF AskedFor
<1>1. Latches'
  BY <1>0, <1>g, <1>v, <1>e DEF Latches, Claims, Holds
<1>2. Providers'
  BY <1>0, <1>g, <1>v, <1>e DEF Providers, Reading
<1>3. RemoteFrames'
  BY <1>0, <1>g, <1>v, <1>e DEF RemoteFrames, Claims, Latches
<1>4. Waited'
  BY <1>0, <1>g, <1>v, <1>e, <1>m DEF Waited, Asked, Mailboxes, Mailbox
<1>5. OwnerFrame'
  BY <1>0, <1>g, <1>v, <1>e DEF OwnerFrame, Claims, Latches
<1>6. GuardsHold'
  BY <1>0, <1>g, <1>v, <1>e DEF GuardsHold, Possessed, Sufficient,
     IsPossessor, Latches, Holds
<1>7. Mailboxes'
  <2>1. ASSUME NEW v \in Worker, v # w PROVE Mailbox(v)'
    BY <1>0, <1>g, <1>v, <2>1, SameMailbox DEF Mailboxes, Latches, Claims
  <2>2. Mailbox(w)'
    <3>1. CASE worker[w].pc = "move"
      BY <1>0, <1>g, <1>v, <1>m, <1>y, <3>1 DEF Mailboxes, Mailbox, MoveMail, Asked, Answered
    <3>2. CASE worker[w].pc = "invalidate"
      BY <1>0, <1>g, <1>v, <1>m, <1>y, <3>2 DEF Mailboxes, Mailbox, InvalidateMail, Asked
    <3> QED
      BY <1>g, <3>1, <3>2
  <2> QED
    BY <2>1, <2>2 DEF Mailboxes
<1>8. Registered'
  BY <1>0, <1>g, <1>v, <1>e DEF Registered, Answered
<1>9. Allocation'
  BY <1>0, <1>g, <1>v, <1>e DEF Allocation
<1>10. EpochStep /\ PagesAreFresh'
  <2>1. View(n)' = NoCopy
    BY <1>e, <1>g, <1>v DEF View, FrameView
  <2>2. OtherViews({n, r})
    <3>1. HandlerOnly(w, {n, r})
      BY <1>g, <1>v DEF HandlerOnly, SameFrame
    <3> QED
      BY <1>0, <1>e, <3>1, HandlerViews
  <2>3. DirView' = DirView
    BY <1>e, <1>g, <1>v DEF DirView, DirOf, Reading
  <2>4. View(r)' = CopyOf("page", View(r).epoch, View(r).mode, View(r).wait \ {n})
    <3>1. View(r)' = ClaimView(w)'
      BY <1>e, <1>g, <1>v DEF View, Claims
    <3>2. CASE worker[w].pc = "invalidate"
      <4>1. View(r) = CopyOf("page", frame[r].pVersion, worker[w].mode, AskedFor(w))
        BY <1>l, <3>2 DEF ClaimView, InvalidateView
      <4>2. View(r)' = CopyOf("page", frame[r].pVersion, worker[w].mode, AskedFor(w)')
        BY <1>g, <3>1, <3>2 DEF ClaimView, InvalidateView, CopyOf
      <4> QED
        BY <1>a, <4>1, <4>2 DEF CopyOf
    <3>3. CASE worker[w].pc = "move"
      <4>1. n \notin worker[w].peers
        BY <1>0, <1>y, <3>3 DEF Mailboxes, Mailbox, MoveMail, Asked
      <4>2. (worker[w].peers \cup AskedFor(w)) \ {n} = worker[w].peers \cup AskedFor(w)'
        BY <1>a, <4>1
      <4>3. \E src \in Node : Answered(w, src)'
        BY <1>m
      <4>4. /\ View(r).epoch = frame[r].pVersion /\ View(r).mode = worker[w].mode
            /\ View(r).wait = worker[w].peers \cup AskedFor(w)
        BY <1>l, <3>3 DEF ClaimView, MoveView, CopyOf
      <4>5. View(r)' = CopyOf("page", frame[r].pVersion, worker[w].mode,
                              worker[w].peers \cup AskedFor(w)')
        BY <1>g, <3>1, <3>3, <4>3 DEF ClaimView, MoveView, CopyOf
      <4> QED
        BY <4>2, <4>4, <4>5
    <3> QED
      BY <1>g, <3>2, <3>3
  <2>5. MayUse(n) \/ (View(n).status = "copying" /\ View(r).status = "page")
    BY <1>h, <1>p, <1>l DEF MayUse, CopyOf
  <2>6. EpochStep
    BY <1>g, <1>l, <2>1, <2>2, <2>3, <2>4, <2>5, StepGiveUp
  <2>7. r \in fresh'
    BY <1>0, <1>l, <1>v DEF PagesAreFresh
  <2>8. View(n)'.status # "page"
    BY <2>1 DEF NoCopy, CopyOf
  <2> QED
    BY <1>0, <1>v, <2>2, <2>6, <2>7, <2>8 DEF OtherViews, PagesAreFresh
<1> QED
  BY <1>1, <1>2, <1>3, <1>4, <1>5, <1>6, <1>7, <1>8, <1>9, <1>10
     DEF Preserved, Control

-----------------------------------------------------------------------------
(* The page providers *)

(* The owner's page provider meets a page that it may not drop. *)
LEMMA OwnerPageKeptSafe ==
    ASSUME SafetyInv, EvictOwnerPage,
           ~(frame[Owner].possession = "SHARED" /\ frame[Owner].possessors \ {Owner} # {})
    PROVE  Preserved
<1>0. /\ TypeOK /\ Latches /\ Providers /\ RemoteFrames /\ Waited /\ OwnerFrame
      /\ GuardsHold /\ Mailboxes /\ Registered /\ Allocation /\ PagesAreFresh
      /\ E!EpochInv
  BY DEF SafetyInv, Control
<1>z. PageExists
  BY <1>0 DEF EvictOwnerPage, Allocation, PageExists, EmptyFrame
<1>g. /\ UNCHANGED <<frame, latch, worker, mail, inflightCRs, provider, fresh>>
  BY DEF EvictOwnerPage, LatchBriefly
<1>v. /\ downgrading' \subseteq downgrading
  BY DEF EvictOwnerPage, LatchBriefly
<1>e. PageExists /\ PageExists'
  BY <1>z, <1>g DEF PageExists
<1>1. Latches'
  BY <1>0, <1>g, <1>v, <1>e DEF Latches, Claims, Holds
<1>2. Providers'
  BY <1>0, <1>g, <1>v, <1>e DEF Providers, Reading
<1>3. RemoteFrames'
  BY <1>0, <1>g, <1>v, <1>e DEF RemoteFrames, Claims, Latches
<1>4. Waited'
  BY <1>0, <1>g, <1>v, <1>e DEF Waited, Asked, Mailboxes, Mailbox
<1>5. OwnerFrame'
  BY <1>0, <1>g, <1>v, <1>e DEF OwnerFrame, Claims, Latches
<1>6. GuardsHold'
  BY <1>0, <1>g, <1>v, <1>e DEF GuardsHold, Possessed, Sufficient,
     IsPossessor, Latches, Holds
<1>7. Mailboxes'
  <2>1. ASSUME NEW v \in Worker PROVE Mailbox(v)'
    BY <1>0, <1>g, <1>v, <2>1, SameMailbox DEF Mailboxes, Latches, Claims
  <2> QED
    BY <2>1 DEF Mailboxes
<1>8. Registered'
  BY <1>0, <1>g, <1>v, <1>e DEF Registered, Answered
<1>9. Allocation'
  BY <1>0, <1>g, <1>v, <1>e DEF Allocation
<1>10. EpochStep /\ PagesAreFresh'
  <2>1. ASSUME NEW k \in Node PROVE SameFrame(k) /\ SameHolder(k)
    BY <1>0, <1>g, <1>v, <2>1 DEF SameFrame, SameHolder, Latches, Claims, Holds
  <2>2. SameReading
    BY <1>g DEF SameReading, Reading
  <2>3. DirView' = DirView /\ OtherViews({})
    BY <1>0, <1>e, <1>g, <2>1, <2>2, AllSame
  <2> QED
    BY <1>0, <1>g, <2>3, StutterStep
<1> QED
  BY <1>1, <1>2, <1>3, <1>4, <1>5, <1>6, <1>7, <1>8, <1>9, <1>10
     DEF Preserved, Control

(* The owner's page provider drops a page that other nodes share. *)
LEMMA OwnerPageDroppedSafe ==
    ASSUME SafetyInv, EvictOwnerPage,
           frame[Owner].possession = "SHARED", frame[Owner].possessors \ {Owner} # {}
    PROVE  Preserved
<1>0. /\ TypeOK /\ Latches /\ Providers /\ RemoteFrames /\ Waited /\ OwnerFrame
      /\ GuardsHold /\ Mailboxes /\ Registered /\ Allocation /\ PagesAreFresh
      /\ E!EpochInv
  BY DEF SafetyInv, Control
<1>y. frame[Owner].state = "HOT" /\ CanLatchExclusive(Owner)
  BY DEF EvictOwnerPage
<1>z. PageExists
  BY <1>0, <1>y DEF Allocation, PageExists, EmptyFrame
<1>f. /\ latch[Owner].x = NoOne /\ latch[Owner].s = {}
      /\ \A v \in Worker : NodeOf[v] = Owner => ~Claims(v) /\ worker[v].pc # "use"
  BY <1>0, <1>y, FreeFrame
<1>d. /\ DirView = DirOf("SHARED", frame[Owner].possessors)
      /\ Owner \in frame[Owner].possessors
      /\ View(Owner) = CopyOf("page", frame[Owner].pVersion, "SHARED", {})
      /\ \A m \in Node : ~Reading(m)
  BY <1>0, <1>y, <1>z, <1>f, FreeDirectory
<1>g. /\ latch[Owner].x = NoOne /\ latch[Owner].s = {}
      /\ \A v \in Worker : NodeOf[v] = Owner => ~Claims(v) /\ worker[v].pc # "use"
      /\ UNCHANGED <<latch, worker, mail, inflightCRs, provider>>
  BY <1>f DEF EvictOwnerPage, LatchBriefly
<1>v. /\ frame'[Owner].state = "EVICTED" /\ frame'[Owner].possession = frame[Owner].possession
      /\ frame'[Owner].possessors = frame[Owner].possessors \ {Owner}
      /\ frame'[Owner].pVersion = frame[Owner].pVersion
      /\ frame'[Owner].mhWaiting = frame[Owner].mhWaiting
      /\ \A k \in Node : k # Owner => frame'[k] = frame[k]
      /\ downgrading' = {v \in downgrading : NodeOf[v] # Owner}
      /\ fresh' = fresh \ {Owner}
  BY <1>0 DEF EvictOwnerPage, LatchBriefly, TypeOK, Frame
<1>e. PageExists /\ PageExists'
  BY <1>z, <1>g, <1>v DEF PageExists
<1>1. Latches'
  BY <1>0, <1>g, <1>v, <1>e, <1>d DEF Latches, Claims, Holds
<1>2. Providers'
  BY <1>0, <1>g, <1>v, <1>e, <1>d DEF Providers, Reading
<1>3. RemoteFrames'
  BY <1>0, <1>g, <1>v, <1>e, <1>d DEF RemoteFrames, Claims, Latches
<1>4. Waited'
  BY <1>0, <1>g, <1>v, <1>e, <1>d DEF Waited, Asked, Mailboxes, Mailbox
<1>5. OwnerFrame'
  BY <1>0, <1>g, <1>v, <1>e, <1>d DEF OwnerFrame, Claims, Latches
<1>6. GuardsHold'
  BY <1>0, <1>g, <1>v, <1>e, <1>d DEF GuardsHold, Possessed, Sufficient,
     IsPossessor, Latches, Holds
<1>7. Mailboxes'
  <2>1. ASSUME NEW v \in Worker PROVE Mailbox(v)'
    BY <1>0, <1>g, <1>v, <2>1, SameMailbox DEF Mailboxes, Latches, Claims
  <2> QED
    BY <2>1 DEF Mailboxes
<1>8. Registered'
  BY <1>0, <1>g, <1>v, <1>e, <1>d DEF Registered, Answered
<1>9. Allocation'
  BY <1>0, <1>g, <1>v, <1>e, <1>d DEF Allocation
<1>10. EpochStep /\ PagesAreFresh'
  <2>1. View(Owner)' = NoCopy
    BY <1>e, <1>g, <1>v DEF View, OwnerView
  <2>2. DirView' = DirOf("SHARED", frame[Owner].possessors \ {Owner})
    BY <1>e, <1>g, <1>v DEF DirView, DirOf
  <2>3. OtherViews({Owner})
    <3>1. ASSUME NEW k \in Node, k # Owner PROVE SameFrame(k) /\ SameHolder(k)
      BY <1>g, <1>v, <3>1 DEF SameFrame, SameHolder
    <3> QED
      BY <1>0, <1>e, <1>g, <3>1, SameView DEF OtherViews
  <2>4. EpochStep
    <3>1. DirView' = [DirView EXCEPT !.nodes = @ \ {Owner}]
      BY <1>d, <2>2 DEF DirOf
    <3>2. DirView.mode = "SHARED" /\ DirView.nodes # {Owner} /\ MayUse(Owner)
      BY <1>d DEF DirOf, MayUse, CopyOf
    <3> QED
      BY <2>1, <2>3, <3>1, <3>2, StepOwnerLeaves
  <2> QED
    BY <1>0, <1>v, <2>1, <2>3, <2>4 DEF OtherViews, PagesAreFresh, NoCopy, CopyOf
<1> QED
  BY <1>1, <1>2, <1>3, <1>4, <1>5, <1>6, <1>7, <1>8, <1>9, <1>10
     DEF Preserved, Control

(* The owner has accepted an eviction and reads the page. *)
LEMMA EvictionReadSafe ==
    ASSUME SafetyInv, NEW n \in Node, AcceptEviction(n),
           frame[Owner].possession = "EXCLUSIVE" \/ frame[Owner].possessors \ {n} = {}
    PROVE  Preserved
<1>0. /\ TypeOK /\ Latches /\ Providers /\ RemoteFrames /\ Waited /\ OwnerFrame
      /\ GuardsHold /\ Mailboxes /\ Registered /\ Allocation /\ PagesAreFresh
      /\ E!EpochInv
  BY DEF SafetyInv, Control
<1>y. provider[n] = "requested"
  BY DEF AcceptEviction
<1>f. /\ n # Owner /\ frame[n].state = "HOT" /\ latch[n].x = PageProvider /\ PageExists
      /\ View(n) = CopyOf("page", frame[n].pVersion, frame[n].possession, {})
  <2>1. n # Owner /\ frame[n].state = "HOT" /\ latch[n].x = PageProvider
    BY <1>0, <1>y DEF Providers
  <2>2. PageExists
    BY <1>0, <2>1, FrameIsThere
  <2> QED
    BY <1>y, <2>1, <2>2 DEF View, FrameView
<1>q. CanLatchExclusive(Owner) /\ frame[Owner].pVersion = frame[n].pVersion /\ inflightCRs = {}
  BY DEF AcceptEviction, EvictionQualifies
<1>l. /\ latch[Owner].x = NoOne /\ latch[Owner].s = {}
      /\ \A v \in Worker : NodeOf[v] = Owner => ~Claims(v) /\ worker[v].pc # "use"
  BY <1>0, <1>q, FreeFrame
<1>d. /\ DirView = DirOf(frame[Owner].possession, frame[Owner].possessors)
      /\ frame[Owner].possession \in MODE /\ frame[Owner].possessors \subseteq Node
      /\ View(Owner) = (IF Owner \in frame[Owner].possessors
            THEN CopyOf("page", frame[Owner].pVersion, frame[Owner].possession, {})
            ELSE NoCopy)
      /\ frame[Owner].state = (IF Owner \in frame[Owner].possessors
            THEN "HOT" ELSE "EVICTED")
      /\ \A m \in Node : ~Reading(m)
  BY <1>0, <1>f, <1>l, FreeDirectory, FrameType
<1>i. /\ n \in frame[Owner].possessors /\ frame[n].possession = frame[Owner].possession
      /\ frame[Owner].possession = "EXCLUSIVE" => frame[Owner].possessors = {n}
  <2>1. Has(n) /\ View(n).epoch = DirView.epoch /\ View(n).mode = frame[n].possession
    BY <1>d, <1>f, <1>q DEF Has, CopyOf, DirOf
  <2>2. n \in frame[Owner].possessors /\ frame[n].possession = frame[Owner].possession
    BY <1>0, <1>d, <2>1, EpochFacts DEF DirOf
  <2>3. \A k \in frame[Owner].possessors :
           k \in Node /\ Has(k) /\ View(k).epoch = DirView.epoch
    BY <1>0, <1>d, EpochFacts DEF DirOf
  <2>4. frame[Owner].possession = "EXCLUSIVE" => \A k \in frame[Owner].possessors : k = n
    BY <1>0, <2>1, <2>2, <2>3, EpochFacts
  <2> QED
    BY <2>2, <2>4
<1>o. frame[Owner].possessors = {n} /\ Owner \notin frame[Owner].possessors
  BY <1>i, <1>f
<1>g. /\ provider[n] = "requested" /\ n # Owner
      /\ latch[Owner].x = NoOne /\ latch[Owner].s = {} /\ latch[n].x = PageProvider
      /\ \A v \in Worker : NodeOf[v] = Owner => ~Claims(v) /\ worker[v].pc # "use"
      /\ UNCHANGED <<worker, mail, inflightCRs, fresh>>
  BY <1>y, <1>f, <1>l DEF AcceptEviction
<1>v. /\ frame'[Owner].state = "HOT" /\ frame'[Owner].possession = frame[Owner].possession
      /\ frame'[Owner].possessors = {Owner} /\ frame'[Owner].pVersion = frame[Owner].pVersion
      /\ frame'[Owner].mhWaiting = frame[Owner].mhWaiting
      /\ \A k \in Node : k # Owner => frame'[k] = frame[k]
      /\ \A k \in Node : k # Owner => latch'[k] = latch[k]
      /\ latch'[Owner].x = PageProvider /\ latch'[Owner].s = {}
      /\ downgrading' = {v \in downgrading : NodeOf[v] # Owner}
      /\ provider'[n] = "reading"
      /\ \A k \in Node : k # n => provider'[k] = provider[k]
  <2>1. /\ frame' = [frame EXCEPT ![Owner].possessors = {Owner}, ![Owner].state = "HOT"]
        /\ LatchExclusive(Owner, PageProvider)
        /\ provider' = [provider EXCEPT ![n] = "reading"]
    BY <1>o DEF AcceptEviction
  <2>2. /\ \A k \in Node : k # Owner => latch'[k] = latch[k]
        /\ latch'[Owner].x = PageProvider /\ latch'[Owner].s = {}
        /\ downgrading' = {v \in downgrading : NodeOf[v] # Owner}
    BY <1>0, <1>g, <2>1 DEF LatchExclusive, TypeOK, Latch
  <2>3. provider'[n] = "reading" /\ \A k \in Node : k # n => provider'[k] = provider[k]
    BY <1>0, <2>1 DEF TypeOK
  <2> QED
    BY <1>0, <2>1, <2>2, <2>3 DEF TypeOK, Frame
<1>e. PageExists /\ PageExists'
  BY <1>f, <1>g, <1>v DEF PageExists
<1>1. Latches'
  BY <1>0, <1>g, <1>v, <1>e, <1>d DEF Latches, Claims, Holds
<1>2. Providers'
  BY <1>0, <1>g, <1>v, <1>e, <1>d, <1>o, <1>i, <1>q, <1>f DEF Providers,
     Reading
<1>3. RemoteFrames'
  BY <1>0, <1>g, <1>v, <1>e, <1>d DEF RemoteFrames, Claims, Latches
<1>4. Waited'
  BY <1>0, <1>g, <1>v, <1>e, <1>d DEF Waited, Asked, Mailboxes, Mailbox
<1>5. OwnerFrame'
  BY <1>0, <1>g, <1>v, <1>e, <1>d DEF OwnerFrame, Claims, Latches
<1>6. GuardsHold'
  BY <1>0, <1>g, <1>v, <1>e, <1>d DEF GuardsHold, Possessed, Sufficient,
     IsPossessor, Latches, Holds
<1>7. Mailboxes'
  <2>1. ASSUME NEW v \in Worker PROVE Mailbox(v)'
    BY <1>0, <1>g, <1>v, <2>1, SameMailbox DEF Mailboxes, Latches, Claims
  <2> QED
    BY <2>1 DEF Mailboxes
<1>8. Registered'
  BY <1>0, <1>g, <1>v, <1>e, <1>d DEF Registered, Answered
<1>9. Allocation'
  BY <1>0, <1>g, <1>v, <1>e, <1>d DEF Allocation
<1>10. EpochStep /\ PagesAreFresh'
  <2>1. View(Owner)' = NoCopy /\ View(Owner) = NoCopy
    BY <1>d, <1>o, <1>e, <1>g, <1>v DEF View, OwnerView, Reading
  <2>2. View(n)' = View(n)
    BY <1>e, <1>g, <1>v DEF View, FrameView
  <2>3. OtherViews({n, Owner})
    <3>1. ASSUME NEW k \in Node, k # n, k # Owner PROVE SameFrame(k) /\ SameHolder(k)
      BY <1>g, <1>v, <3>1 DEF SameFrame, SameHolder
    <3> QED
      BY <1>0, <1>e, <1>g, <1>v, <3>1, SameView DEF OtherViews
  <2>4. DirView' = DirOf(frame[Owner].possession, {n})
    <3>1. {k \in Node : Reading(k)'} = {n}
      BY <1>v, <1>d DEF Reading
    <3> QED
      BY <1>e, <1>g, <1>v, <3>1 DEF DirView, DirOf, Reading
  <2>5. DirView' = DirView
    BY <1>d, <1>o, <2>4
  <2> QED
    BY <1>0, <1>g, <2>1, <2>2, <2>3, <2>5, StutterStep DEF OtherViews
<1> QED
  BY <1>1, <1>2, <1>3, <1>4, <1>5, <1>6, <1>7, <1>8, <1>9, <1>10
     DEF Preserved, Control

(* The owner has accepted an eviction and needs no page. *)
LEMMA EvictionLeaveSafe ==
    ASSUME SafetyInv, NEW n \in Node, AcceptEviction(n),
           ~(frame[Owner].possession = "EXCLUSIVE" \/ frame[Owner].possessors \ {n} = {})
    PROVE  Preserved
<1>0. /\ TypeOK /\ Latches /\ Providers /\ RemoteFrames /\ Waited /\ OwnerFrame
      /\ GuardsHold /\ Mailboxes /\ Registered /\ Allocation /\ PagesAreFresh
      /\ E!EpochInv
  BY DEF SafetyInv, Control
<1>y. provider[n] = "requested"
  BY DEF AcceptEviction
<1>f. /\ n # Owner /\ frame[n].state = "HOT" /\ latch[n].x = PageProvider /\ PageExists
      /\ View(n) = CopyOf("page", frame[n].pVersion, frame[n].possession, {})
  <2>1. n # Owner /\ frame[n].state = "HOT" /\ latch[n].x = PageProvider
    BY <1>0, <1>y DEF Providers
  <2>2. PageExists
    BY <1>0, <2>1, FrameIsThere
  <2> QED
    BY <1>y, <2>1, <2>2 DEF View, FrameView
<1>q. CanLatchExclusive(Owner) /\ frame[Owner].pVersion = frame[n].pVersion /\ inflightCRs = {}
  BY DEF AcceptEviction, EvictionQualifies
<1>l. /\ latch[Owner].x = NoOne /\ latch[Owner].s = {}
      /\ \A v \in Worker : NodeOf[v] = Owner => ~Claims(v) /\ worker[v].pc # "use"
  BY <1>0, <1>q, FreeFrame
<1>d. /\ DirView = DirOf(frame[Owner].possession, frame[Owner].possessors)
      /\ frame[Owner].possession \in MODE /\ frame[Owner].possessors \subseteq Node
      /\ View(Owner) = (IF Owner \in frame[Owner].possessors
            THEN CopyOf("page", frame[Owner].pVersion, frame[Owner].possession, {})
            ELSE NoCopy)
      /\ frame[Owner].state = (IF Owner \in frame[Owner].possessors
            THEN "HOT" ELSE "EVICTED")
      /\ \A m \in Node : ~Reading(m)
  BY <1>0, <1>f, <1>l, FreeDirectory, FrameType
<1>i. /\ n \in frame[Owner].possessors /\ frame[n].possession = frame[Owner].possession
      /\ frame[Owner].possession = "EXCLUSIVE" => frame[Owner].possessors = {n}
  <2>1. Has(n) /\ View(n).epoch = DirView.epoch /\ View(n).mode = frame[n].possession
    BY <1>d, <1>f, <1>q DEF Has, CopyOf, DirOf
  <2>2. n \in frame[Owner].possessors /\ frame[n].possession = frame[Owner].possession
    BY <1>0, <1>d, <2>1, EpochFacts DEF DirOf
  <2>3. \A k \in frame[Owner].possessors :
           k \in Node /\ Has(k) /\ View(k).epoch = DirView.epoch
    BY <1>0, <1>d, EpochFacts DEF DirOf
  <2>4. frame[Owner].possession = "EXCLUSIVE" => \A k \in frame[Owner].possessors : k = n
    BY <1>0, <2>1, <2>2, <2>3, EpochFacts
  <2> QED
    BY <2>2, <2>4
<1>g. /\ provider[n] = "requested" /\ n # Owner
      /\ latch[Owner].x = NoOne /\ latch[Owner].s = {} /\ latch[n].x = PageProvider
      /\ \A v \in Worker : NodeOf[v] = Owner => ~Claims(v) /\ worker[v].pc # "use"
      /\ UNCHANGED <<worker, mail, inflightCRs, fresh>>
      /\ UNCHANGED <<latch>>
  BY <1>y, <1>f, <1>l DEF AcceptEviction, LatchBriefly
<1>v. /\ frame'[Owner].state = frame[Owner].state
      /\ frame'[Owner].possession = frame[Owner].possession
      /\ frame'[Owner].possessors = frame[Owner].possessors \ {n}
      /\ frame'[Owner].pVersion = frame[Owner].pVersion
      /\ frame'[Owner].mhWaiting = frame[Owner].mhWaiting
      /\ \A k \in Node : k # Owner => frame'[k] = frame[k]
      /\ downgrading' = {v \in downgrading : NodeOf[v] # Owner}
      /\ provider'[n] = "accepted"
      /\ \A k \in Node : k # n => provider'[k] = provider[k]
  <2>1. /\ frame' = [frame EXCEPT ![Owner].possessors = frame[Owner].possessors \ {n}]
        /\ LatchBriefly(Owner)
        /\ provider' = [provider EXCEPT ![n] = "accepted"]
    BY DEF AcceptEviction
  <2> QED
    BY <1>0, <2>1 DEF TypeOK, Frame, LatchBriefly
<1>e. PageExists /\ PageExists'
  BY <1>f, <1>g, <1>v DEF PageExists
<1>1. Latches'
  BY <1>0, <1>g, <1>v, <1>e, <1>d, <1>f DEF Latches, Claims, Holds
<1>2. Providers'
  BY <1>0, <1>g, <1>v, <1>e, <1>d, <1>f DEF Providers, Reading
<1>3. RemoteFrames'
  BY <1>0, <1>g, <1>v, <1>e, <1>d, <1>f DEF RemoteFrames, Claims, Latches
<1>4. Waited'
  BY <1>0, <1>g, <1>v, <1>e, <1>d, <1>f DEF Waited, Asked, Mailboxes, Mailbox
<1>5. OwnerFrame'
  BY <1>0, <1>g, <1>v, <1>e, <1>d, <1>f DEF OwnerFrame, Claims, Latches
<1>6. GuardsHold'
  BY <1>0, <1>g, <1>v, <1>e, <1>d, <1>f DEF GuardsHold, Possessed, Sufficient,
     IsPossessor, Latches, Holds
<1>7. Mailboxes'
  <2>1. ASSUME NEW v \in Worker PROVE Mailbox(v)'
    BY <1>0, <1>g, <1>v, <2>1, SameMailbox DEF Mailboxes, Latches, Claims
  <2> QED
    BY <2>1 DEF Mailboxes
<1>8. Registered'
  BY <1>0, <1>g, <1>v, <1>e, <1>d, <1>f DEF Registered, Answered
<1>9. Allocation'
  BY <1>0, <1>g, <1>v, <1>e, <1>d, <1>f DEF Allocation
<1>10. EpochStep /\ PagesAreFresh'
  <2>1. View(Owner)' = View(Owner)
    BY <1>d, <1>e, <1>g, <1>v DEF View, OwnerView, Reading
  <2>2. View(n)' = NoCopy
    BY <1>e, <1>g, <1>v DEF View, FrameView
  <2>3. OtherViews({n, Owner})
    <3>1. ASSUME NEW k \in Node, k # n, k # Owner PROVE SameFrame(k) /\ SameHolder(k)
      BY <1>g, <1>v, <3>1 DEF SameFrame, SameHolder
    <3> QED
      BY <1>0, <1>e, <1>g, <1>v, <3>1, SameView DEF OtherViews
  <2>4. DirView' = DirOf("SHARED", frame[Owner].possessors \ {n})
    BY <1>d, <1>e, <1>g, <1>v DEF DirView, DirOf, MODE
  <2>5. DirView = DirOf("SHARED", frame[Owner].possessors)
    BY <1>d DEF MODE
  <2>6. ASSUME NEW m \in Node, m \in DirView.nodes PROVE View(m).status # "copying"
    <3> SUFFICES ASSUME View(m).status = "copying" PROVE FALSE
      OBVIOUS
    <3>1. m # Owner
      BY <1>d DEF CopyOf, NoCopy
    <3>2. CASE latch[m].x \in Worker /\ Claims(latch[m].x)
      <4>1. PICK v \in Worker : latch[m].x = v /\ Claims(v) /\ NodeOf[v] = m
        BY <1>0, <3>2 DEF Latches
      <4>2. ClaimView(v).status = "copying"
        BY <1>f, <4>1 DEF View
      <4>3. worker[v].pc = "request" => v \in inflightCRs
        BY <1>0, <4>2 DEF Registered, ClaimView, RequestView, GrantStatus, CopyOf, NoCopy
      <4>4. worker[v].pc = "copy" => v \in inflightCRs
        BY <1>0, <3>1, <4>1, <4>2 DEF Mailboxes, Mailbox, CopyMail, ClaimView, CopyView, CopyOf
      <4>5. worker[v].pc \in {"request", "copy"}
        BY <4>1, <4>2 DEF Claims, ClaimView, UpdateView, MoveView, InvalidateView, CopyOf
      <4> QED
        BY <1>q, <4>3, <4>4, <4>5
    <3>3. CASE ~(latch[m].x \in Worker /\ Claims(latch[m].x))
      <4>1. View(m) = FrameView(m)
        BY <1>f, <3>1, <3>3 DEF View
      <4>2. frame[m].state = "IO_RDMA" /\ latch[m].x = NoOne
        BY <4>1 DEF FrameView, CopyOf, NoCopy
      <4>3. PICK v \in Worker : Asked(v, m, "PMR") /\ ~mail[v][m].needPage
        BY <1>0, <3>1, <4>2, AbandonedCopy
      <4>4. NodeOf[v] \in Node
        BY NodeAssumption
      <4>5. /\ View(NodeOf[v]).status \in {"moving", "page"}
            /\ View(m).epoch + 1 = View(NodeOf[v]).epoch
        BY <1>0, <4>3, <4>4, MoveRequestFacts
      <4>6. View(NodeOf[v]).epoch <= DirView.epoch /\ View(m).epoch = DirView.epoch
            /\ DirView.epoch \in Nat
        BY <1>0, <2>6, <4>4, <4>5, EpochFacts DEF Has
      <4> QED
        BY <4>5, <4>6
    <3> QED
      BY <3>2, <3>3
  <2>7. EpochStep
    <3>1. DirView' = [DirView EXCEPT !.nodes = @ \ {n}]
      BY <2>4, <2>5 DEF DirOf
    <3>2. /\ DirView.mode = "SHARED" /\ DirView.nodes = frame[Owner].possessors
          /\ DirView.epoch = frame[n].pVersion /\ DirView.nodes # {n}
      BY <2>5, <1>q DEF DirOf
    <3>3. MayUse(n) /\ View(n).epoch = DirView.epoch
      BY <1>f, <3>2 DEF MayUse, CopyOf
    <3>4. \A m \in DirView.nodes : m \in Node /\ View(m).status # "copying"
      BY <1>d, <2>6, <3>2
    <3>5. OtherViews({n})
      BY <2>1, <2>3 DEF OtherViews
    <3> QED
      BY <1>g, <2>2, <3>1, <3>2, <3>3, <3>4, <3>5, StepLeave
  <2>8. View(n)'.status # "page"
    BY <2>2 DEF NoCopy, CopyOf
  <2> QED
    BY <1>0, <1>g, <2>1, <2>3, <2>7, <2>8 DEF OtherViews, PagesAreFresh
<1> QED
  BY <1>1, <1>2, <1>3, <1>4, <1>5, <1>6, <1>7, <1>8, <1>9, <1>10
     DEF Preserved, Control

(* The owner's read of the evicted page is complete. *)
LEMMA CompleteReadSafe ==
    ASSUME SafetyInv, NEW n \in Node, CompleteRead(n)
    PROVE  Preserved
<1>0. /\ TypeOK /\ Latches /\ Providers /\ RemoteFrames /\ Waited /\ OwnerFrame
      /\ GuardsHold /\ Mailboxes /\ Registered /\ Allocation /\ PagesAreFresh
      /\ E!EpochInv
  BY DEF SafetyInv, Control
<1>y. provider[n] = "reading"
  BY DEF CompleteRead
<1>f. /\ n # Owner /\ frame[n].state = "HOT" /\ latch[n].x = PageProvider /\ PageExists
      /\ View(n) = CopyOf("page", frame[n].pVersion, frame[n].possession, {})
  <2>1. n # Owner /\ frame[n].state = "HOT" /\ latch[n].x = PageProvider
    BY <1>0, <1>y DEF Providers
  <2>2. PageExists
    BY <1>0, <2>1, FrameIsThere
  <2> QED
    BY <1>y, <2>1, <2>2 DEF View, FrameView
<1>l. /\ latch[Owner].x = PageProvider /\ latch[Owner].s = {}
      /\ frame[Owner].possessors = {Owner} /\ frame[n].pVersion = frame[Owner].pVersion
      /\ frame[n].possession = frame[Owner].possession /\ {k \in Node : Reading(k)} = {n}
  BY <1>0, <1>y DEF Providers, Reading, Latches
<1>i. \A v \in Worker : NodeOf[v] = Owner => ~Claims(v) /\ worker[v].pc # "use" /\ v \notin downgrading
  BY <1>0, <1>l, NobodyInside
<1>d. DirView = DirOf(frame[Owner].possession, {n})
  BY <1>f, <1>l DEF DirView
<1>g. /\ provider[n] = "reading" /\ n # Owner /\ latch[n].x = PageProvider
      /\ latch[Owner].x = PageProvider /\ latch[Owner].s = {}
      /\ \A v \in Worker : NodeOf[v] = Owner => ~Claims(v) /\ worker[v].pc # "use"
      /\ UNCHANGED <<frame, worker, mail, inflightCRs, downgrading>>
  BY <1>y, <1>f, <1>l, <1>i DEF CompleteRead
<1>v. /\ \A k \in Node : k # Owner => latch'[k] = latch[k]
      /\ latch'[Owner].x = NoOne /\ latch'[Owner].s = {}
      /\ provider'[n] = "accepted"
      /\ \A k \in Node : k # n => provider'[k] = provider[k]
      /\ fresh' = fresh \cup {Owner}
  <2>1. n \in fresh
    BY <1>0, <1>f DEF PagesAreFresh, CopyOf
  <2>2. /\ CopyPage(n, Owner)
        /\ UnlatchExclusive(Owner)
        /\ provider' = [provider EXCEPT ![n] = "accepted"]
    BY DEF CompleteRead
  <2> QED
    BY <1>0, <1>g, <2>1, <2>2 DEF TypeOK, Latch, CopyPage, UnlatchExclusive
<1>e. PageExists /\ PageExists'
  BY <1>f, <1>g DEF PageExists
<1>1. Latches'
  BY <1>0, <1>g, <1>v, <1>e, <1>l, <1>i DEF Latches, Claims, Holds
<1>2. Providers'
  BY <1>0, <1>g, <1>v, <1>e, <1>l, <1>i DEF Providers, Reading
<1>3. RemoteFrames'
  BY <1>0, <1>g, <1>v, <1>e, <1>l, <1>i DEF RemoteFrames, Claims, Latches
<1>4. Waited'
  BY <1>0, <1>g, <1>v, <1>e, <1>l, <1>i DEF Waited, Asked, Mailboxes, Mailbox
<1>5. OwnerFrame'
  BY <1>0, <1>g, <1>v, <1>e, <1>l, <1>i DEF OwnerFrame, Claims, Latches
<1>6. GuardsHold'
  BY <1>0, <1>g, <1>v, <1>e, <1>l, <1>i DEF GuardsHold, Possessed, Sufficient,
     IsPossessor, Latches, Holds
<1>7. Mailboxes'
  <2>1. ASSUME NEW v \in Worker PROVE Mailbox(v)'
    BY <1>0, <1>g, <1>v, <2>1, SameMailbox DEF Mailboxes, Latches, Claims
  <2> QED
    BY <2>1 DEF Mailboxes
<1>8. Registered'
  BY <1>0, <1>g, <1>v, <1>e, <1>l, <1>i DEF Registered, Answered
<1>9. Allocation'
  BY <1>0, <1>g, <1>v, <1>e, <1>l, <1>i DEF Allocation
<1>10. EpochStep /\ PagesAreFresh'
  <2>0. \A k \in Node : ~Reading(k)'
    BY <1>l, <1>v DEF Reading
  <2>1. View(Owner)' = CopyOf("page", frame[Owner].pVersion, frame[Owner].possession, {})
    BY <1>l, <1>e, <1>g, <1>v, <2>0 DEF View, OwnerView
  <2>2. View(n)' = NoCopy
    BY <1>e, <1>g, <1>v DEF View, FrameView
  <2>3. OtherViews({n, Owner})
    <3>1. ASSUME NEW k \in Node, k # n, k # Owner PROVE SameFrame(k) /\ SameHolder(k)
      BY <1>g, <1>v, <3>1 DEF SameFrame, SameHolder
    <3> QED
      BY <1>0, <1>e, <1>g, <1>v, <3>1, SameView DEF OtherViews
  <2>4. DirView' = DirOf(frame[Owner].possession, {Owner})
    BY <1>l, <1>e, <1>g, <1>v DEF DirView, DirOf
  <2>5. EpochStep
    <3>1. DirView' = [DirView EXCEPT !.nodes = {Owner}]
      BY <2>4, <1>d DEF DirOf
    <3>2. /\ DirView.nodes = {n} /\ MayUse(n)
          /\ View(Owner)' = CopyOf("page", DirView.epoch, DirView.mode, {})
      BY <1>d, <1>f, <2>1 DEF DirOf, MayUse, CopyOf
    <3> QED
      BY <1>g, <2>2, <2>3, <3>1, <3>2, StepTakeBack
  <2>6. View(n)'.status # "page"
    BY <2>2 DEF NoCopy, CopyOf
  <2> QED
    BY <1>0, <1>v, <2>3, <2>5, <2>6 DEF OtherViews, PagesAreFresh
<1> QED
  BY <1>1, <1>2, <1>3, <1>4, <1>5, <1>6, <1>7, <1>8, <1>9, <1>10
     DEF Preserved, Control

-----------------------------------------------------------------------------
(* fix at the owner *)

(* fix at the owner: another node has the page and the owner does not. *)
LEMMA LocalMoveSafe ==
    ASSUME SafetyInv, NEW w \in Worker, FixLocalChange(w),
           \/ frame[Owner].possession = "EXCLUSIVE"
           \/ /\ frame[Owner].possession = "SHARED" /\ worker[w].mode = "EXCLUSIVE"
              /\ frame[Owner].state = "EVICTED"
    PROVE  Preserved
<1>0. /\ TypeOK /\ Latches /\ Providers /\ RemoteFrames /\ Waited /\ OwnerFrame
      /\ GuardsHold /\ Mailboxes /\ Registered /\ Allocation /\ PagesAreFresh
      /\ E!EpochInv
  BY DEF SafetyInv, Control
<1>y. /\ worker[w].pc = "fix" /\ NodeOf[w] = Owner /\ CanLatchExclusive(Owner)
      /\ ~Sufficient(Owner, worker[w].mode)
      /\ LatchExclusive(Owner, w) /\ UNCHANGED <<inflightCRs, provider, fresh>>
  BY DEF FixLocalChange, Insufficient
<1>z. PageExists
  BY <1>0, <1>y, PageIsThere
<1>f. /\ latch[Owner].x = NoOne /\ latch[Owner].s = {}
      /\ \A v \in Worker : NodeOf[v] = Owner => ~Claims(v) /\ worker[v].pc # "use"
  BY <1>0, <1>y, FreeFrame
<1>d. /\ DirView = DirOf(frame[Owner].possession, frame[Owner].possessors)
      /\ frame[Owner].possession \in MODE /\ worker[w].mode \in MODE
      /\ frame[Owner].possessors \subseteq Node /\ frame[Owner].pVersion \in Nat
      /\ View(Owner) = (IF Owner \in frame[Owner].possessors
            THEN CopyOf("page", frame[Owner].pVersion, frame[Owner].possession, {})
            ELSE NoCopy)
      /\ frame[Owner].state = (IF Owner \in frame[Owner].possessors
            THEN "HOT" ELSE "EVICTED")
      /\ \A m \in Node : ~Reading(m)
  BY <1>0, <1>z, <1>f, FreeDirectory, FrameType, WorkerType
<1>n. \A k \in Node : mail[w][k] = Nothing
  BY <1>0, <1>y DEF Mailboxes, Mailbox
<1>k. /\ latch'[Owner].x = w /\ latch'[Owner].s = {}
      /\ \A k \in Node : k # Owner => latch'[k] = latch[k]
      /\ downgrading' = {v \in downgrading : NodeOf[v] # Owner}
  BY <1>0, <1>y, <1>f DEF LatchExclusive, TypeOK, Latch
<1>o. Owner \notin frame[Owner].possessors /\ frame[Owner].possessors \ {Owner} = frame[Owner].possessors
  BY <1>d, <1>y DEF Sufficient, IsPossessor, MODE
<1>s. /\ MovePageRnd(w, frame[Owner].possessors)
      /\ \/ frame' = [frame EXCEPT ![Owner].pVersion = @ + 1]
         \/ frame' = [frame EXCEPT ![Owner].pVersion = @ + 1,
                                   ![Owner].possessors = frame[Owner].possessors]
  BY <1>o DEF FixLocalChange, Insufficient
<1>p. PICK src \in frame[Owner].possessors :
         /\ AskOne(w, src, [type |-> "PMR", needPage |-> TRUE])
         /\ worker' = [worker EXCEPT ![w].pc = "move",
                                     ![w].peers = frame[Owner].possessors \ {src}]
  BY <1>s DEF MovePageRnd
<1>q. src \in Node /\ src # Owner
  BY <1>d, <1>o
<1>g. /\ worker[w].pc = "fix" /\ NodeOf[w] = Owner
      /\ latch[Owner].x = NoOne /\ latch[Owner].s = {}
      /\ \A v \in Worker : NodeOf[v] = Owner => ~Claims(v) /\ worker[v].pc # "use"
      /\ UNCHANGED <<inflightCRs, provider, fresh>>
  BY <1>y, <1>f
<1>v. /\ worker'[w].pc = "move" /\ worker'[w].mode = worker[w].mode
      /\ worker'[w].peers = frame[Owner].possessors \ {src}
      /\ worker'[w].pVersionOld = worker[w].pVersionOld
      /\ \A v \in Worker : v # w => worker'[v] = worker[v] /\ mail'[v] = mail[v]
      /\ \A k \in Node : k # src => mail'[w][k] = Nothing
      /\ mail'[w][src] = [type |-> "PMR", needPage |-> TRUE]
      /\ frame'[Owner].state = frame[Owner].state
      /\ frame'[Owner].possession = frame[Owner].possession
      /\ frame'[Owner].possessors = frame[Owner].possessors
      /\ frame'[Owner].pVersion = frame[Owner].pVersion + 1
      /\ frame'[Owner].mhWaiting = frame[Owner].mhWaiting
      /\ \A k \in Node : k # Owner => frame'[k] = frame[k]
      /\ \A k \in Node : k # Owner => latch'[k] = latch[k]
      /\ latch'[Owner].x = w /\ latch'[Owner].s = {}
      /\ downgrading' = {v \in downgrading : NodeOf[v] # Owner}
  <2>1. /\ frame'[Owner].state = frame[Owner].state
        /\ frame'[Owner].possession = frame[Owner].possession
        /\ frame'[Owner].possessors = frame[Owner].possessors
        /\ frame'[Owner].pVersion = frame[Owner].pVersion + 1
        /\ frame'[Owner].mhWaiting = frame[Owner].mhWaiting
        /\ \A k \in Node : k # Owner => frame'[k] = frame[k]
    BY <1>0, <1>s DEF TypeOK, Frame
  <2>2. /\ worker'[w].pc = "move" /\ worker'[w].mode = worker[w].mode
        /\ worker'[w].peers = frame[Owner].possessors \ {src}
        /\ worker'[w].pVersionOld = worker[w].pVersionOld
        /\ \A v \in Worker : v # w => worker'[v] = worker[v]
    BY <1>0, <1>p DEF TypeOK, WorkerState
  <2>3. /\ \A k \in Node : k # src => mail'[w][k] = Nothing
        /\ mail'[w][src] = [type |-> "PMR", needPage |-> TRUE]
        /\ \A v \in Worker : v # w => mail'[v] = mail[v]
    BY <1>0, <1>n, <1>p, <1>q, AskFacts
  <2> QED
    BY <1>k, <2>1, <2>2, <2>3
<1>e. PageExists /\ PageExists'
  BY <1>z, <1>v DEF PageExists
<1>m. /\ \A k \in Node : ~Answered(w, k)' /\ (Asked(w, k, "PMR")' => k = src)
      /\ Asked(w, src, "PMR")' /\ mail'[w][src].needPage
  BY <1>v, NotNothing DEF Answered, Asked
<1>a. AskedFor(w)' = {src}
  BY <1>q, <1>m DEF AskedFor
<1>1. Latches'
  BY <1>0, <1>g, <1>v, <1>e, <1>d DEF Latches, Claims, Holds
<1>2. Providers'
  BY <1>0, <1>g, <1>v, <1>e, <1>d DEF Providers, Reading
<1>3. RemoteFrames'
  BY <1>0, <1>g, <1>v, <1>e, <1>d DEF RemoteFrames, Claims, Latches
<1>4. Waited'
  BY <1>0, <1>g, <1>v, <1>e, <1>d, <1>n DEF Waited, Asked, Mailboxes, Mailbox
<1>5. OwnerFrame'
  BY <1>0, <1>g, <1>v, <1>e, <1>d, <1>o DEF OwnerFrame, Claims, Latches
<1>6. GuardsHold'
  BY <1>0, <1>g, <1>v, <1>e, <1>d DEF GuardsHold, Possessed, Sufficient,
     IsPossessor, Latches, Holds
<1>7. Mailboxes'
  <2>1. ASSUME NEW v \in Worker, v # w PROVE Mailbox(v)'
    BY <1>0, <1>g, <1>v, <2>1, SameMailbox DEF Mailboxes, Latches, Claims
  <2>2. Mailbox(w)'
    BY <1>g, <1>v, <1>m, <1>q DEF Mailbox, MoveMail
  <2> QED
    BY <2>1, <2>2 DEF Mailboxes
<1>8. Registered'
  BY <1>0, <1>g, <1>v, <1>e, <1>d, <1>n DEF Registered, Answered
<1>9. Allocation'
  BY <1>0, <1>g, <1>v, <1>e, <1>d DEF Allocation
<1>10. EpochStep /\ PagesAreFresh'
  <2>1. View(Owner)' = CopyOf("moving", frame[Owner].pVersion + 1, worker[w].mode, frame[Owner].possessors \ {Owner})
    <3>1. View(Owner)' = ClaimView(w)'
      BY <1>e, <1>v DEF View, Claims
    <3> QED
      <4>1. (frame[Owner].possessors \ {src}) \cup {src} = frame[Owner].possessors
        OBVIOUS
      <4> QED
        BY ZenonT(40), <1>g, <1>v, <1>m, <1>a, <1>o, <3>1, <4>1 DEF ClaimView, MoveView, CopyOf
  <2>2. DirView' = [epoch |-> frame[Owner].pVersion + 1, mode |-> worker[w].mode, nodes |-> {Owner}]
    BY ZenonT(40), <1>e, <1>g, <1>v DEF DirView, DirOf
  <2>3. OtherViews({Owner})
    <3>1. WorkerOnly(w, Owner)
      BY <1>g, <1>v DEF WorkerOnly
    <3> QED
      BY <1>0, <1>e, <1>g, <3>1, LocalViews
  <2>4. EpochStep
    <3>1. DirView.mode # "NOBODY" /\ DirView.nodes = frame[Owner].possessors /\ DirView.epoch = frame[Owner].pVersion
      BY <1>d DEF DirOf, MODE
    <3>2. (Has(Owner) <=> Owner \in frame[Owner].possessors)
          /\ (Has(Owner) => MayUse(Owner) /\ View(Owner).epoch = DirView.epoch)
      BY <1>d DEF Has, MayUse, CopyOf, NoCopy, DirOf
    <3>3. DirView.nodes \ {Owner, Owner} = frame[Owner].possessors \ {Owner}
      BY <3>1
    <3> QED
      BY <1>d, <1>o, <2>1, <2>2, <2>3, <3>1, <3>2, <3>3, StepNewEpoch DEF MODE
  <2>5. View(Owner)'.status # "page"
    BY <2>1 DEF CopyOf
  <2> QED
    BY <1>0, <1>g, <2>3, <2>4, <2>5 DEF OtherViews, PagesAreFresh
<1> QED
  BY <1>1, <1>2, <1>3, <1>4, <1>5, <1>6, <1>7, <1>8, <1>9, <1>10
     DEF Preserved, Control

(* fix at the owner: it has the page, but sharers are in the way. *)
LEMMA LocalInvalidateSafe ==
    ASSUME SafetyInv, NEW w \in Worker, FixLocalChange(w),
           frame[Owner].possession = "SHARED", worker[w].mode = "EXCLUSIVE",
           frame[Owner].state # "EVICTED"
    PROVE  Preserved
<1>0. /\ TypeOK /\ Latches /\ Providers /\ RemoteFrames /\ Waited /\ OwnerFrame
      /\ GuardsHold /\ Mailboxes /\ Registered /\ Allocation /\ PagesAreFresh
      /\ E!EpochInv
  BY DEF SafetyInv, Control
<1>y. /\ worker[w].pc = "fix" /\ NodeOf[w] = Owner /\ CanLatchExclusive(Owner)
      /\ ~Sufficient(Owner, worker[w].mode)
      /\ LatchExclusive(Owner, w) /\ UNCHANGED <<inflightCRs, provider, fresh>>
  BY DEF FixLocalChange, Insufficient
<1>z. PageExists
  BY <1>0, <1>y, PageIsThere
<1>f. /\ latch[Owner].x = NoOne /\ latch[Owner].s = {}
      /\ \A v \in Worker : NodeOf[v] = Owner => ~Claims(v) /\ worker[v].pc # "use"
  BY <1>0, <1>y, FreeFrame
<1>d. /\ DirView = DirOf(frame[Owner].possession, frame[Owner].possessors)
      /\ frame[Owner].possession \in MODE /\ worker[w].mode \in MODE
      /\ frame[Owner].possessors \subseteq Node /\ frame[Owner].pVersion \in Nat
      /\ View(Owner) = (IF Owner \in frame[Owner].possessors
            THEN CopyOf("page", frame[Owner].pVersion, frame[Owner].possession, {})
            ELSE NoCopy)
      /\ frame[Owner].state = (IF Owner \in frame[Owner].possessors
            THEN "HOT" ELSE "EVICTED")
      /\ \A m \in Node : ~Reading(m)
  BY <1>0, <1>z, <1>f, FreeDirectory, FrameType, WorkerType
<1>n. \A k \in Node : mail[w][k] = Nothing
  BY <1>0, <1>y DEF Mailboxes, Mailbox
<1>k. /\ latch'[Owner].x = w /\ latch'[Owner].s = {}
      /\ \A k \in Node : k # Owner => latch'[k] = latch[k]
      /\ downgrading' = {v \in downgrading : NodeOf[v] # Owner}
  BY <1>0, <1>y, <1>f DEF LatchExclusive, TypeOK, Latch
<1>o. Owner \in frame[Owner].possessors
  BY <1>d
<1>s. /\ InvalidateSharedConflicts(w, frame[Owner].possessors \ {Owner})
      /\ frame' = [frame EXCEPT ![Owner].pVersion = @ + 1, ![Owner].possessors = frame[Owner].possessors \ {Owner}]
  BY DEF FixLocalChange, Insufficient
<1>g. /\ worker[w].pc = "fix" /\ NodeOf[w] = Owner
      /\ latch[Owner].x = NoOne /\ latch[Owner].s = {}
      /\ \A v \in Worker : NodeOf[v] = Owner => ~Claims(v) /\ worker[v].pc # "use"
      /\ UNCHANGED <<inflightCRs, provider, fresh>>
  BY <1>y, <1>f
<1>v. /\ worker'[w].pc = "invalidate" /\ worker'[w].mode = worker[w].mode
      /\ worker'[w].peers = frame[Owner].possessors \ {Owner}
      /\ worker'[w].pVersionOld = worker[w].pVersionOld
      /\ \A v \in Worker : v # w => worker'[v] = worker[v] /\ mail'[v] = mail[v]
      /\ \A k \in Node : mail'[w][k] = IF k \in frame[Owner].possessors \ {Owner}
                             THEN [type |-> "PMR", needPage |-> FALSE] ELSE Nothing
      /\ frame'[Owner].state = frame[Owner].state
      /\ frame'[Owner].possession = frame[Owner].possession
      /\ frame'[Owner].possessors = frame[Owner].possessors \ {Owner}
      /\ frame'[Owner].pVersion = frame[Owner].pVersion + 1
      /\ frame'[Owner].mhWaiting = frame[Owner].mhWaiting
      /\ \A k \in Node : k # Owner => frame'[k] = frame[k]
      /\ \A k \in Node : k # Owner => latch'[k] = latch[k]
      /\ latch'[Owner].x = w /\ latch'[Owner].s = {}
      /\ downgrading' = {v \in downgrading : NodeOf[v] # Owner}
  <2>1. /\ frame'[Owner].state = frame[Owner].state
        /\ frame'[Owner].possession = frame[Owner].possession
        /\ frame'[Owner].possessors = frame[Owner].possessors \ {Owner}
        /\ frame'[Owner].pVersion = frame[Owner].pVersion + 1
        /\ frame'[Owner].mhWaiting = frame[Owner].mhWaiting
        /\ \A k \in Node : k # Owner => frame'[k] = frame[k]
    BY <1>0, <1>s DEF TypeOK, Frame
  <2> QED
    BY <1>0, <1>k, <1>s, <2>1 DEF InvalidateSharedConflicts, Invalidating, TypeOK, WorkerState
<1>e. PageExists /\ PageExists'
  BY <1>z, <1>v DEF PageExists
<1>m. \A k \in Node : /\ ~Answered(w, k)'
                      /\ Asked(w, k, "PMR")' <=> k \in frame[Owner].possessors \ {Owner}
                      /\ k \in frame[Owner].possessors \ {Owner} => ~mail'[w][k].needPage
  BY <1>v, NotNothing DEF Answered, Asked
<1>a. AskedFor(w)' = frame[Owner].possessors \ {Owner}
  BY <1>d, <1>m DEF AskedFor
<1>1. Latches'
  BY <1>0, <1>g, <1>v, <1>e, <1>d DEF Latches, Claims, Holds
<1>2. Providers'
  BY <1>0, <1>g, <1>v, <1>e, <1>d DEF Providers, Reading
<1>3. RemoteFrames'
  BY <1>0, <1>g, <1>v, <1>e, <1>d DEF RemoteFrames, Claims, Latches
<1>4. Waited'
  BY <1>0, <1>g, <1>v, <1>e, <1>d, <1>n DEF Waited, Asked, Mailboxes, Mailbox
<1>5. OwnerFrame'
  BY <1>0, <1>g, <1>v, <1>e, <1>d DEF OwnerFrame, Claims, Latches
<1>6. GuardsHold'
  BY <1>0, <1>g, <1>v, <1>e, <1>d DEF GuardsHold, Possessed, Sufficient,
     IsPossessor, Latches, Holds
<1>7. Mailboxes'
  <2>1. ASSUME NEW v \in Worker, v # w PROVE Mailbox(v)'
    BY <1>0, <1>g, <1>v, <2>1, SameMailbox DEF Mailboxes, Latches, Claims
  <2>2. Mailbox(w)'
    BY <1>g, <1>v, <1>m DEF Mailbox, InvalidateMail
  <2> QED
    BY <2>1, <2>2 DEF Mailboxes
<1>8. Registered'
  BY <1>0, <1>g, <1>v, <1>e, <1>d, <1>n DEF Registered, Answered
<1>9. Allocation'
  BY <1>0, <1>g, <1>v, <1>e, <1>d DEF Allocation
<1>10. EpochStep /\ PagesAreFresh'
  <2>1. View(Owner)' = CopyOf("page", frame[Owner].pVersion + 1, worker[w].mode, frame[Owner].possessors \ {Owner})
    <3>1. View(Owner)' = ClaimView(w)'
      BY <1>e, <1>v DEF View, Claims
    <3> QED
      BY <1>g, <1>v, <1>m, <1>a, <3>1 DEF ClaimView, InvalidateView, CopyOf
  <2>2. DirView' = [epoch |-> frame[Owner].pVersion + 1, mode |-> worker[w].mode, nodes |-> {Owner}]
    BY ZenonT(40), <1>e, <1>g, <1>v DEF DirView, DirOf
  <2>3. OtherViews({Owner})
    <3>1. WorkerOnly(w, Owner)
      BY <1>g, <1>v DEF WorkerOnly
    <3> QED
      BY <1>0, <1>e, <1>g, <3>1, LocalViews
  <2>4. EpochStep
    <3>1. DirView.mode # "NOBODY" /\ DirView.nodes = frame[Owner].possessors /\ DirView.epoch = frame[Owner].pVersion
      BY <1>d DEF DirOf, MODE
    <3>2. (Has(Owner) <=> Owner \in frame[Owner].possessors)
          /\ (Has(Owner) => MayUse(Owner) /\ View(Owner).epoch = DirView.epoch)
      BY <1>d DEF Has, MayUse, CopyOf, NoCopy, DirOf
    <3>3. DirView.nodes \ {Owner, Owner} = frame[Owner].possessors \ {Owner}
      BY <3>1
    <3> QED
      BY <1>d, <1>o, <2>1, <2>2, <2>3, <3>1, <3>2, <3>3, StepNewEpoch DEF MODE
  <2>5. Owner \in fresh
    BY <1>0, <1>d, <1>o DEF PagesAreFresh, CopyOf
  <2> QED
    BY <1>0, <1>g, <2>3, <2>4, <2>5 DEF OtherViews, PagesAreFresh
<1> QED
  BY <1>1, <1>2, <1>3, <1>4, <1>5, <1>6, <1>7, <1>8, <1>9, <1>10
     DEF Preserved, Control

(* fix at the owner, for reading: the page is copied from a sharer. *)
LEMMA LocalCopySafe ==
    ASSUME SafetyInv, NEW w \in Worker, FixLocalChange(w),
           frame[Owner].possession = "SHARED", worker[w].mode = "SHARED"
    PROVE  Preserved
<1>0. /\ TypeOK /\ Latches /\ Providers /\ RemoteFrames /\ Waited /\ OwnerFrame
      /\ GuardsHold /\ Mailboxes /\ Registered /\ Allocation /\ PagesAreFresh
      /\ E!EpochInv
  BY DEF SafetyInv, Control
<1>y. /\ worker[w].pc = "fix" /\ NodeOf[w] = Owner /\ CanLatchExclusive(Owner)
      /\ ~Sufficient(Owner, worker[w].mode)
      /\ LatchExclusive(Owner, w) /\ UNCHANGED <<inflightCRs, provider, fresh>>
  BY DEF FixLocalChange, Insufficient
<1>z. PageExists
  BY <1>0, <1>y, PageIsThere
<1>f. /\ latch[Owner].x = NoOne /\ latch[Owner].s = {}
      /\ \A v \in Worker : NodeOf[v] = Owner => ~Claims(v) /\ worker[v].pc # "use"
  BY <1>0, <1>y, FreeFrame
<1>d. /\ DirView = DirOf(frame[Owner].possession, frame[Owner].possessors)
      /\ frame[Owner].possession \in MODE /\ worker[w].mode \in MODE
      /\ frame[Owner].possessors \subseteq Node /\ frame[Owner].pVersion \in Nat
      /\ View(Owner) = (IF Owner \in frame[Owner].possessors
            THEN CopyOf("page", frame[Owner].pVersion, frame[Owner].possession, {})
            ELSE NoCopy)
      /\ frame[Owner].state = (IF Owner \in frame[Owner].possessors
            THEN "HOT" ELSE "EVICTED")
      /\ \A m \in Node : ~Reading(m)
  BY <1>0, <1>z, <1>f, FreeDirectory, FrameType, WorkerType
<1>n. \A k \in Node : mail[w][k] = Nothing
  BY <1>0, <1>y DEF Mailboxes, Mailbox
<1>k. /\ latch'[Owner].x = w /\ latch'[Owner].s = {}
      /\ \A k \in Node : k # Owner => latch'[k] = latch[k]
      /\ downgrading' = {v \in downgrading : NodeOf[v] # Owner}
  BY <1>0, <1>y, <1>f DEF LatchExclusive, TypeOK, Latch
<1>o. Owner \notin frame[Owner].possessors
  BY <1>y DEF Sufficient, IsPossessor
<1>s. CopyPageRnd(w, frame[Owner].possessors, frame[Owner].pVersion) /\ frame' = frame
  BY DEF FixLocalChange, Insufficient
<1>p. PICK src \in frame[Owner].possessors :
        /\ mail' = [mail EXCEPT ![w] = [k \in Node |-> IF k = src
                     THEN [type |-> "PCR", pVersion |-> frame[Owner].pVersion, retries |-> 0]
                     ELSE Nothing]]
        /\ worker' = [worker EXCEPT ![w].pc = "copy", ![w].peers = frame[Owner].possessors]
  BY <1>s DEF CopyPageRnd
<1>q. src \in Node
  BY <1>d
<1>g. /\ worker[w].pc = "fix" /\ NodeOf[w] = Owner
      /\ latch[Owner].x = NoOne /\ latch[Owner].s = {}
      /\ \A v \in Worker : NodeOf[v] = Owner => ~Claims(v) /\ worker[v].pc # "use"
      /\ UNCHANGED <<inflightCRs, provider, fresh>>
  BY <1>y, <1>f
<1>v. /\ worker'[w].pc = "copy" /\ worker'[w].mode = worker[w].mode
      /\ worker'[w].peers = frame[Owner].possessors
      /\ worker'[w].pVersionOld = worker[w].pVersionOld
      /\ \A v \in Worker : v # w => worker'[v] = worker[v] /\ mail'[v] = mail[v]
      /\ \A k \in Node : k # src => mail'[w][k] = Nothing
      /\ mail'[w][src] = [type |-> "PCR", pVersion |-> frame[Owner].pVersion, retries |-> 0]
      /\ frame'[Owner].state = frame[Owner].state
      /\ frame'[Owner].possession = frame[Owner].possession
      /\ frame'[Owner].possessors = frame[Owner].possessors
      /\ frame'[Owner].pVersion = frame[Owner].pVersion
      /\ frame'[Owner].mhWaiting = frame[Owner].mhWaiting
      /\ \A k \in Node : k # Owner => frame'[k] = frame[k]
      /\ \A k \in Node : k # Owner => latch'[k] = latch[k]
      /\ latch'[Owner].x = w /\ latch'[Owner].s = {}
      /\ downgrading' = {v \in downgrading : NodeOf[v] # Owner}
  <2>1. /\ worker'[w].pc = "copy" /\ worker'[w].mode = worker[w].mode
        /\ worker'[w].peers = frame[Owner].possessors
        /\ worker'[w].pVersionOld = worker[w].pVersionOld
        /\ \A v \in Worker : v # w => worker'[v] = worker[v]
    BY <1>0, <1>p DEF TypeOK, WorkerState
  <2>2. /\ \A k \in Node : k # src => mail'[w][k] = Nothing
        /\ mail'[w][src] = [type |-> "PCR", pVersion |-> frame[Owner].pVersion, retries |-> 0]
        /\ \A v \in Worker : v # w => mail'[v] = mail[v]
    BY <1>0, <1>p, <1>q DEF TypeOK
  <2> QED
    BY <1>k, <1>s, <2>1, <2>2
<1>e. PageExists /\ PageExists'
  BY <1>z, <1>v DEF PageExists
<1>m. /\ \A k \in Node : ~Answered(w, k)' /\ ~Asked(w, k, "PMR")'
      /\ Asked(w, src, "PCR")'
  BY <1>v, <1>d, NotNothing DEF Answered, Asked
<1>a. ~GotCopy(w)'
  BY <1>m DEF GotCopy
<1>1. Latches'
  BY <1>0, <1>g, <1>v, <1>e, <1>d DEF Latches, Claims, Holds
<1>2. Providers'
  BY <1>0, <1>g, <1>v, <1>e, <1>d DEF Providers, Reading
<1>3. RemoteFrames'
  BY <1>0, <1>g, <1>v, <1>e, <1>d DEF RemoteFrames, Claims, Latches
<1>4. Waited'
  BY <1>0, <1>g, <1>v, <1>e, <1>d, <1>n DEF Waited, Asked, Mailboxes, Mailbox
<1>5. OwnerFrame'
  BY <1>0, <1>g, <1>v, <1>e, <1>d, <1>o DEF OwnerFrame, Claims, Latches
<1>6. GuardsHold'
  BY <1>0, <1>g, <1>v, <1>e, <1>d DEF GuardsHold, Possessed, Sufficient,
     IsPossessor, Latches, Holds
<1>7. Mailboxes'
  <2>1. ASSUME NEW v \in Worker, v # w PROVE Mailbox(v)'
    BY <1>0, <1>g, <1>v, <2>1, SameMailbox DEF Mailboxes, Latches, Claims
  <2>2. Mailbox(w)'
    BY <1>g, <1>v, <1>m, <1>p, <1>q DEF Mailbox, CopyMail
  <2> QED
    BY <2>1, <2>2 DEF Mailboxes
<1>8. Registered'
  BY <1>0, <1>g, <1>v, <1>e, <1>d, <1>n DEF Registered, Answered
<1>9. Allocation'
  BY <1>0, <1>g, <1>v, <1>e, <1>d DEF Allocation
<1>10. EpochStep /\ PagesAreFresh'
  <2>1. View(Owner)' = CopyOf("copying", frame[Owner].pVersion, "SHARED", frame[Owner].possessors)
    <3>1. View(Owner)' = ClaimView(w)'
      BY <1>e, <1>v DEF View, Claims
    <3> QED
      BY <1>g, <1>v, <1>m, <1>a, <3>1 DEF ClaimView, CopyView, CopyOf
  <2>2. DirView' = [epoch |-> frame[Owner].pVersion, mode |-> "SHARED", nodes |-> frame[Owner].possessors \cup {Owner}]
    BY <1>e, <1>g, <1>v DEF DirView, DirOf
  <2>3. OtherViews({Owner})
    <3>1. WorkerOnly(w, Owner)
      BY <1>g, <1>v DEF WorkerOnly
    <3> QED
      BY <1>0, <1>e, <1>g, <3>1, LocalViews
  <2>4. EpochStep
    <3>1. /\ DirView = [epoch |-> frame[Owner].pVersion, mode |-> "SHARED", nodes |-> frame[Owner].possessors]
          /\ ~Has(Owner)
      BY <1>d, <1>o DEF DirOf, Has, NoCopy, CopyOf
    <3>2. DirView' = [DirView EXCEPT !.nodes = @ \cup {Owner}]
      BY <2>2, <3>1
    <3> QED
      BY <2>1, <2>3, <3>1, <3>2, StepJoinCopying
  <2>5. View(Owner)'.status # "page"
    BY <2>1 DEF CopyOf
  <2> QED
    BY <1>0, <1>g, <2>3, <2>4, <2>5 DEF OtherViews, PagesAreFresh
<1> QED
  BY <1>1, <1>2, <1>3, <1>4, <1>5, <1>6, <1>7, <1>8, <1>9, <1>10
     DEF Preserved, Control

-----------------------------------------------------------------------------
(* Allocation *)

(* newPage at the owner *)
LEMMA NewPageSafe ==
    ASSUME SafetyInv, NEW w \in Worker, NewPage(w)
    PROVE  Preserved
<1>0. /\ TypeOK /\ Latches /\ Providers /\ RemoteFrames /\ Waited /\ OwnerFrame
      /\ GuardsHold /\ Mailboxes /\ Registered /\ Allocation /\ PagesAreFresh
      /\ E!EpochInv
  BY DEF SafetyInv, Control
<1>y. ~PageExists
  BY DEF NewPage, PageExists
<1>a. /\ \A k \in Node : latch[k].x = NoOne /\ latch[k].s = {} /\ provider[k] = "idle"
      /\ \A k \in Node : k # Owner => frame[k] = EmptyFrame
      /\ \A v \in Worker : worker[v].pc \in {"idle", "alloc"}
      /\ \A v, u \in Worker : worker[v].pc = "alloc" /\ worker[u].pc = "alloc" => v = u
      /\ downgrading = {}
  BY <1>0, <1>y DEF Allocation
<1>i. \A k \in Node : View(k) = NoCopy
  BY <1>y DEF View
<1>j. DirView = [epoch |-> 0, mode |-> "NOBODY", nodes |-> {}]
  BY <1>y DEF DirView
<1>k. /\ EmptyFrame.state = "FREE" /\ EmptyFrame.possession = "NOBODY"
      /\ EmptyFrame.possessors = {} /\ EmptyFrame.pVersion = 0 /\ EmptyFrame.mhWaiting = FALSE
  BY DEF EmptyFrame
<1>g. /\ worker[w].pc = "idle" /\ NodeOf[w] = Owner /\ frame[Owner].state = "FREE"
      /\ \A v \in Worker : worker[v].pc = "idle"
      /\ UNCHANGED <<mail, inflightCRs, provider>>
  BY <1>a DEF NewPage
<1>v. /\ frame'[Owner].state = "HOT" /\ frame'[Owner].possession = "EXCLUSIVE"
      /\ frame'[Owner].possessors = {Owner} /\ frame'[Owner].pVersion = 0
      /\ ~frame'[Owner].mhWaiting
      /\ \A k \in Node : k # Owner => frame'[k] = frame[k]
      /\ \A k \in Node : k # Owner => latch'[k] = latch[k]
      /\ latch'[Owner].x = w /\ latch'[Owner].s = {} /\ downgrading' = {}
      /\ worker'[w].pc = "use" /\ worker'[w].mode = "EXCLUSIVE"
      /\ \A v \in Worker : v # w => worker'[v] = worker[v]
      /\ fresh' = {Owner}
      /\ \A v \in Worker, k \in Node : mail'[v][k] = Nothing
  <2>1. /\ frame'[Owner].state = "HOT" /\ frame'[Owner].possession = "EXCLUSIVE"
        /\ frame'[Owner].possessors = {Owner} /\ frame'[Owner].pVersion = 0
        /\ ~frame'[Owner].mhWaiting
        /\ \A k \in Node : k # Owner => frame'[k] = frame[k]
    BY <1>0 DEF NewPage, TypeOK, EmptyFrame
  <2>2. /\ \A k \in Node : k # Owner => latch'[k] = latch[k]
        /\ latch'[Owner].x = w /\ latch'[Owner].s = {} /\ downgrading' = {}
    BY <1>0, <1>a DEF NewPage, LatchExclusive, TypeOK, Latch
  <2>3. \A v \in Worker, k \in Node : mail'[v][k] = Nothing
    BY <1>0, <1>g DEF Mailboxes, Mailbox
  <2> QED
    BY <1>0, <2>1, <2>2, <2>3 DEF NewPage, TypeOK, WorkerState
<1>e. PageExists'
  BY <1>g, <1>v DEF PageExists
<1>1. Latches'
  BY <1>0, <1>g, <1>v, <1>e, <1>a, <1>k DEF Latches, Claims, Holds
<1>2. Providers'
  BY <1>0, <1>g, <1>v, <1>e, <1>a, <1>k DEF Providers, Reading
<1>3. RemoteFrames'
  BY <1>0, <1>g, <1>v, <1>e, <1>a, <1>k DEF RemoteFrames, Claims, Latches
<1>4. Waited'
  BY <1>0, <1>g, <1>v, <1>e, <1>a, <1>k DEF Waited, Asked, Mailboxes, Mailbox
<1>5. OwnerFrame'
  BY <1>0, <1>g, <1>v, <1>e, <1>a, <1>k DEF OwnerFrame, Claims, Latches
<1>6. GuardsHold'
  BY <1>0, <1>g, <1>v, <1>e, <1>a, <1>k DEF GuardsHold, Possessed, Sufficient,
     IsPossessor, Latches, Holds
<1>7. Mailboxes'
  BY <1>g, <1>v DEF Mailboxes, Mailbox
<1>8. Registered'
  BY <1>0, <1>g, <1>v, <1>e, <1>a, <1>k DEF Registered, Answered
<1>9. Allocation'
  BY <1>0, <1>g, <1>v, <1>e, <1>a, <1>k DEF Allocation
<1>10. EpochStep /\ PagesAreFresh'
  <2>1. View(Owner)' = CopyOf("page", 0, "EXCLUSIVE", {})
    BY <1>a, <1>e, <1>g, <1>v DEF View, Claims, OwnerView, Reading
  <2>2. ASSUME NEW k \in Node, k # Owner PROVE View(k)' = NoCopy
    BY <1>a, <1>e, <1>g, <1>v, <1>k, <2>2 DEF View, FrameView
  <2>3. DirView' = [epoch |-> 0, mode |-> "EXCLUSIVE", nodes |-> {Owner}]
    BY <1>e, <1>v DEF DirView, DirOf
  <2>4. EpochStep
    BY <1>i, <1>j, <2>1, <2>2, <2>3, StepCreate DEF OtherViews
  <2> QED
    BY <1>v, <2>2, <2>4 DEF PagesAreFresh, NoCopy, CopyOf
<1> QED
  BY <1>1, <1>2, <1>3, <1>4, <1>5, <1>6, <1>7, <1>8, <1>9, <1>10
     DEF Preserved, Control

(* The owner has allocated the page that a remote node will use. *)
LEMMA CollectAllocationSafe ==
    ASSUME SafetyInv, NEW w \in Worker, NEW n \in Node, n = NodeOf[w], CollectAllocation(w)
    PROVE  Preserved
<1>0. /\ TypeOK /\ Latches /\ Providers /\ RemoteFrames /\ Waited /\ OwnerFrame
      /\ GuardsHold /\ Mailboxes /\ Registered /\ Allocation /\ PagesAreFresh
      /\ E!EpochInv
  BY DEF SafetyInv, Control
<1>y. ~PageExists
  BY DEF CollectAllocation, PageExists
<1>a. /\ \A k \in Node : latch[k].x = NoOne /\ latch[k].s = {} /\ provider[k] = "idle"
      /\ \A k \in Node : k # Owner => frame[k] = EmptyFrame
      /\ \A v \in Worker : worker[v].pc \in {"idle", "alloc"}
      /\ \A v, u \in Worker : worker[v].pc = "alloc" /\ worker[u].pc = "alloc" => v = u
      /\ downgrading = {}
  BY <1>0, <1>y DEF Allocation
<1>i. \A k \in Node : View(k) = NoCopy
  BY <1>y DEF View
<1>j. DirView = [epoch |-> 0, mode |-> "NOBODY", nodes |-> {}]
  BY <1>y DEF DirView
<1>k. /\ EmptyFrame.state = "FREE" /\ EmptyFrame.possession = "NOBODY"
      /\ EmptyFrame.possessors = {} /\ EmptyFrame.pVersion = 0 /\ EmptyFrame.mhWaiting = FALSE
  BY DEF EmptyFrame
<1>q. /\ frame[Owner].state = "EVICTED" /\ frame[Owner].possession = "EXCLUSIVE"
      /\ frame[Owner].possessors = {n} /\ frame[Owner].pVersion = 0
  BY ZenonT(40), <1>0, <1>y, <1>k DEF CollectAllocation, Allocation, Asked, Answered, EmptyFrame
<1>g. /\ worker[w].pc = "alloc" /\ n # Owner /\ worker[w].mode = "EXCLUSIVE"
      /\ \A v \in Worker : v # w => worker[v].pc = "idle"
      /\ UNCHANGED <<inflightCRs, provider>>
  BY <1>0, <1>a DEF CollectAllocation, Mailboxes, Mailbox, AllocMail
<1>v. /\ frame'[n].state = "HOT" /\ frame'[n].possession = "EXCLUSIVE"
      /\ frame'[n].possessors = {n} /\ frame'[n].pVersion = 0 /\ ~frame'[n].mhWaiting
      /\ \A k \in Node : k # n => frame'[k] = frame[k]
      /\ \A k \in Node : k # n => latch'[k] = latch[k]
      /\ latch'[n].x = w /\ latch'[n].s = {} /\ downgrading' = {}
      /\ worker'[w].pc = "use" /\ worker'[w].mode = "EXCLUSIVE"
      /\ \A v \in Worker : v # w => worker'[v] = worker[v]
      /\ fresh' = {n}
      /\ \A v \in Worker, k \in Node : mail'[v][k] = Nothing
  <2>1. /\ frame'[n].state = "HOT" /\ frame'[n].possession = "EXCLUSIVE"
        /\ frame'[n].possessors = {n} /\ frame'[n].pVersion = 0
        /\ ~frame'[n].mhWaiting
        /\ \A k \in Node : k # n => frame'[k] = frame[k]
    BY <1>0 DEF CollectAllocation, TypeOK, EmptyFrame
  <2>2. /\ \A k \in Node : k # n => latch'[k] = latch[k]
        /\ latch'[n].x = w /\ latch'[n].s = {} /\ downgrading' = {}
    BY <1>0, <1>a DEF CollectAllocation, LatchExclusive, TypeOK, Latch
  <2>3. \A v \in Worker, k \in Node : mail'[v][k] = Nothing
    <3>1. AskOne(w, Owner, Nothing)
      BY DEF CollectAllocation
    <3>2. \A k \in Node : mail'[w][k] = Nothing
      BY <1>0, <1>g, <3>1, AskFacts DEF Mailboxes, Mailbox, AllocMail, OnlyOwner
    <3>3. ASSUME NEW v \in Worker, v # w, NEW k \in Node PROVE mail'[v][k] = Nothing
      BY <1>0, <1>g, <3>1, <3>3, AskFacts DEF Mailboxes, Mailbox
    <3> QED
      BY <3>2, <3>3
  <2>4. /\ worker'[w].pc = "use" /\ worker'[w].mode = "EXCLUSIVE"
        /\ \A v \in Worker : v # w => worker'[v] = worker[v]
    BY <1>0, <1>g DEF CollectAllocation, TypeOK, WorkerState
  <2> QED
    BY <2>1, <2>2, <2>3, <2>4 DEF CollectAllocation
<1>e. PageExists'
  BY <1>g, <1>v, <1>q DEF PageExists
<1>1. Latches'
  BY <1>0, <1>g, <1>v, <1>e, <1>a, <1>k, <1>q DEF Latches, Claims, Holds
<1>2. Providers'
  BY <1>0, <1>g, <1>v, <1>e, <1>a, <1>k, <1>q DEF Providers, Reading
<1>3. RemoteFrames'
  BY <1>0, <1>g, <1>v, <1>e, <1>a, <1>k, <1>q DEF RemoteFrames, Claims,
     Latches
<1>4. Waited'
  BY <1>0, <1>g, <1>v, <1>e, <1>a, <1>k, <1>q DEF Waited, Asked, Mailboxes,
     Mailbox
<1>5. OwnerFrame'
  BY <1>0, <1>g, <1>v, <1>e, <1>a, <1>k, <1>q DEF OwnerFrame, Claims, Latches
<1>6. GuardsHold'
  BY <1>0, <1>g, <1>v, <1>e, <1>a, <1>k, <1>q DEF GuardsHold, Possessed,
     Sufficient, IsPossessor, Latches, Holds
<1>7. Mailboxes'
  BY <1>g, <1>v DEF Mailboxes, Mailbox
<1>8. Registered'
  BY <1>0, <1>g, <1>v, <1>e, <1>a, <1>k, <1>q DEF Registered, Answered
<1>9. Allocation'
  BY <1>0, <1>g, <1>v, <1>e, <1>a, <1>k, <1>q DEF Allocation
<1>10. EpochStep /\ PagesAreFresh'
  <2>1. View(n)' = CopyOf("page", 0, "EXCLUSIVE", {})
    BY <1>a, <1>e, <1>g, <1>v DEF View, Claims, FrameView
  <2>2. ASSUME NEW k \in Node, k # n PROVE View(k)' = NoCopy
    BY <1>a, <1>e, <1>g, <1>v, <1>k, <1>q, <2>2 DEF View, FrameView, OwnerView
  <2>3. DirView' = [epoch |-> 0, mode |-> "EXCLUSIVE", nodes |-> {n}]
    <3>1. frame'[Owner] = frame[Owner] /\ latch'[Owner].x = NoOne
      BY <1>a, <1>g, <1>v
    <3> QED
      BY <1>e, <1>q, <3>1 DEF DirView, DirOf
  <2>4. EpochStep
    BY <1>i, <1>j, <2>1, <2>2, <2>3, StepCreate DEF OtherViews
  <2> QED
    BY <1>v, <2>2, <2>4 DEF PagesAreFresh, NoCopy, CopyOf
<1> QED
  BY <1>1, <1>2, <1>3, <1>4, <1>5, <1>6, <1>7, <1>8, <1>9, <1>10
     DEF Preserved, Control

(* newPage for a page of another node *)
LEMMA NewRemotePageSafe ==
    ASSUME SafetyInv, NEW w \in Worker, NEW n \in Node, n = NodeOf[w], NewRemotePage(w)
    PROVE  Preserved
<1>0. /\ TypeOK /\ Latches /\ Providers /\ RemoteFrames /\ Waited /\ OwnerFrame
      /\ GuardsHold /\ Mailboxes /\ Registered /\ Allocation /\ PagesAreFresh
      /\ E!EpochInv
  BY DEF SafetyInv, Control
<1>y. ~PageExists
  BY DEF NewRemotePage, PageExists
<1>a. /\ \A k \in Node : latch[k].x = NoOne /\ latch[k].s = {} /\ provider[k] = "idle"
      /\ \A k \in Node : k # Owner => frame[k] = EmptyFrame
      /\ \A v \in Worker : worker[v].pc \in {"idle", "alloc"}
      /\ \A v, u \in Worker : worker[v].pc = "alloc" /\ worker[u].pc = "alloc" => v = u
      /\ downgrading = {}
  BY <1>0, <1>y DEF Allocation
<1>i. \A k \in Node : View(k) = NoCopy
  BY <1>y DEF View
<1>j. DirView = [epoch |-> 0, mode |-> "NOBODY", nodes |-> {}]
  BY <1>y DEF DirView
<1>k. /\ EmptyFrame.state = "FREE" /\ EmptyFrame.possession = "NOBODY"
      /\ EmptyFrame.possessors = {} /\ EmptyFrame.pVersion = 0 /\ EmptyFrame.mhWaiting = FALSE
  BY DEF EmptyFrame
<1>g. /\ worker[w].pc = "idle" /\ n # Owner /\ frame[Owner].state = "FREE"
      /\ \A v \in Worker : worker[v].pc = "idle"
      /\ UNCHANGED <<frame, latch, inflightCRs, provider, fresh, downgrading>>
  BY <1>a DEF NewRemotePage
<1>v. /\ worker'[w].pc = "alloc" /\ worker'[w].mode = "EXCLUSIVE"
      /\ \A v \in Worker : v # w => worker'[v] = worker[v] /\ mail'[v] = mail[v]
      /\ mail'[w][Owner] = [type |-> "RAR"]
      /\ \A k \in Node : k # Owner => mail'[w][k] = Nothing
  <2>1. AskOne(w, Owner, [type |-> "RAR"])
    BY DEF NewRemotePage
  <2>2. /\ mail'[w][Owner] = [type |-> "RAR"] /\ \A v \in Worker : v # w => mail'[v] = mail[v]
        /\ \A k \in Node : k # Owner => mail'[w][k] = Nothing
    BY <1>0, <1>g, <2>1, AskFacts DEF Mailboxes, Mailbox
  <2> QED
    BY <1>0, <2>2 DEF NewRemotePage, TypeOK, WorkerState
<1>e. ~PageExists'
  BY <1>v DEF PageExists
<1>m. Asked(w, Owner, "RAR")'
  BY <1>v, NotNothing DEF Asked
<1>1. Latches'
  BY <1>0, <1>g, <1>v, <1>e, <1>a, <1>k DEF Latches, Claims, Holds
<1>2. Providers'
  BY <1>0, <1>g, <1>v, <1>e, <1>a, <1>k DEF Providers, Reading
<1>3. RemoteFrames'
  BY <1>0, <1>g, <1>v, <1>e, <1>a, <1>k DEF RemoteFrames, Claims, Latches
<1>4. Waited'
  BY <1>0, <1>g, <1>v, <1>e, <1>a, <1>k DEF Waited, Asked, Mailboxes, Mailbox
<1>5. OwnerFrame'
  BY <1>0, <1>g, <1>v, <1>e, <1>a, <1>k DEF OwnerFrame, Claims, Latches
<1>6. GuardsHold'
  BY <1>0, <1>g, <1>v, <1>e, <1>a, <1>k DEF GuardsHold, Possessed, Sufficient,
     IsPossessor, Latches, Holds
<1>7. Mailboxes'
  <2>1. ASSUME NEW v \in Worker, v # w PROVE Mailbox(v)'
    BY <1>0, <1>g, <1>v, <2>1, SameMailbox DEF Mailboxes, Latches, Claims
  <2>2. Mailbox(w)'
    BY <1>g, <1>v, <1>m DEF Mailbox, AllocMail, OnlyOwner
  <2> QED
    BY <2>1, <2>2 DEF Mailboxes
<1>8. Registered'
  BY <1>0, <1>g, <1>v, <1>e, <1>a, <1>k DEF Registered, Answered
<1>9. Allocation'
  <2>1. frame[Owner] = EmptyFrame
    BY <1>0, <1>y, <1>g DEF Allocation
  <2> QED
    <3>1. \A v \in Worker : worker'[v].pc = "alloc" => v = w
      BY <1>g, <1>v
    <3>2. \A v \in Worker : worker'[v].pc \in {"idle", "alloc"}
      BY <1>g, <1>v
    <3>3. \A v \in Worker : worker'[v].pc = "alloc" => Asked(v, Owner, "RAR")'
      BY <1>m, <3>1
    <3> QED
      BY <1>a, <1>g, <2>1, <3>1, <3>2, <3>3 DEF Allocation
<1>10. EpochStep /\ PagesAreFresh'
  <2>1. \A k \in Node : View(k)' = NoCopy
    BY <1>e DEF View
  <2>2. DirView' = [epoch |-> 0, mode |-> "NOBODY", nodes |-> {}]
    BY <1>e DEF DirView
  <2>3. EpochStep
    BY <1>i, <1>j, <2>1, <2>2, StepStutter DEF OtherViews
  <2> QED
    BY <2>1, <2>3 DEF PagesAreFresh, NoCopy, CopyOf
<1> QED
  BY <1>1, <1>2, <1>3, <1>4, <1>5, <1>6, <1>7, <1>8, <1>9, <1>10
     DEF Preserved, Control

(* The owner allocates a page for a remote node. *)
LEMMA HandleRARSafe ==
    ASSUME SafetyInv, NEW w \in Worker, NEW n \in Node, n = NodeOf[w], HandleRAR(w)
    PROVE  Preserved
<1>0. /\ TypeOK /\ Latches /\ Providers /\ RemoteFrames /\ Waited /\ OwnerFrame
      /\ GuardsHold /\ Mailboxes /\ Registered /\ Allocation /\ PagesAreFresh
      /\ E!EpochInv
  BY DEF SafetyInv, Control
<1>y. worker[w].pc = "alloc" /\ n # Owner /\ ~PageExists
  BY <1>0, WhoAsks DEF HandleRAR, PageExists
<1>a. /\ \A k \in Node : latch[k].x = NoOne /\ latch[k].s = {} /\ provider[k] = "idle"
      /\ \A k \in Node : k # Owner => frame[k] = EmptyFrame
      /\ \A v \in Worker : worker[v].pc \in {"idle", "alloc"}
      /\ \A v, u \in Worker : worker[v].pc = "alloc" /\ worker[u].pc = "alloc" => v = u
      /\ downgrading = {}
  BY <1>0, <1>y DEF Allocation
<1>i. \A k \in Node : View(k) = NoCopy
  BY <1>y DEF View
<1>j. DirView = [epoch |-> 0, mode |-> "NOBODY", nodes |-> {}]
  BY <1>y DEF DirView
<1>k. /\ EmptyFrame.state = "FREE" /\ EmptyFrame.possession = "NOBODY"
      /\ EmptyFrame.possessors = {} /\ EmptyFrame.pVersion = 0 /\ EmptyFrame.mhWaiting = FALSE
  BY DEF EmptyFrame
<1>g. /\ worker[w].pc = "alloc" /\ n # Owner
      /\ \A v \in Worker : v # w => worker[v].pc = "idle"
      /\ UNCHANGED <<latch, worker, provider, fresh>>
  BY <1>y, <1>a DEF HandleRAR, LatchBriefly
<1>v. /\ frame'[Owner] = [EmptyFrame EXCEPT !.state = "EVICTED", !.possession = "EXCLUSIVE",
                                       !.possessors = {n}]
      /\ \A k \in Node : k # Owner => frame'[k] = frame[k]
      /\ inflightCRs' = inflightCRs \ {w} /\ downgrading' = {}
      /\ \A v \in Worker : v # w => mail'[v] = mail[v]
      /\ mail'[w][Owner] = Reply("WithPage", {}, 0)
      /\ \A k \in Node : k # Owner => mail'[w][k] = Nothing
  <2>1. AskOne(w, Owner, Reply("WithPage", {}, 0))
    BY DEF HandleRAR
  <2>2. /\ \A v \in Worker : v # w => mail'[v] = mail[v]
        /\ mail'[w][Owner] = Reply("WithPage", {}, 0)
        /\ \A k \in Node : k # Owner => mail'[w][k] = Nothing
    BY <1>0, <1>g, <2>1, AskFacts DEF Mailboxes, Mailbox, AllocMail, OnlyOwner
  <2> QED
    BY <1>0, <1>a, <2>2 DEF HandleRAR, ForgetCopyRequest, LatchBriefly, TypeOK
<1>e. ~PageExists'
  BY <1>g DEF PageExists
<1>m. Answered(w, Owner)'
  BY <1>v, NotNothing DEF Answered, Reply, RESULT
<1>n. frame'[Owner].state = "EVICTED" /\ frame'[Owner].possession = "EXCLUSIVE"
  BY <1>v DEF EmptyFrame
<1>1. Latches'
  BY <1>0, <1>g, <1>v, <1>e, <1>a, <1>k DEF Latches, Claims, Holds
<1>2. Providers'
  BY <1>0, <1>g, <1>v, <1>e, <1>a, <1>k DEF Providers, Reading
<1>3. RemoteFrames'
  BY <1>0, <1>g, <1>v, <1>e, <1>a, <1>k DEF RemoteFrames, Claims, Latches
<1>4. Waited'
  BY <1>0, <1>g, <1>v, <1>e, <1>a, <1>k DEF Waited, Asked, Mailboxes, Mailbox
<1>5. OwnerFrame'
  BY <1>0, <1>g, <1>v, <1>e, <1>a, <1>k, <1>n DEF OwnerFrame, Claims, Latches
<1>6. GuardsHold'
  BY <1>0, <1>g, <1>v, <1>e, <1>a, <1>k DEF GuardsHold, Possessed, Sufficient,
     IsPossessor, Latches, Holds
<1>7. Mailboxes'
  <2>1. ASSUME NEW v \in Worker, v # w PROVE Mailbox(v)'
    BY <1>0, <1>g, <1>v, <2>1, SameMailbox DEF Mailboxes, Latches, Claims
  <2>2. Mailbox(w)'
    BY <1>0, <1>g, <1>v, <1>m DEF Mailboxes, Mailbox, AllocMail, OnlyOwner
  <2> QED
    BY <2>1, <2>2 DEF Mailboxes
<1>8. Registered'
  BY <1>0, <1>g, <1>v, <1>e, <1>a, <1>k DEF Registered, Answered
<1>9. Allocation'
  BY <1>a, <1>g, <1>v, <1>m, <1>n DEF Allocation
<1>10. EpochStep /\ PagesAreFresh'
  <2>1. \A k \in Node : View(k)' = NoCopy
    BY <1>e DEF View
  <2>2. DirView' = [epoch |-> 0, mode |-> "NOBODY", nodes |-> {}]
    BY <1>e DEF DirView
  <2>3. EpochStep
    BY <1>i, <1>j, <2>1, <2>2, StepStutter DEF OtherViews
  <2> QED
    BY <2>1, <2>3 DEF PagesAreFresh, NoCopy, CopyOf
<1> QED
  BY <1>1, <1>2, <1>3, <1>4, <1>5, <1>6, <1>7, <1>8, <1>9, <1>10
     DEF Preserved, Control

-----------------------------------------------------------------------------
(* Steps put together from the above *)

(* A step that changes nothing *)
LEMMA StutterSafe ==
    ASSUME SafetyInv, UNCHANGED vars
    PROVE  Preserved
<1>0. /\ TypeOK /\ Latches /\ Providers /\ RemoteFrames /\ Waited /\ OwnerFrame
      /\ GuardsHold /\ Mailboxes /\ Registered /\ Allocation /\ PagesAreFresh
      /\ E!EpochInv
  BY DEF SafetyInv, Control
<1>g. /\ UNCHANGED <<frame, latch, worker, mail, inflightCRs, provider, fresh, downgrading>>
  BY DEF vars
<1>v. /\ downgrading' = downgrading
  BY <1>g
<1>e. PageExists' <=> PageExists
  BY <1>g DEF PageExists
<1>1. Latches'
  BY <1>0, <1>g, <1>v, <1>e DEF Latches, Claims, Holds
<1>2. Providers'
  BY <1>0, <1>g, <1>v, <1>e DEF Providers, Reading
<1>3. RemoteFrames'
  BY <1>0, <1>g, <1>v, <1>e DEF RemoteFrames, Claims, Latches
<1>4. Waited'
  BY <1>0, <1>g, <1>v, <1>e DEF Waited, Asked, Mailboxes, Mailbox
<1>5. OwnerFrame'
  BY <1>0, <1>g, <1>v, <1>e DEF OwnerFrame, Claims, Latches
<1>6. GuardsHold'
  BY <1>0, <1>g, <1>v, <1>e DEF GuardsHold, Possessed, Sufficient,
     IsPossessor, Latches, Holds
<1>7. Mailboxes'
  <2>1. ASSUME NEW v \in Worker PROVE Mailbox(v)'
    BY <1>0, <1>g, <1>v, <2>1, SameMailbox DEF Mailboxes, Latches, Claims
  <2> QED
    BY <2>1 DEF Mailboxes
<1>8. Registered'
  BY <1>0, <1>g, <1>v, <1>e DEF Registered, Answered
<1>9. Allocation'
  BY <1>0, <1>e, <1>g DEF Allocation, Asked, Answered
<1>10. EpochStep /\ PagesAreFresh'
  <2>1. ASSUME NEW k \in Node PROVE SameFrame(k) /\ SameHolder(k)
    BY <1>0, <1>g, <1>v, <2>1 DEF SameFrame, SameHolder, Latches, Claims, Holds
  <2>2. SameReading
    BY <1>g DEF SameReading, Reading
  <2>3. DirView' = DirView /\ OtherViews({})
    BY <1>0, <1>e, <1>g, <2>1, <2>2, AllSame
  <2> QED
    BY <1>0, <1>g, <2>3, StutterStep
<1> QED
  BY <1>1, <1>2, <1>3, <1>4, <1>5, <1>6, <1>7, <1>8, <1>9, <1>10
     DEF Preserved, Control

(* The owner has answered with the page and nobody to invalidate. *)
LEMMA PossessionGrantSafe ==
    ASSUME SafetyInv, NEW w \in Worker, NEW n \in Node, n = NodeOf[w],
           CollectPossession(w), mail[w][Owner].resultType = "WithPage"
    PROVE  Preserved
<1>0. TypeOK /\ Latches /\ Mailboxes /\ Allocation
  BY DEF SafetyInv, Control
<1>1. /\ worker[w].pc = "request" /\ Answered(w, Owner) /\ AskOne(w, Owner, Nothing)
      /\ Possess(w, mail[w][Owner].pVersion) /\ UNCHANGED <<inflightCRs, provider, fresh>>
  BY DEF CollectPossession
<1>2. RequestMail(w) /\ mail[w][Owner].pVersion \in Nat
  BY <1>0, <1>1, AnsweredType DEF Mailboxes, Mailbox
<1>3. mail[w][Owner].conflict = {}
  BY <1>1, <1>2 DEF RequestMail, Answered, Asked
<1>4. View(n) = CopyOf("page", mail[w][Owner].pVersion, worker[w].mode, {})
  <2>1. View(n) = ClaimView(w)
    BY <1>0, <1>1, PageIsThere, ClaimIsView DEF Claims
  <2> QED
    BY <1>1, <1>3, <2>1 DEF ClaimView, RequestView, GrantStatus
<1>5. AskedFor(w) = {}
  BY <1>1, <1>2 DEF AskedFor, Asked, Answered, RequestMail, OnlyOwner
<1>6. /\ \A k \in Node : mail'[w][k] = Nothing
      /\ \A v \in Worker : v # w => mail'[v] = mail[v]
  BY <1>0, <1>1, <1>2, AskFacts DEF RequestMail, OnlyOwner
<1> QED
  BY <1>1, <1>2, <1>4, <1>5, <1>6, PossessSafe

(* All sharers have given up their copies. *)
LEMMA CollectInvalidationsSafe ==
    ASSUME SafetyInv, NEW w \in Worker, NEW n \in Node, n = NodeOf[w], CollectInvalidations(w)
    PROVE  Preserved
<1>0. TypeOK /\ Latches /\ Mailboxes /\ Allocation
  BY DEF SafetyInv, Control
<1>1. /\ worker[w].pc = "invalidate" /\ \A k \in worker[w].peers : Answered(w, k)
      /\ mail' = [mail EXCEPT ![w] = [k \in Node |-> Nothing]]
      /\ Possess(w, frame[n].pVersion) /\ UNCHANGED <<inflightCRs, provider, fresh>>
  BY DEF CollectInvalidations
<1>2. InvalidateMail(w) /\ frame[n].pVersion \in Nat
  BY <1>0, <1>1, FrameType DEF Mailboxes, Mailbox
<1>5. AskedFor(w) = {}
  BY <1>1, <1>2 DEF AskedFor, Asked, Answered, InvalidateMail
<1>4. View(n) = CopyOf("page", frame[n].pVersion, worker[w].mode, {})
  BY <1>0, <1>1, <1>5, PageIsThere, ClaimIsView DEF Claims, ClaimView, InvalidateView
<1>6. /\ \A k \in Node : mail'[w][k] = Nothing
      /\ \A v \in Worker : v # w => mail'[v] = mail[v]
  BY <1>0, <1>1 DEF TypeOK
<1> QED
  BY <1>1, <1>2, <1>4, <1>5, <1>6, PossessSafe

(* The copy of a sharer has arrived. *)
LEMMA CopyArrivedSafe ==
    ASSUME SafetyInv, NEW w \in Worker, NEW n \in Node, n = NodeOf[w], NEW src \in Node,
           worker[w].pc = "copy", Answered(w, src), mail[w][src].resultType = "WithPage",
           AskOne(w, src, Nothing), Possess(w, frame[n].pVersion),
           UNCHANGED <<inflightCRs, provider, fresh>>
    PROVE  Preserved
<1>0. TypeOK /\ Latches /\ Mailboxes /\ Allocation
  BY DEF SafetyInv, Control
<1>2. CopyMail(w) /\ frame[n].pVersion \in Nat
  BY <1>0, FrameType DEF Mailboxes, Mailbox
<1>3. \A k \in Node : k # src => mail[w][k] = Nothing
  BY <1>2 DEF CopyMail, Answered
<1>5. AskedFor(w) = {}
  BY <1>3 DEF AskedFor, Asked, Answered
<1>4. View(n) = CopyOf("page", frame[n].pVersion, worker[w].mode, {})
  <2>1. GotCopy(w) /\ worker[w].mode = "SHARED"
    BY <1>2 DEF GotCopy, CopyMail
  <2> QED
    BY <1>0, <2>1, PageIsThere, ClaimIsView DEF Claims, ClaimView, CopyView
<1>6. /\ \A k \in Node : mail'[w][k] = Nothing
      /\ \A v \in Worker : v # w => mail'[v] = mail[v]
  BY <1>0, <1>3, AskFacts
<1> QED
  BY <1>2, <1>4, <1>5, <1>6, PossessSafe

-----------------------------------------------------------------------------
(* Every step keeps the invariant and is a step of the epochs, or none. *)

(* The steps of a worker that call or finish fix and newPage *)
LEMMA CallsSafe ==
    ASSUME SafetyInv, NEW w \in Worker,
           \/ Begin(w) \/ NewPage(w) \/ NewRemotePage(w) \/ CollectAllocation(w)
           \/ FixHit(w) \/ FixInsert(w) \/ FixLocalChange(w) \/ FixUpgrade(w)
           \/ Downgrade(w) \/ Release(w)
    PROVE  Preserved
<1> DEFINE n == NodeOf[w]
<1>0. TypeOK /\ n \in Node
  BY NodeAssumption DEF SafetyInv
<1>1. worker[w].mode = "EXCLUSIVE" \/ worker[w].mode = "SHARED"
  BY <1>0, WorkerType DEF MODE
<1> HIDE DEF n
<1>2. n = NodeOf[w]
  BY DEF n
<1>3. CASE Begin(w) \/ NewPage(w) \/ NewRemotePage(w) \/ CollectAllocation(w)
  BY <1>0, <1>2, <1>3, BeginSafe, NewPageSafe, NewRemotePageSafe, CollectAllocationSafe
<1>4. CASE FixHit(w)
  BY <1>0, <1>1, <1>2, <1>4, FixHitXSafe, FixHitSSafe
<1>5. CASE FixInsert(w) \/ FixUpgrade(w) \/ Downgrade(w)
  BY <1>0, <1>2, <1>5, FixInsertSafe, FixUpgradeSafe, DowngradeSafe
<1>6. CASE Release(w)
  BY <1>0, <1>1, <1>2, <1>6, ReleaseXSafe, ReleaseSSafe
<1>7. CASE FixLocalChange(w)
  <2>1. frame[Owner].possession = "EXCLUSIVE" \/ frame[Owner].possession = "SHARED"
    BY <1>7 DEF FixLocalChange, Insufficient
  <2> QED
    BY <1>1, <1>7, <2>1, LocalMoveSafe, LocalInvalidateSafe, LocalCopySafe
<1> QED
  BY <1>3, <1>4, <1>5, <1>6, <1>7

(* The steps of a worker that collect answers *)
LEMMA AnswersSafe ==
    ASSUME SafetyInv, NEW w \in Worker,
           \/ CollectPossession(w) \/ CollectMove(w) \/ CollectInvalidations(w)
           \/ CollectCopy(w) \/ CollectUpdate(w)
    PROVE  Preserved
<1> DEFINE n == NodeOf[w]
<1>0. TypeOK /\ Mailboxes /\ n \in Node
  BY NodeAssumption DEF SafetyInv, Control
<1> HIDE DEF n
<1>1. n = NodeOf[w]
  BY DEF n
<1>2. CASE CollectPossession(w)
  <2>1. worker[w].pc = "request" /\ Answered(w, Owner)
    BY <1>2 DEF CollectPossession
  <2>2. mail[w][Owner].resultType \in
           {"WithPage", "NoPageEvicted", "WithPageSharedConflict",
            "NoPageSharedConflict", "NoPageExclusiveConflict"}
    BY <1>0, <2>1 DEF Mailboxes, Mailbox, RequestMail, Asked, Answered
  <2> QED
    BY <1>0, <1>1, <1>2, <2>2, PossessionGrantSafe, PossessionCopySafe,
       PossessionInvalidateSafe, PossessionMoveSafe
<1>3. CASE CollectMove(w) \/ CollectInvalidations(w)
  BY <1>0, <1>1, <1>3, CollectMoveSafe, CollectInvalidationsSafe
<1>4. CASE CollectUpdate(w)
  <2>1. mail[w][Owner].resultType \in {"UpdateFailed", "UpdateSucceedWithSharedConflict"}
    BY <1>4 DEF CollectUpdate
  <2> QED
    BY <1>0, <1>1, <1>4, <2>1, UpdateFailedSafe, UpdateGrantedSafe
<1>5. CASE CollectCopy(w)
  <2>1. /\ worker[w].pc = "copy" /\ UNCHANGED <<inflightCRs, provider, fresh>>
        /\ \E src \in Node :
             /\ Answered(w, src)
             /\ \/ /\ mail[w][src].resultType = "WithPage"
                   /\ AskOne(w, src, Nothing) /\ Possess(w, frame[n].pVersion)
                \/ (n = Owner \/ frame[n].mhWaiting) /\ StopsCopying(w, n, src)
                \/ n # Owner /\ RetriesCopy(w, n, src)
    BY <1>1, <1>5 DEF CollectCopy, StopsCopying, RetriesCopy, CopyFails
  <2>2. PICK src \in Node :
             /\ Answered(w, src)
             /\ \/ /\ mail[w][src].resultType = "WithPage"
                   /\ AskOne(w, src, Nothing) /\ Possess(w, frame[n].pVersion)
                \/ (n = Owner \/ frame[n].mhWaiting) /\ StopsCopying(w, n, src)
                \/ n # Owner /\ RetriesCopy(w, n, src)
    BY <2>1
  <2>3. CASE /\ mail[w][src].resultType = "WithPage"
             /\ AskOne(w, src, Nothing) /\ Possess(w, frame[n].pVersion)
    BY <1>0, <1>1, <2>1, <2>2, <2>3, CopyArrivedSafe
  <2>4. CASE (n = Owner \/ frame[n].mhWaiting) /\ StopsCopying(w, n, src)
    BY <1>0, <1>1, <2>4, CopyStoppedSafe, OwnerCopyStoppedSafe
  <2>5. CASE n # Owner /\ RetriesCopy(w, n, src)
    BY <1>0, <1>1, <2>5, CopyRetriedSafe
  <2> QED
    BY <2>2, <2>3, <2>4, <2>5
<1> QED
  BY <1>2, <1>3, <1>4, <1>5

(* The steps of the owner's message handler *)
LEMMA OwnerHandlerSafe ==
    ASSUME SafetyInv, NEW w \in Worker, OwnerHandlerStep(w)
    PROVE  Preserved
<1> DEFINE n == NodeOf[w]
<1>0. n \in Node
  BY NodeAssumption
<1> HIDE DEF n
<1>1. n = NodeOf[w]
  BY DEF n
<1>2. CASE HandlePRS(w)
  <2>1. frame[Owner].possession = "EXCLUSIVE" \/ frame[Owner].possession = "SHARED"
    BY <1>2 DEF HandlePRS
  <2> QED
    BY <1>0, <1>1, <1>2, <2>1, PRSShareOwnerSafe, PRSTakeAwaySafe, PRSCopySafe, PRSJoinSafe
<1>3. CASE HandlePRX(w)
  BY <1>0, <1>1, <1>3, PRXTakeAwaySafe, PRXGiveAwaySafe
<1>4. CASE HandleRAR(w) \/ AcceptPUR(w) \/ RejectPUR(w)
  BY <1>0, <1>1, <1>4, HandleRARSafe, AcceptPURSafe, RejectPURSafe
<1>5. CASE RetryPossessionRequest(w) \/ RetryPUR(w)
  BY <1>5, RetryPossessionRequestSafe, RetryPURSafe
<1> QED
  BY <1>2, <1>3, <1>4, <1>5 DEF OwnerHandlerStep

(* The steps of the message handler of a possessor *)
LEMMA HandlerSafe ==
    ASSUME SafetyInv, NEW w \in Worker, NEW n \in Node, HandlerStep(w, n)
    PROVE  Preserved
<1>1. NodeOf[w] \in Node
  BY NodeAssumption
<1>2. CASE RetryPMR(w, n) \/ HandlePMR(w, n)
  BY <1>1, <1>2, RetryPMRSafe, HandlePMRSafe
<1>3. CASE RetryPCR(w, n) \/ RejectPCR(w, n) \/ AcceptPCR(w, n)
  BY <1>1, <1>3, RetryPCRSafe, RejectPCRSafe, AcceptPCRSafe
<1> QED
  BY <1>2, <1>3 DEF HandlerStep

(* The steps of the page providers *)
LEMMA ProviderSafe ==
    ASSUME SafetyInv, NEW n \in Node,
           RemoveFrame(n) \/ RequestEviction(n) \/ ProviderStep(n) \/ EvictOwnerPage
    PROVE  Preserved
BY RemoveFrameSafe, RequestEvictionSafe, RejectEvictionSafe, EvictionReadSafe,
   EvictionLeaveSafe, CompleteReadSafe, CollectEvictionKeepSafe,
   CollectEvictionDropSafe, OwnerPageKeptSafe, OwnerPageDroppedSafe
   DEF ProviderStep

(* Every step *)
LEMMA StepSafe == SafetyInv /\ [Next]_vars => Preserved
<1> SUFFICES ASSUME SafetyInv, [Next]_vars PROVE Preserved
  OBVIOUS
<1>1. CASE UNCHANGED vars \/ Stop
  BY <1>1, StutterSafe DEF Stop
<1>2. CASE \E w \in Worker : Begin(w) \/ NewPage(w) \/ NewRemotePage(w)
  BY <1>2, CallsSafe
<1>3. CASE \E w \in Worker : WorkerStep(w)
  BY <1>3, CallsSafe, AnswersSafe DEF WorkerStep
<1>4. CASE \E w \in Worker : OwnerHandlerStep(w)
  BY <1>4, OwnerHandlerSafe
<1>5. CASE \E w \in Worker, n \in Node : HandlerStep(w, n)
  BY <1>5, HandlerSafe
<1>6. CASE \E n \in Node : RemoveFrame(n) \/ RequestEviction(n) \/ ProviderStep(n)
  BY <1>6, ProviderSafe
<1>7. CASE EvictOwnerPage
  BY <1>7, ProviderSafe
<1> QED
  BY <1>1, <1>2, <1>3, <1>4, <1>5, <1>6, <1>7 DEF Next

(* Nothing is cached at the start. *)
LEMMA InitSafe == Init => SafetyInv /\ E!Init
<1> SUFFICES ASSUME Init PROVE SafetyInv /\ E!Init
  OBVIOUS
<1>1. /\ \A n \in Node : frame[n] = EmptyFrame /\ latch[n].x = NoOne /\ latch[n].s = {}
                         /\ provider[n] = "idle"
      /\ \A w \in Worker : worker[w].pc = "idle" /\ \A n \in Node : mail[w][n] = Nothing
      /\ fresh = {} /\ downgrading = {} /\ inflightCRs = {}
  BY DEF Init, Unlatched, Resting
<1>2. /\ EmptyFrame.state = "FREE" /\ EmptyFrame.possession = "NOBODY"
      /\ EmptyFrame.mhWaiting = FALSE
  BY DEF EmptyFrame
<1>3. ~PageExists
  BY <1>1, <1>2 DEF PageExists
<1>4. Latches /\ Providers /\ RemoteFrames /\ Waited
  BY <1>1, <1>2 DEF Latches, Claims, Holds, Providers, Reading, RemoteFrames, Waited
<1>5. OwnerFrame /\ GuardsHold /\ Registered /\ Allocation
  BY <1>1, <1>2, <1>3 DEF OwnerFrame, GuardsHold, Registered, Allocation
<1>6. Mailboxes
  BY <1>1 DEF Mailboxes, Mailbox
<1>7. \A n \in Node : View(n) = NoCopy
  BY <1>3 DEF View
<1>8. PagesAreFresh
  BY <1>7 DEF PagesAreFresh, NoCopy, CopyOf
<1>9. E!Init
  BY <1>3, <1>7 DEF E!Init, DirView, Copies, E!NoPage, E!NoCopy, E!CopyOf, NoCopy, CopyOf
<1>10. E!EpochInv
  BY <1>9, E!EpochInvInit
<1> QED
  BY <1>4, <1>5, <1>6, <1>8, <1>9, <1>10, InitTypes DEF SafetyInv, Control

(* The invariant is inductive, and the views take a step of the epochs. *)
LEMMA SafetyStep == SafetyInv /\ [Next]_vars => SafetyInv' /\ [E!Next]_(E!vars)
<1> SUFFICES ASSUME SafetyInv, [Next]_vars PROVE SafetyInv' /\ [E!Next]_(E!vars)
  OBVIOUS
<1>1. Control' /\ PagesAreFresh' /\ EpochStep
  BY StepSafe DEF Preserved
<1>2. [E!Next]_(E!vars)
  BY <1>1 DEF EpochStep, E!vars
<1>3. E!EpochInv'
  BY <1>2, E!EpochInvNext DEF SafetyInv
<1>4. TypeOK'
  BY TypeStep DEF SafetyInv
<1> QED
  BY <1>1, <1>2, <1>3, <1>4 DEF SafetyInv

(* The inductive invariant holds of the protocol of Buffermanager.tpp,     *)
(* MessageHandler.hpp and PageProvider.cpp for every set of nodes, every   *)
(* assignment of workers to nodes and every bound: latches, mailboxes,     *)
(* directory and evictions agree, and the views satisfy the invariant of   *)
(* the epochs.                                                             *)
THEOREM SafetyInvariant == Spec => []SafetyInv
BY InitSafe, SafetyStep, PTL DEF Spec

(* Seen through the views, the protocol implements the epochs: every       *)
(* answer of the owner opens or joins an epoch, every answer of a          *)
(* possessor ends a copy of an older one, and nothing else changes who may *)
(* use the page.                                                           *)
THEOREM ImplementsEpochs == Spec => E!Spec
<1>1. Init => E!Init
  BY InitSafe
<1> QED
  BY <1>1, SafetyInvariant, SafetyStep, PTL DEF Spec, E!Spec

-----------------------------------------------------------------------------
(* The properties of module Coherence that follow from the invariant *)

(* A guard stands for a copy that its node may use. *)
LEMMA GuardIsCopy ==
    ASSUME SafetyInv, NEW w \in Worker, worker[w].pc = "use"
    PROVE  /\ MayUse(NodeOf[w]) /\ View(NodeOf[w]).status = "page"
           /\ worker[w].mode = "EXCLUSIVE" => View(NodeOf[w]).mode = "EXCLUSIVE"
<1> DEFINE n == NodeOf[w]
<1>0. n \in Node /\ n = NodeOf[w]
  OBVIOUS
<1> HIDE DEF n
<1>1. /\ TypeOK /\ Latches /\ Providers /\ GuardsHold /\ Allocation
  BY DEF SafetyInv, Control
<1>2. PageExists
  BY <1>1, PageIsThere
<1>3. worker[w].mode \in MODE
  BY <1>1, WorkerType
<1>4. latch[n].x = w \/ latch[n].x = NoOne
  BY <1>0, <1>1, <1>3 DEF Latches, Holds, MODE
<1>5. ~Claims(w)
  BY DEF Claims
<1>6. /\ frame[n].state = "HOT" /\ n \in frame[n].possessors
      /\ worker[w].mode = "EXCLUSIVE" => frame[n].possession = "EXCLUSIVE"
  BY <1>0, <1>1 DEF GuardsHold, Possessed, Sufficient, IsPossessor
<1>7. ~(latch[n].x \in Worker /\ Claims(latch[n].x))
  BY <1>4, <1>5
<1>8. CASE n = Owner
  <2>1. \A m \in Node : ~Reading(m)
    BY <1>1, <1>4, <1>8 DEF Providers
  <2>2. View(n) = CopyOf("page", frame[n].pVersion, frame[n].possession, {})
    BY <1>2, <1>6, <1>7, <1>8, <2>1 DEF View, OwnerView
  <2> QED
    BY <1>0, <1>6, <2>2 DEF CopyOf, MayUse
<1>9. CASE n # Owner
  <2>1. provider[n] # "accepted" /\ latch[n].x # MessageHandler
    BY <1>0, <1>1, <1>4, <1>9 DEF Providers
  <2>2. View(n) = CopyOf("page", frame[n].pVersion, frame[n].possession, {})
    BY <1>2, <1>6, <1>7, <1>9, <2>1 DEF View, FrameView
  <2> QED
    BY <1>0, <1>6, <2>2 DEF CopyOf, MayUse
<1> QED
  BY <1>8, <1>9

(* Two guards stand for two usable copies; an exclusive one is the only    *)
(* usable copy of its epoch, and on one node the latch separates the       *)
(* workers.                                                                *)
LEMMA WriterIsAlone == SafetyInv => SingleWriter
<1> SUFFICES ASSUME SafetyInv, NEW w \in Worker, NEW v \in Worker,
                    Holds(w, "EXCLUSIVE"), worker[v].pc = "use"
             PROVE  v = w
  BY DEF SingleWriter
<1>0. worker[w].pc = "use" /\ worker[w].mode = "EXCLUSIVE"
  BY DEF Holds
<1>1. /\ MayUse(NodeOf[w]) /\ View(NodeOf[w]).mode = "EXCLUSIVE"
      /\ View(NodeOf[v]).status = "page"
  BY <1>0, GuardIsCopy
<1>2. NodeOf[w] \in Node /\ NodeOf[v] \in Node
  OBVIOUS
<1>3. TypeOK /\ Latches /\ E!EpochInv
  BY DEF SafetyInv, Control
<1>4. NodeOf[w] = NodeOf[v]
  BY <1>1, <1>2, <1>3, EpochFacts
<1>5. latch[NodeOf[w]].x = w
  BY <1>2, <1>3 DEF Latches
<1>6. worker[v].mode \in MODE
  BY <1>3, WorkerType
<1>7. CASE worker[v].mode = "EXCLUSIVE"
  BY <1>2, <1>3, <1>4, <1>5, <1>7 DEF Latches, Holds
<1>8. CASE worker[v].mode = "SHARED"
  <2>1. v \in latch[NodeOf[w]].s
    BY <1>2, <1>3, <1>4, <1>8 DEF Latches, Holds
  <2> QED
    BY <1>2, <1>3, <1>5, <2>1 DEF Latches
<1> QED
  BY <1>6, <1>7, <1>8 DEF MODE

(* The epochs always have a node with the page. *)
LEMMA SomeCopySurvives == SafetyInv => LastCopySurvives
<1> SUFFICES ASSUME SafetyInv, PageExists PROVE \E k \in fresh : frame[k].state # "FREE"
  BY DEF LastCopySurvives
<1>1. TypeOK /\ Latches /\ RemoteFrames /\ OwnerFrame /\ PagesAreFresh /\ E!EpochInv
  BY DEF SafetyInv, Control
<1>2. DirView.mode # "NOBODY"
  <2>1. frame[Owner].possession # "NOBODY"
    BY <1>1 DEF OwnerFrame
  <2>2. \A v \in Worker : worker[v].mode # "NOBODY"
    BY <1>1, WorkerType DEF MODE
  <2> QED
    BY <2>1, <2>2 DEF DirView, DirOf
<1>3. PICK k \in Node : View(k).status = "page"
  BY <1>1, <1>2, EpochFacts
<1>4. k \in fresh
  BY <1>1, <1>3 DEF PagesAreFresh
<1>5. frame[k].state # "FREE"
  <2>1. CASE k = Owner
    BY <2>1 DEF PageExists
  <2>2. CASE k # Owner
    <3> SUFFICES ASSUME frame[k].state = "FREE" PROVE FALSE
      OBVIOUS
    <3>1. latch[k].x = NoOne
      BY <1>1, <2>2 DEF RemoteFrames
    <3>2. View(k) = NoCopy
      BY <2>2, <3>1 DEF View, FrameView
    <3> QED
      BY <1>3, <3>2 DEF NoCopy, CopyOf
  <2> QED
    BY <2>1, <2>2
<1> QED
  BY <1>4, <1>5

(* Who is waited for has been, or will be, asked to give up its copy. *)
LEMMA WaitedIsAsked ==
    ASSUME SafetyInv, PageExists, NEW p \in Node, NEW n \in Node,
           View(p).status # "copying", n \in View(p).wait
    PROVE  BeingInvalidated(n)
<1> DEFINE w == latch[p].x
<1>1. w \in Worker /\ Claims(w) /\ View(p) = ClaimView(w)
  BY DEF View, OwnerView, FrameView, CopyOf, NoCopy
<1> HIDE DEF w
<1>2. ClaimView(w).status # "copying" /\ n \in ClaimView(w).wait
  BY <1>1
<1>3. CASE worker[w].pc = "request"
  <2>1. RequestView(w).status # "copying" /\ n \in RequestView(w).wait
    BY <1>2, <1>3 DEF ClaimView
  <2>2. Answered(w, Owner) /\ n \in mail[w][Owner].conflict
        /\ GrantStatus(mail[w][Owner].resultType) # "copying"
    BY <2>1 DEF RequestView, CopyOf, NoCopy
  <2> QED
    BY <1>1, <2>2 DEF BeingInvalidated, GrantStatus
<1>4. CASE worker[w].pc = "update"
  <2>1. n \in UpdateView(w).wait
    BY <1>2, <1>4 DEF ClaimView
  <2>2. /\ Answered(w, Owner) /\ n \in mail[w][Owner].conflict
        /\ mail[w][Owner].resultType # "UpdateFailed"
    BY <2>1 DEF UpdateView, CopyOf
  <2>3. mail[w][Owner].resultType # "NoPageEvicted"
    BY <1>1, <1>4, <2>2 DEF SafetyInv, Control, Mailboxes, Mailbox, UpdateMail, Asked, Answered
  <2> QED
    BY <1>1, <2>2, <2>3 DEF BeingInvalidated
<1>5. CASE worker[w].pc = "move"
  <2>1. n \in worker[w].peers \cup AskedFor(w)
    BY <1>2, <1>5 DEF ClaimView, MoveView, CopyOf
  <2> QED
    BY <1>1, <1>5, <2>1 DEF BeingInvalidated, AskedFor
<1>6. CASE worker[w].pc = "invalidate"
  <2>1. n \in AskedFor(w)
    BY <1>2, <1>6 DEF ClaimView, InvalidateView, CopyOf
  <2> QED
    BY <1>1, <2>1 DEF BeingInvalidated, AskedFor
<1>7. CASE worker[w].pc = "copy"
  <2>1. CopyView(w).status # "copying" /\ n \in CopyView(w).wait
    BY <1>2, <1>7 DEF ClaimView
  <2> QED
    BY <2>1 DEF CopyView, CopyOf
<1> QED
  BY <1>1, <1>3, <1>4, <1>5, <1>6, <1>7 DEF Claims

(* A frame with the page, not handed over yet, stands for a copy. *)
LEMMA HotFrameIsCopy ==
    ASSUME SafetyInv, PageExists, NEW n \in Node, n # Owner, frame[n].state = "HOT",
           latch[n].x # MessageHandler, provider[n] # "accepted"
    PROVE  /\ View(n).status = "page"
           /\ View(n).epoch = frame[n].pVersion \/ Upgrading(n)
           /\ frame[n].possession = "EXCLUSIVE" => View(n).mode = "EXCLUSIVE"
<1>1. Latches /\ Mailboxes
  BY DEF SafetyInv, Control
<1>2. CASE latch[n].x \in Worker /\ Claims(latch[n].x)
  <2> DEFINE w == latch[n].x
  <2>1. /\ w \in Worker /\ Claims(w) /\ View(n) = ClaimView(w)
        /\ NodeOf[w] = n
    BY <1>1, <1>2 DEF View, Latches
  <2> HIDE DEF w
  <2>2. Mailbox(w)
    BY <1>1, <2>1 DEF Mailboxes
  <2>3. worker[w].pc \in {"update", "invalidate"} /\ frame[n].possession = "SHARED"
    BY <2>1, <2>2 DEF Mailbox, Claims, RequestMail, MoveMail, CopyMail, UpdateMail, InvalidateMail
  <2>4. CASE worker[w].pc = "update"
    BY <2>1, <2>3, <2>4 DEF Upgrading, ClaimView, UpdateView, CopyOf
  <2>5. CASE worker[w].pc = "invalidate"
    BY <2>1, <2>3, <2>5 DEF ClaimView, InvalidateView, CopyOf
  <2> QED
    BY <2>3, <2>4, <2>5
<1>3. CASE ~(latch[n].x \in Worker /\ Claims(latch[n].x))
  <2>1. View(n) = CopyOf("page", frame[n].pVersion, frame[n].possession, {})
    BY <1>3 DEF View, FrameView
  <2> QED
    BY <2>1 DEF CopyOf
<1> QED
  BY <1>2, <1>3

(* A copy of the current epoch is in the directory; an older one is waited *)
(* for, so somebody asks for it.                                           *)
LEMMA DirectoryIsComplete == SafetyInv => DirectoryKnowsCopies
<1> SUFFICES ASSUME SafetyInv, NEW n \in Node, n # Owner,
                    frame[n].state = "HOT", latch[n].x # MessageHandler,
                    provider[n] \notin {"reading", "accepted"}, PageExists,
                    ~BeingInvalidated(n)
             PROVE  /\ n \in frame[Owner].possessors
                    /\ frame[n].possession = "EXCLUSIVE"
                          => frame[Owner].possession = "EXCLUSIVE"
                    /\ frame[n].pVersion = frame[Owner].pVersion \/ Upgrading(n)
  BY DEF DirectoryKnowsCopies
<1>1. /\ View(n).status = "page"
      /\ View(n).epoch = frame[n].pVersion \/ Upgrading(n)
      /\ frame[n].possession = "EXCLUSIVE" => View(n).mode = "EXCLUSIVE"
  BY HotFrameIsCopy
<1>2. Has(n) /\ E!EpochInv
  BY <1>1 DEF Has, SafetyInv
<1>3. View(n).epoch \in Nat /\ DirView.epoch \in Nat /\ View(n).epoch <= DirView.epoch
  BY <1>2, EpochFacts
<1>4. ~(View(n).epoch < DirView.epoch)
  <2> SUFFICES ASSUME View(n).epoch < DirView.epoch PROVE FALSE
    OBVIOUS
  <2>1. PICK p \in Node : /\ Has(p) /\ View(p).status # "copying"
                          /\ View(p).epoch = View(n).epoch + 1
    BY <1>2, EpochFacts
  <2>2. n \in View(p).wait
    BY <1>2, <2>1, EpochFacts
  <2> QED
    BY <2>1, <2>2, WaitedIsAsked
<1>5. View(n).epoch = DirView.epoch
  BY <1>3, <1>4
<1>6. n \in DirView.nodes /\ View(n).mode = DirView.mode
  BY <1>2, <1>5, EpochFacts
<1>7. DirView.epoch = frame[Owner].pVersion
  BY DEF DirView, DirOf
<1>8. /\ n \in frame[Owner].possessors
      /\ DirView.mode = frame[Owner].possession
  BY <1>6 DEF DirView, DirOf, Reading
<1> QED
  BY <1>1, <1>5, <1>6, <1>7, <1>8

(* SingleWriter: an exclusive guard returned by fix or newPage excludes    *)
(* every other guard on every node, whatever requests, retries, evictions  *)
(* and failed copies are under way.                                        *)
THEOREM OneWriter == Spec => []SingleWriter
BY SafetyInvariant, WriterIsAlone, PTL

(* GuardSeesLastWrite: whoever has a guard reads what was written last.    *)
(* The page reached the node through the owner's answer, a move, a copy or *)
(* an eviction read, and none of them can deliver an older one.            *)
THEOREM GuardsSeeTheLastWrite == Spec => []GuardSeesLastWrite
<1>1. SafetyInv => GuardSeesLastWrite
  BY GuardIsCopy DEF GuardSeesLastWrite, SafetyInv, PagesAreFresh
<1> QED
  BY <1>1, SafetyInvariant, PTL

(* LastCopySurvives: at every moment some frame holds the last contents.   *)
(* Handing over, invalidating, copying and evicting never drop the only    *)
(* up-to-date copy.                                                        *)
THEOREM TheLastCopyIsKept == Spec => []LastCopySurvives
BY SafetyInvariant, SomeCopySurvives, PTL

(* DirectoryKnowsCopies: a node with a valid copy is among the possessors  *)
(* in the owner's frame, alone if exclusive, unless an invalidation is on  *)
(* its way to it.                                                          *)
THEOREM TheDirectoryIsComplete == Spec => []DirectoryKnowsCopies
BY SafetyInvariant, DirectoryIsComplete, PTL

-----------------------------------------------------------------------------
(* The protocol implements PageLock. *)

Guards == [v \in Worker |-> Guard(v)]

(* The guard of a worker, by what the worker does *)
LEMMA GuardOf ==
    ASSUME NEW w \in Worker
    PROVE  /\ worker[w].pc \in {"idle", "alloc"} => Guard(w) = Lock!NoGuard
           /\ worker[w].pc = "use" => Guard(w) = Lock!Held(worker[w].mode)
           /\ worker[w].pc \notin {"idle", "alloc", "use"} =>
                 Guard(w) = Lock!Waiting(worker[w].mode)
BY DEF Guard, Lock!NoGuard, Lock!Held, Lock!Waiting

Elsewhere(w) == \A v \in Worker : v # w => worker'[v] = worker[v]

(* A worker's step changes only its own guard. *)
LEMMA OneGuard ==
    ASSUME NEW w \in Worker, Elsewhere(w)
    PROVE  Guards' = [Guards EXCEPT ![w] = Guard(w)']
<1>1. \A v \in Worker : v # w => Guard(v)' = Guard(v)
  BY DEF Elsewhere, Guard
<1> QED
  BY <1>1 DEF Guards

(* The page exists from its creation on. *)
LEMMA PageMode == SafetyInv => (PageExists <=> DirView.mode # "NOBODY")
<1> SUFFICES ASSUME SafetyInv PROVE PageExists <=> DirView.mode # "NOBODY"
  OBVIOUS
<1>1. TypeOK /\ OwnerFrame
  BY DEF SafetyInv, Control
<1>2. PageExists => frame[Owner].possession # "NOBODY"
  BY <1>1 DEF OwnerFrame
<1>3. \A v \in Worker : worker[v].mode # "NOBODY"
  BY <1>1, WorkerType DEF MODE
<1> QED
  BY <1>2, <1>3 DEF DirView, DirOf

(* The same of the next state *)
LEMMA NextState ==
    /\ SafetyInv' => SingleWriter'
    /\ SafetyInv' => (PageExists' <=> DirView'.mode # "NOBODY")
<1>1. (SafetyInv => (PageExists <=> DirView.mode # "NOBODY"))'
  BY PageMode, PTL
<1>2. (SafetyInv => SingleWriter)'
  BY WriterIsAlone, PTL
<1> QED
  BY <1>1, <1>2

(* ... and never vanishes. *)
LEMMA PageStays ==
    ASSUME SafetyInv, SafetyInv', [E!Next]_(E!vars), PageExists
    PROVE  PageExists'
<1>1. DirView.mode # "NOBODY" /\ (PageExists' <=> DirView'.mode # "NOBODY")
  BY PageMode, NextState
<1>2. CASE UNCHANGED E!vars
  BY <1>1, <1>2 DEF E!vars
<1>3. CASE E!Next
  <2>1. DirView \in E!Dir
    BY DEF SafetyInv, E!EpochInv, E!TypeOK
  <2>2. DirView'.mode # "NOBODY"
    <3>1. CASE \E n \in Node, mode \in E!MODE : E!NewEpoch(n, mode)
      BY <3>1 DEF E!NewEpoch, E!MODE
    <3>2. CASE \E n \in Node : \/ E!Create(n) \/ E!ShareOwner(n)
                              \/ E!Join(n) \/ E!JoinCopying(n) \/ E!StopCopying(n)
                              \/ E!Leave(n) \/ E!TakeBack(n)
      BY <1>1, <2>1, <3>2 DEF E!Create, E!ShareOwner, E!Join, E!JoinCopying,
         E!StopCopying, E!Leave, E!TakeBack, E!Dir
    <3>3. CASE \E n, m \in Node : E!Copied(n, m) \/ E!GiveUp(m, n)
      BY <1>1, <3>3 DEF E!Copied, E!GiveUp
    <3>4. CASE E!OwnerLeaves
      BY <1>1, <2>1, <3>4 DEF E!OwnerLeaves, E!Dir
    <3> QED
      BY <1>3, <3>1, <3>2, <3>3, <3>4 DEF E!Next
  <2> QED
    BY <1>1, <2>2
<1> QED
  BY <1>2, <1>3

(* The steps of the lock *)
LEMMA WaitStep ==
    ASSUME SafetyInv, SafetyInv', NEW w \in Worker, Elsewhere(w),
           worker[w].pc \notin {"idle", "alloc", "use"},
           worker'[w].pc \notin {"idle", "alloc", "use"},
           worker'[w].mode = worker[w].mode
    PROVE  UNCHANGED Lock!vars
<1>1. Guard(w) = Lock!Waiting(worker[w].mode) /\ Guard(w)' = Lock!Waiting(worker[w].mode)
  BY GuardOf DEF Guard, Lock!Waiting
<1>2. Guards' = Guards
  BY <1>1, OneGuard DEF Guards
<1>3. PageExists /\ PageExists'
  BY PageIsThere DEF SafetyInv, Control, Allocation
<1> QED
  BY <1>2, <1>3 DEF Lock!vars, Guards

(* fix returns: the lock is granted, because the guards after the step do  *)
(* not conflict.                                                           *)
LEMMA GrantStep ==
    ASSUME SafetyInv, SafetyInv', NEW w \in Worker, Elsewhere(w),
           worker[w].pc \notin {"idle", "alloc", "use"},
           worker'[w].pc = "use", worker'[w].mode = worker[w].mode
    PROVE  Lock!Next
<1>1. Guard(w) = Lock!Waiting(worker[w].mode) /\ Guard(w)' = Lock!Held(worker[w].mode)
  BY GuardOf DEF Guard, Lock!Held
<1>2. Guards' = [Guards EXCEPT ![w] = Lock!Held(worker[w].mode)]
  BY <1>1, OneGuard
<1>3. PageExists /\ PageExists'
  BY PageIsThere DEF SafetyInv, Control, Allocation
<1>4. worker[w].mode \in Lock!MODE
  BY WorkerType DEF SafetyInv, MODE, Lock!MODE
<1>5. ASSUME NEW v \in Worker, v # w
      PROVE  Lock!Compatible(worker[w].mode, Guards[v])
  <2>1. worker'[v] = worker[v]
    BY <1>5 DEF Elsewhere
  <2>2. worker[v].mode \in {"EXCLUSIVE", "SHARED"} /\ worker[w].mode \in {"EXCLUSIVE", "SHARED"}
    BY WorkerType DEF SafetyInv, MODE
  <2>3. SingleWriter'
    BY NextState
  <2>4. worker[v].pc = "use" => worker[v].mode = "SHARED" /\ worker[w].mode = "SHARED"
    BY <1>5, <2>1, <2>2, <2>3 DEF SingleWriter, Holds
  <2>5. CASE worker[v].pc = "use"
    BY <2>4, <2>5, GuardOf DEF Lock!Compatible, Lock!Held, Guards
  <2>6. CASE worker[v].pc # "use"
    <3>1. Guard(v).status # "held"
      BY <2>6, GuardOf DEF Lock!NoGuard, Lock!Waiting
    <3> QED
      BY <3>1 DEF Lock!Compatible, Guards
  <2> QED
    BY <2>5, <2>6
<1>6. Guards[w] = Lock!Waiting(worker[w].mode)
  BY <1>1 DEF Guards
<1>7. Lock!Grant(w)
  <2>1. PageExists' = PageExists
    BY <1>3
  <2> QED
    BY <1>2, <1>4, <1>5, <1>6, <2>1 DEF Lock!Grant, Guards
<1> QED
  BY <1>7 DEF Lock!Next

(* A guard is released. *)
LEMMA ReleaseStep ==
    ASSUME SafetyInv, SafetyInv', [E!Next]_(E!vars), NEW w \in Worker, Elsewhere(w),
           worker[w].pc = "use", worker'[w].pc = "idle"
    PROVE  Lock!Next
<1>1. Guard(w) = Lock!Held(worker[w].mode) /\ Guard(w)' = Lock!NoGuard
  BY GuardOf DEF Guard, Lock!NoGuard
<1>2. Guards' = [Guards EXCEPT ![w] = Lock!NoGuard]
  BY <1>1, OneGuard
<1>3. PageExists /\ PageExists'
  BY PageIsThere, PageStays DEF SafetyInv, Control
<1>4. worker[w].mode \in Lock!MODE
  BY WorkerType DEF SafetyInv, MODE, Lock!MODE
<1>5. Guards[w] \in {Lock!Held(mode) : mode \in Lock!MODE}
  BY <1>1, <1>4 DEF Guards
<1>6. PageExists' = PageExists
  BY <1>3
<1>7. Lock!Release(w)
  BY <1>2, <1>5, <1>6 DEF Lock!Release, Guards
<1> QED
  BY <1>7 DEF Lock!Next

(* A worker asks for the lock. *)
LEMMA AskStep ==
    ASSUME SafetyInv, SafetyInv', NEW w \in Worker, Elsewhere(w),
           PageExists, worker[w].pc = "idle", worker'[w].pc = "fix"
    PROVE  Lock!Next
<1>1. Guard(w) = Lock!NoGuard /\ Guard(w)' = Lock!Waiting(worker'[w].mode)
  BY GuardOf DEF Guard, Lock!Waiting
<1>2. Guards' = [Guards EXCEPT ![w] = Lock!Waiting(worker'[w].mode)]
  BY <1>1, OneGuard
<1>3. PageExists'
  BY DEF SafetyInv, Control, Allocation
<1>4. worker'[w].mode \in Lock!MODE
  BY DEF SafetyInv, TypeOK, WorkerState, MODE, Lock!MODE
<1>5. Guards[w] = Lock!NoGuard
  BY <1>1 DEF Guards
<1>6. PageExists' = PageExists
  BY <1>3
<1>7. Lock!Ask(w)
  BY <1>2, <1>4, <1>5, <1>6 DEF Lock!Ask, Guards
<1> QED
  BY <1>7 DEF Lock!Next

(* A worker creates the page and has it exclusively. *)
LEMMA CreateStep ==
    ASSUME SafetyInv, SafetyInv', NEW w \in Worker, Elsewhere(w),
           ~PageExists, worker[w].pc \in {"idle", "alloc"},
           worker'[w].pc = "use", worker'[w].mode = "EXCLUSIVE"
    PROVE  Lock!Next
<1>1. Guard(w) = Lock!NoGuard /\ Guard(w)' = Lock!Held("EXCLUSIVE")
  BY GuardOf DEF Guard, Lock!Held
<1>2. Guards' = [Guards EXCEPT ![w] = Lock!Held("EXCLUSIVE")]
  BY <1>1, OneGuard
<1>3. PageExists'
  BY DEF SafetyInv, Control, Allocation
<1>4. Guards[w] = Lock!NoGuard
  BY <1>1 DEF Guards
<1>5. PageExists' = TRUE
  BY <1>3
<1>6. Lock!Create(w)
  BY <1>2, <1>4, <1>5 DEF Lock!Create, Guards
<1> QED
  BY <1>6 DEF Lock!Next

LockStep == Lock!Next \/ UNCHANGED Lock!vars

(* A step of a handler or a page provider is no step of the lock. *)
LEMMA QuietStep ==
    ASSUME SafetyInv, SafetyInv', [E!Next]_(E!vars), worker' = worker,
           frame[Owner].state # "FREE" \/ (\E v \in Worker : worker[v].pc = "alloc")
              \/ frame'[Owner].state = frame[Owner].state
    PROVE  LockStep
<1>1. PageExists' <=> PageExists
  <2>1. CASE PageExists
    BY <2>1, PageStays
  <2>2. CASE ~PageExists
    BY <2>2 DEF PageExists
  <2> QED
    BY <2>1, <2>2
<1>2. PageExists' = PageExists
  BY <1>1
<1>3. Guards' = Guards
  BY DEF Guards, Guard
<1> QED
  BY <1>2, <1>3 DEF LockStep, Lock!vars, Guards

(* A step of fix goes on waiting, or returns the guard. *)
FixStep(w) ==
    /\ Elsewhere(w) /\ worker'[w].mode = worker[w].mode
    /\ worker[w].pc \notin {"idle", "alloc", "use"}
    /\ worker'[w].pc \notin {"idle", "alloc"}

(* Both are steps of the lock, or none. *)
LEMMA FixSteps ==
    ASSUME SafetyInv, SafetyInv', NEW w \in Worker, FixStep(w)
    PROVE  LockStep
BY WaitStep, GrantStep DEF FixStep, LockStep

(* A worker with mail is past the creation of the page, or about to create *)
(* it.                                                                     *)
LEMMA AsksWithoutGuard ==
    ASSUME SafetyInv, NEW w \in Worker, NEW n \in Node, mail[w][n] # Nothing
    PROVE  frame[Owner].state # "FREE" \/ worker[w].pc = "alloc"
<1>1. worker[w].pc \notin {"idle", "fix", "use", "downgrade"}
  BY DEF SafetyInv, Control, Mailboxes, Mailbox
<1>2. worker[w].pc # "alloc" => PageExists
  BY <1>1, PageIsThere DEF SafetyInv, Control
<1> QED
  BY <1>2 DEF PageExists

(* The steps of the workers *)
LEMMA WorkerLockStep ==
    ASSUME SafetyInv, SafetyInv', [E!Next]_(E!vars), NEW w \in Worker,
           Begin(w) \/ NewPage(w) \/ NewRemotePage(w) \/ WorkerStep(w)
    PROVE  LockStep
<1>0. /\ TypeOK /\ Allocation /\ worker \in [Worker -> WorkerState]
      /\ worker[w].mode \in MODE /\ worker[w] \in WorkerState
  BY WorkerType DEF SafetyInv, Control, TypeOK
<1> USE DEF WorkerState
<1>1. CASE Begin(w)
  <2>1. PageExists /\ worker[w].pc = "idle"
    BY <1>1 DEF Begin
  <2>2. PICK mode \in MODE : worker' = [worker EXCEPT ![w].pc = "fix", ![w].mode = mode]
    BY <1>1 DEF Begin
  <2>3. Elsewhere(w) /\ worker'[w].pc = "fix"
    BY <1>0, <2>2 DEF Elsewhere
  <2> QED
    BY <2>1, <2>3, AskStep DEF LockStep
<1>2. CASE NewPage(w)
  <2>1. /\ Elsewhere(w) /\ ~PageExists /\ worker[w].pc = "idle"
        /\ worker'[w].pc = "use" /\ worker'[w].mode = "EXCLUSIVE"
    BY <1>0, <1>2 DEF NewPage, Elsewhere, PageExists
  <2> QED
    BY <2>1, CreateStep DEF LockStep
<1>3. CASE NewRemotePage(w)
  <2>1. /\ Elsewhere(w) /\ ~PageExists /\ ~PageExists' /\ worker[w].pc = "idle"
        /\ worker'[w].pc = "alloc"
    BY <1>0, <1>3 DEF NewRemotePage, Elsewhere, PageExists
  <2>2. Guard(w) = Lock!NoGuard /\ Guard(w)' = Lock!NoGuard
    BY <2>1 DEF Guard, Lock!NoGuard
  <2>3. Guards' = Guards
    BY <2>1, <2>2, OneGuard DEF Guards
  <2>4. PageExists' <=> PageExists
    BY <2>1
  <2>5. PageExists' = PageExists
    BY <2>4
  <2> QED
    BY <2>3, <2>5 DEF LockStep, Lock!vars, Guards
<1>4. CASE CollectAllocation(w)
  <2>1. Mailbox(w) /\ worker[w].pc = "alloc" /\ ~PageExists
    BY <1>4 DEF SafetyInv, Control, Mailboxes, CollectAllocation, PageExists
  <2>2. worker[w].mode = "EXCLUSIVE"
    BY <2>1 DEF Mailbox, AllocMail
  <2>3. Elsewhere(w) /\ worker'[w].pc = "use" /\ worker'[w].mode = "EXCLUSIVE"
    BY <1>0, <1>4, <2>2 DEF CollectAllocation, Elsewhere
  <2> QED
    BY <2>1, <2>3, CreateStep DEF LockStep
<1>5. CASE Release(w)
  <2>1. Elsewhere(w) /\ worker[w].pc = "use" /\ worker'[w].pc = "idle"
    BY <1>0, <1>5 DEF Release, Elsewhere, Resting
  <2> QED
    BY <2>1, ReleaseStep DEF LockStep
<1>6. ASSUME NEW v, Possess(w, v), worker[w].pc \notin {"idle", "alloc", "use"}
      PROVE  FixStep(w)
  BY <1>0, <1>6 DEF Possess, FixStep, Elsewhere
<1>7. CASE FixHit(w) \/ FixInsert(w) \/ FixUpgrade(w) \/ Downgrade(w)
  <2>1. FixStep(w)
    BY <1>0, <1>7 DEF FixHit, FixInsert, FixUpgrade, Insufficient, Downgrade, FixStep, Elsewhere
  <2> QED
    BY <2>1, FixSteps
<1>8. CASE FixLocalChange(w)
  <2>1. FixStep(w)
    BY <1>0, <1>8 DEF FixLocalChange, Insufficient, MovePageRnd, InvalidateSharedConflicts,
       CopyPageRnd,
       FixStep, Elsewhere
  <2> QED
    BY <2>1, FixSteps
<1>9. CASE CollectPossession(w)
  <2>1. FixStep(w)
    <3>1. CASE mail[w][Owner].resultType = "WithPage"
      BY <1>6, <1>9, <3>1 DEF CollectPossession
    <3>2. CASE mail[w][Owner].resultType # "WithPage"
      BY <1>0, <1>9, <3>2 DEF CollectPossession, InvalidateSharedConflicts, CopyPageRnd,
         FixStep, Elsewhere
    <3> QED
      BY <3>1, <3>2
  <2> QED
    BY <2>1, FixSteps
<1>10. CASE CollectMove(w)
  <2>1. FixStep(w)
    BY <1>0, <1>10 DEF CollectMove, InvalidateSharedConflicts, FixStep, Elsewhere
  <2> QED
    BY <2>1, FixSteps
<1>11. CASE CollectInvalidations(w)
  <2>1. FixStep(w)
    BY <1>6, <1>11 DEF CollectInvalidations
  <2> QED
    BY <2>1, FixSteps
<1>12. CASE CollectCopy(w)
  <2>1. worker[w].pc = "copy"
    BY <1>12 DEF CollectCopy
  <2>2. PICK src \in Node :
          \/ Possess(w, frame[NodeOf[w]].pVersion)
          \/ worker' = [worker EXCEPT ![w].pc = "fix", ![w].peers = {}]
          \/ CopyPageRnd(w, worker[w].peers, frame[NodeOf[w]].pVersion)
    BY <1>12 DEF CollectCopy
  <2>3. FixStep(w)
    BY <1>0, <1>6, <2>1, <2>2 DEF CopyPageRnd, FixStep, Elsewhere
  <2> QED
    BY <2>3, FixSteps
<1>13. CASE CollectUpdate(w)
  <2>1. FixStep(w)
    BY <1>0, <1>13 DEF CollectUpdate, InvalidateSharedConflicts, FixStep, Elsewhere
  <2> QED
    BY <2>1, FixSteps
<1> QED
  BY <1>1, <1>2, <1>3, <1>4, <1>5, <1>7, <1>8, <1>9, <1>10, <1>11, <1>12, <1>13 DEF WorkerStep

(* The steps of the message handlers *)
LEMMA HandlerLockStep ==
    ASSUME SafetyInv, SafetyInv', [E!Next]_(E!vars), NEW w \in Worker, NEW n \in Node,
           OwnerHandlerStep(w) \/ HandlerStep(w, n)
    PROVE  LockStep
<1>1. worker' = worker /\ (mail[w][Owner] # Nothing \/ mail[w][n] # Nothing)
  <2>1. CASE OwnerHandlerStep(w)
    BY <2>1 DEF OwnerHandlerStep, HandleRAR, RetryPossessionRequest, HandlePRS, HandlePRX,
       RetryPUR, RejectPUR, AcceptPUR, Asked
  <2>2. CASE HandlerStep(w, n)
    BY <2>2 DEF HandlerStep, RetryPMR, HandlePMR, RetryPCR, RejectPCR, AcceptPCR,
       ReadyToCopy, Asked
  <2> QED
    BY <2>1, <2>2
<1>2. frame[Owner].state # "FREE" \/ worker[w].pc = "alloc"
  BY <1>1, AsksWithoutGuard
<1> QED
  BY <1>1, <1>2, QuietStep

(* The steps of the page providers *)
LEMMA ProviderLockStep ==
    ASSUME SafetyInv, SafetyInv', [E!Next]_(E!vars), NEW n \in Node,
           RemoveFrame(n) \/ RequestEviction(n) \/ ProviderStep(n) \/ EvictOwnerPage
    PROVE  LockStep
<1>1. worker' = worker
  BY DEF RemoveFrame, RequestEviction, ProviderStep, AcceptEviction, RejectEviction,
     CompleteRead, CollectEviction, EvictOwnerPage
<1>2. frame[Owner].state # "FREE" \/ (\E v \in Worker : worker[v].pc = "alloc")
  <2> SUFFICES ASSUME ~PageExists PROVE FALSE
    BY DEF PageExists
  <2>1. Allocation
    BY DEF SafetyInv, Control
  <2>0. /\ latch[n].x = NoOne /\ provider[n] = "idle"
        /\ n # Owner => frame[n] = EmptyFrame
    BY <2>1 DEF Allocation
  <2>2. /\ latch[n].x = NoOne /\ provider[n] = "idle"
        /\ n # Owner => frame[n].state = "FREE"
    BY <2>0 DEF EmptyFrame
  <2>3. frame[Owner].state # "HOT"
    <3>1. CASE frame[Owner].state = "FREE"
      BY <3>1
    <3>2. CASE frame[Owner].state # "FREE"
      <4>1. PICK v \in Worker : worker[v].pc = "alloc"
        BY <3>2 DEF PageExists
      <4> QED
        BY <2>1, <3>2, <4>1 DEF Allocation, EmptyFrame
    <3> QED
      BY <3>1, <3>2
  <2> QED
    BY <2>2, <2>3 DEF RemoveFrame, RequestEviction, ProviderStep, AcceptEviction, RejectEviction,
       CompleteRead, CollectEviction, EvictOwnerPage
<1> QED
  BY <1>1, <1>2, QuietStep

(* Every step is a step of the lock, or none. *)
LEMMA LockSteps == SafetyInv /\ SafetyInv' /\ [E!Next]_(E!vars) /\ [Next]_vars => [Lock!Next]_(Lock!vars)
<1> SUFFICES ASSUME SafetyInv, SafetyInv', [E!Next]_(E!vars), [Next]_vars PROVE LockStep
  BY DEF LockStep
<1>1. CASE UNCHANGED vars \/ Stop
  <2>1. worker' = worker /\ frame' = frame
    BY <1>1 DEF Stop, vars
  <2> QED
    BY <2>1, QuietStep
<1>2. CASE \E w \in Worker : Begin(w) \/ NewPage(w) \/ NewRemotePage(w) \/ WorkerStep(w)
  BY <1>2, WorkerLockStep
<1>3. CASE \E w \in Worker : OwnerHandlerStep(w)
  BY <1>3, HandlerLockStep
<1>4. CASE \E w \in Worker, n \in Node : HandlerStep(w, n)
  BY <1>4, HandlerLockStep
<1>5. CASE \E n \in Node : RemoveFrame(n) \/ RequestEviction(n) \/ ProviderStep(n)
  BY <1>5, ProviderLockStep
<1>6. CASE EvictOwnerPage
  BY <1>6, ProviderLockStep
<1> QED
  BY <1>1, <1>2, <1>3, <1>4, <1>5, <1>6 DEF Next

(* ImplementsPageLock: seen through the guards, the protocol is one        *)
(* reader-writer lock for the whole cluster (module PageLock).             *)
THEOREM ImplementsLock == Spec => ImplementsPageLock
<1>1. Init => Lock!Init
  <2> SUFFICES ASSUME Init PROVE Lock!Init
    OBVIOUS
  <2>1. /\ frame[Owner].state = "FREE"
        /\ \A w \in Worker : worker[w].pc = "idle"
    BY DEF Init, EmptyFrame, Resting
  <2>2. PageExists = FALSE
    BY <2>1 DEF PageExists
  <2>3. Guards = [w \in Worker |-> Lock!NoGuard]
    BY <2>1, GuardOf DEF Guards
  <2> QED
    BY <2>2, <2>3 DEF Lock!Init, Guards
<1> QED
  BY <1>1, SafetyInvariant, SafetyStep, LockSteps, PTL DEF Spec, Lock!Spec, ImplementsPageLock

-----------------------------------------------------------------------------
(* The ensure() checks *)

(* The directory always has a member. *)
LEMMA DirectoryHasMember ==
    ASSUME SafetyInv, PageExists
    PROVE  DirView.nodes # {}
<1>1. E!EpochInv /\ DirView.mode # "NOBODY"
  BY PageMode DEF SafetyInv
<1>2. PICK k \in Node : View(k).status = "page"
  BY <1>1, EpochFacts
<1>3. Has(k)
  BY <1>2 DEF Has
<1>4. E!CurrentLed
  BY <1>1 DEF E!EpochInv
<1>5. View(k).epoch < DirView.epoch =>
        \E p \in Node : Has(p) /\ View(p).epoch = DirView.epoch
  BY <1>3, <1>4 DEF E!CurrentLed, E!In, E!Leads, E!Epoch, Copies, Has
<1>6. View(k).epoch \in Nat /\ DirView.epoch \in Nat /\ View(k).epoch <= DirView.epoch
  BY <1>1, <1>3, EpochFacts
<1>7. \E p \in Node : Has(p) /\ View(p).epoch = DirView.epoch
  BY <1>3, <1>5, <1>6
<1> QED
  BY <1>1, <1>7, EpochFacts

(* The directory while the owner's latch is free *)
LEMMA OpenDirectory ==
    ASSUME SafetyInv, PageExists, latch[Owner].x = NoOne
    PROVE  LET f == frame[Owner] IN
           /\ f.possession \in MODE /\ f.possessors # {}
           /\ DirView.epoch = f.pVersion /\ DirView.mode = f.possession
           /\ DirView.nodes = f.possessors
           /\ f.state = IF Owner \in f.possessors THEN "HOT" ELSE "EVICTED"
           /\ f.possession = "EXCLUSIVE" =>
                 \A k, m \in Node : k \in f.possessors /\ m \in f.possessors => k = m
           /\ f.possessors \subseteq Node
<1>1. TypeOK /\ Latches /\ Providers /\ OwnerFrame /\ E!EpochInv
  BY DEF SafetyInv, Control
<1>2. /\ DirView = DirOf(frame[Owner].possession, frame[Owner].possessors)
      /\ frame[Owner].possession \in MODE
      /\ frame[Owner].state = IF Owner \in frame[Owner].possessors
            THEN "HOT" ELSE "EVICTED"
  BY <1>1, FreeDirectory
<1>3. /\ DirView.epoch = frame[Owner].pVersion /\ DirView.mode = frame[Owner].possession
      /\ DirView.nodes = frame[Owner].possessors
  BY <1>2 DEF DirOf
<1>4. frame[Owner].possessors # {}
  BY <1>3, DirectoryHasMember
<1>5. DirView.nodes = {k \in Node : Has(k) /\ View(k).epoch = DirView.epoch}
  BY <1>1, EpochFacts
<1>6. ASSUME frame[Owner].possession = "EXCLUSIVE", NEW k \in Node, NEW m \in Node,
             k \in frame[Owner].possessors, m \in frame[Owner].possessors
      PROVE  k = m
  <2>1. Has(k) /\ Has(m) /\ View(k).epoch = DirView.epoch /\ View(m).epoch = DirView.epoch
    BY <1>3, <1>5, <1>6
  <2>2. View(k).mode = "EXCLUSIVE"
    BY <1>1, <1>3, <1>6, <2>1, EpochFacts
  <2> QED
    BY <1>1, <2>1, <2>2, EpochFacts
<1> QED
  BY <1>2, <1>3, <1>4, <1>5, <1>6

(* The ensure()s of the owner's message handler: the directory describes   *)
(* the epoch, and who asks has no copy.                                    *)
LEMMA OwnerHandlersHold == SafetyInv => OwnerHandlerEnsures
<1> DEFINE f == frame[Owner]
           others == f.possessors \ {Owner}
<1> SUFFICES ASSUME SafetyInv, CanLatchExclusive(Owner), NEW w \in Worker
    PROVE
        /\ Asked(w, Owner, "PRS") =>
             /\ ~(f.possession = "SHARED" /\ NodeOf[w] \in f.possessors)
             /\ f.possession = "EXCLUSIVE"
                    => (f.state = "HOT" <=> f.possessors = {Owner})
             /\ f.possession = "SHARED" /\ f.state = "EVICTED"
                    => Owner \notin f.possessors /\ f.possessors # {}
             /\ f.state \in {"HOT", "EVICTED"}
        /\ Asked(w, Owner, "PRX") =>
             /\ ~(f.possession = "EXCLUSIVE" /\ NodeOf[w] \in f.possessors)
             /\ f.state = "HOT" \/ (f.state = "EVICTED" /\ others # {})
             /\ f.possession = "EXCLUSIVE" /\ others # {} => f.state = "EVICTED"
        /\ Asked(w, Owner, "PUR") =>
             /\ f.pVersion >= mail[w][Owner].pVersion
             /\ f.pVersion = mail[w][Owner].pVersion
                    => f.possession = "SHARED" /\ NodeOf[w] \in f.possessors
  BY DEF OwnerHandlerEnsures
<1> DEFINE n == NodeOf[w]
<1>0. n = NodeOf[w] /\ n \in Node /\ f = frame[Owner] /\ others = f.possessors \ {Owner}
  OBVIOUS
<1> HIDE DEF n, f, others
<1>1. /\ TypeOK /\ Latches /\ Mailboxes /\ Allocation /\ E!EpochInv
      /\ latch[Owner].x = NoOne
  BY DEF SafetyInv, Control, CanLatchExclusive, Unlatched
<1>2. ASSUME PageExists
      PROVE  /\ f.possession \in MODE /\ f.possessors # {}
             /\ DirView.epoch = f.pVersion /\ DirView.mode = f.possession
             /\ DirView.nodes = f.possessors
             /\ f.state = IF Owner \in f.possessors THEN "HOT" ELSE "EVICTED"
             /\ f.possession = "EXCLUSIVE" =>
                   \A k, m \in Node : k \in f.possessors /\ m \in f.possessors => k = m
             /\ f.possessors \subseteq Node
  BY <1>0, <1>1, <1>2, OpenDirectory
<1>3. ASSUME Asked(w, Owner, "PRS") \/ Asked(w, Owner, "PRX")
      PROVE  PageExists /\ n \notin f.possessors
  <2>1. worker[w].pc = "request" /\ ~Answered(w, Owner)
    BY <1>1, <1>3, WhoAsks DEF Asked, Answered
  <2>2. PageExists /\ Claims(w)
    BY <1>1, <2>1, PageIsThere DEF Claims
  <2>3. View(n) = NoCopy
    BY <1>0, <1>1, <2>1, <2>2, ClaimIsView DEF ClaimView, RequestView
  <2>4. ~Has(n)
    BY <2>3 DEF Has, NoCopy, CopyOf
  <2>5. n \notin DirView.nodes
    BY <1>0, <1>1, <2>4, EpochFacts
  <2> QED
    BY <1>2, <2>2, <2>5
<1>4. ASSUME PageExists, f.possession = "EXCLUSIVE"
      PROVE  /\ f.state = "HOT" <=> f.possessors = {Owner}
             /\ others # {} => f.state = "EVICTED"
  BY <1>0, <1>2, <1>4
<1>5. ASSUME Asked(w, Owner, "PRS")
      PROVE  /\ ~(f.possession = "SHARED" /\ n \in f.possessors)
             /\ f.possession = "EXCLUSIVE"
                    => (f.state = "HOT" <=> f.possessors = {Owner})
             /\ f.possession = "SHARED" /\ f.state = "EVICTED"
                    => Owner \notin f.possessors /\ f.possessors # {}
             /\ f.state \in {"HOT", "EVICTED"}
  BY <1>2, <1>3, <1>4, <1>5
<1>6. ASSUME Asked(w, Owner, "PRX")
      PROVE  /\ ~(f.possession = "EXCLUSIVE" /\ n \in f.possessors)
             /\ f.state = "HOT" \/ (f.state = "EVICTED" /\ others # {})
             /\ f.possession = "EXCLUSIVE" /\ others # {} => f.state = "EVICTED"
  BY <1>0, <1>2, <1>3, <1>4, <1>6
<1>7. ASSUME Asked(w, Owner, "PUR")
      PROVE  /\ f.pVersion >= mail[w][Owner].pVersion
             /\ f.pVersion = mail[w][Owner].pVersion
                    => f.possession = "SHARED" /\ n \in f.possessors
  <2>1. worker[w].pc = "update" /\ ~Answered(w, Owner)
    BY <1>1, <1>7, WhoAsks DEF Asked, Answered
  <2>2. PageExists /\ Claims(w)
    BY <1>1, <2>1, PageIsThere DEF Claims
  <2>3. mail[w][Owner].pVersion = worker[w].pVersionOld
    BY <1>1, <2>1 DEF Mailboxes, Mailbox, UpdateMail
  <2>4. View(n) = CopyOf("page", worker[w].pVersionOld, "SHARED", {})
    BY <1>0, <1>1, <2>1, <2>2, ClaimIsView DEF ClaimView, UpdateView
  <2>5. /\ Has(n) /\ View(n).epoch = mail[w][Owner].pVersion /\ View(n).mode = "SHARED"
    BY <2>3, <2>4 DEF Has, CopyOf
  <2>6. /\ View(n).epoch <= DirView.epoch /\ View(n).epoch \in Nat /\ DirView.epoch \in Nat
        /\ View(n).epoch = DirView.epoch => n \in DirView.nodes /\ DirView.mode = "SHARED"
    BY <1>0, <1>1, <2>5, EpochFacts
  <2> QED
    BY <1>2, <2>2, <2>5, <2>6
<1> QED
  BY <1>0, <1>5, <1>6, <1>7

(* The ensure()s of the owner's page provider: who evicts a current copy   *)
(* is in the directory.                                                    *)
LEMMA ProvidersHold == SafetyInv => ProviderEnsures
<1> SUFFICES ASSUME SafetyInv, NEW n \in Node, provider[n] = "requested", EvictionQualifies(n)
             PROVE  /\ frame[Owner].state # "FREE"
                    /\ n \in frame[Owner].possessors
                    /\ frame[Owner].possession = "EXCLUSIVE"
                          => frame[Owner].possessors = {n}
  BY DEF ProviderEnsures
<1>1. TypeOK /\ Latches /\ Providers /\ Allocation /\ E!EpochInv
  BY DEF SafetyInv, Control
<1>2. /\ latch[Owner].x = NoOne /\ frame[Owner].pVersion = frame[n].pVersion
  BY DEF EvictionQualifies, CanLatchExclusive, Unlatched
<1>3. n # Owner /\ frame[n].state = "HOT" /\ latch[n].x = PageProvider
  BY <1>1 DEF Providers
<1>4. PageExists
  BY <1>1, <1>3, FrameIsThere
<1>5. View(n) = CopyOf("page", frame[n].pVersion, frame[n].possession, {})
  BY <1>3, <1>4 DEF View, FrameView
<1>6. Has(n) /\ View(n).epoch = frame[Owner].pVersion
  BY <1>2, <1>5 DEF Has, CopyOf
<1>7. /\ DirView.epoch = frame[Owner].pVersion /\ DirView.nodes = frame[Owner].possessors
      /\ frame[Owner].possession = "EXCLUSIVE" => \A k, m \in Node :
            k \in frame[Owner].possessors /\ m \in frame[Owner].possessors => k = m
      /\ frame[Owner].possessors \subseteq Node
  BY <1>2, <1>4, OpenDirectory
<1>8. n \in frame[Owner].possessors
  BY <1>1, <1>6, <1>7, EpochFacts
<1> QED
  BY <1>4, <1>7, <1>8 DEF PageExists

(* The versions that travel: a copy request asks for the version of its     *)
(* requester's frame; an upgrade is granted with the version the sharer    *)
(* has announced in its frame.                                             *)
CopyVersion(v) ==
    \A m \in Node : Asked(v, m, "PCR") =>
        mail[v][m].pVersion = frame[NodeOf[v]].pVersion

UpdateVersion(v) ==
    worker[v].pc = "update" =>
        /\ frame[NodeOf[v]].pVersion = worker[v].pVersionOld + 1
        /\ Answered(v, Owner) /\ mail[v][Owner].resultType # "UpdateFailed" =>
              mail[v][Owner].pVersion = worker[v].pVersionOld + 1

Versions == \A v \in Worker : CopyVersion(v) /\ UpdateVersion(v)

(* Only a worker that copies has a copy request in its mailboxes, *)
LEMMA CopiersAsk ==
    ASSUME NEW v \in Worker
    PROVE  SafetyInv => \A m \in Node : Asked(v, m, "PCR") => worker[v].pc = "copy"
BY WhoAsks DEF SafetyInv, Control

(* after the step as well as before. *)
LEMMA NextCopiersAsk ==
    ASSUME NEW v \in Worker
    PROVE  SafetyInv' => \A m \in Node : Asked(v, m, "PCR")' => worker'[v].pc = "copy"
<1>1. (SafetyInv => \A m \in Node : Asked(v, m, "PCR") => worker[v].pc = "copy")'
  BY CopiersAsk, PTL
<1> QED
  BY <1>1

(* Another actor's step does not change the versions of v's requests ... *)
OldMail(v) ==
    /\ worker'[v] = worker[v]
    /\ \A m \in Node : Asked(v, m, "PCR")' =>
          Asked(v, m, "PCR") /\ mail'[v][m].pVersion = mail[v][m].pVersion
    /\ worker[v].pc = "update" /\ Answered(v, Owner)'
          /\ mail'[v][Owner].resultType # "UpdateFailed" =>
              \/ mail'[v][Owner] = mail[v][Owner]
              \/ mail'[v][Owner].pVersion = worker[v].pVersionOld + 1

(* ... nor that of a frame that v has latched. *)
OldFrame(v) ==
    Claims(v) => frame'[NodeOf[v]].pVersion = frame[NodeOf[v]].pVersion

(* So the versions still agree. *)
LEMMA OldVersions ==
    ASSUME SafetyInv, NEW v \in Worker, CopyVersion(v), UpdateVersion(v),
           OldMail(v), OldFrame(v)
    PROVE  CopyVersion(v)' /\ UpdateVersion(v)'
<1>1. CopyVersion(v)'
  <2> SUFFICES ASSUME NEW m \in Node, Asked(v, m, "PCR")'
               PROVE  mail'[v][m].pVersion = frame'[NodeOf[v]].pVersion
    BY DEF CopyVersion
  <2>1. Asked(v, m, "PCR") /\ mail'[v][m].pVersion = mail[v][m].pVersion
    BY DEF OldMail
  <2>2. worker[v].pc = "copy"
    BY <2>1, CopiersAsk
  <2>3. frame'[NodeOf[v]].pVersion = frame[NodeOf[v]].pVersion
    BY <2>2 DEF OldFrame, Claims
  <2> QED
    BY <2>1, <2>3 DEF CopyVersion
<1>2. UpdateVersion(v)'
  <2> SUFFICES ASSUME worker[v].pc = "update"
               PROVE  /\ frame'[NodeOf[v]].pVersion = worker[v].pVersionOld + 1
                      /\ Answered(v, Owner)' /\ mail'[v][Owner].resultType # "UpdateFailed" =>
                           mail'[v][Owner].pVersion = worker[v].pVersionOld + 1
    BY DEF UpdateVersion, OldMail
  <2>1. frame'[NodeOf[v]].pVersion = worker[v].pVersionOld + 1
    BY DEF OldFrame, Claims, UpdateVersion
  <2>2. CASE mail'[v][Owner] = mail[v][Owner]
    BY <2>1, <2>2 DEF UpdateVersion, Answered
  <2>3. CASE mail'[v][Owner] # mail[v][Owner]
    BY <2>1, <2>3 DEF OldMail
  <2> QED
    BY <2>2, <2>3
<1> QED
  BY <1>1, <1>2

(* What a worker's own step may do to its frame *)
OwnFrame(w) ==
    \/ frame' = frame
    \/ /\ ~PageExists \/ CanLatchExclusive(NodeOf[w]) \/ Claims(w)
       /\ \A k \in Node : k # NodeOf[w] => frame'[k] = frame[k]

(* A worker's step changes its own frame, and only with the latch. *)
LEMMA WorkersOwnFrame ==
    ASSUME SafetyInv, NEW w \in Worker,
           Begin(w) \/ NewPage(w) \/ NewRemotePage(w) \/ WorkerStep(w)
    PROVE  OwnFrame(w)
<1>0. TypeOK
  BY DEF SafetyInv
<1>1. CASE Begin(w) \/ NewRemotePage(w) \/ FixHit(w) \/ CollectMove(w) \/ Downgrade(w) \/ Release(w)
  BY <1>1 DEF Begin, NewRemotePage, FixHit, CollectMove, Downgrade, Release, OwnFrame
<1>2. CASE NewPage(w) \/ CollectAllocation(w)
  BY <1>0, <1>2 DEF NewPage, CollectAllocation, OwnFrame, PageExists, TypeOK
<1>3. CASE FixInsert(w) \/ FixUpgrade(w) \/ FixLocalChange(w)
  BY <1>0, <1>3 DEF FixInsert, FixUpgrade, FixLocalChange, Insufficient, OwnFrame, TypeOK
<1>4. ASSUME NEW x, Possess(w, x), Claims(w)
      PROVE  OwnFrame(w)
  BY <1>0, <1>4 DEF Possess, OwnFrame, TypeOK
<1>5. CASE CollectPossession(w) \/ CollectUpdate(w)
  <2>1. Claims(w)
    BY <1>5 DEF CollectPossession, CollectUpdate, Claims
  <2>2. CASE CollectPossession(w)
    BY <1>0, <1>4, <2>1, <2>2 DEF CollectPossession, OwnFrame, TypeOK
  <2>3. CASE CollectUpdate(w)
    BY <1>0, <2>1, <2>3 DEF CollectUpdate, OwnFrame, TypeOK
  <2> QED
    BY <1>5, <2>2, <2>3
<1>6. CASE CollectInvalidations(w)
  BY <1>4, <1>6 DEF CollectInvalidations, Claims
<1>7. CASE CollectCopy(w)
  <2>1. Claims(w)
    BY <1>7 DEF CollectCopy, Claims
  <2> QED
    BY <1>4, <1>7, <2>1 DEF CollectCopy, OwnFrame
<1> QED
  BY <1>1, <1>2, <1>3, <1>5, <1>6, <1>7 DEF WorkerStep

(* ... and to its mailboxes *)
LEMMA WorkersOwnMail ==
    ASSUME SafetyInv, NEW w \in Worker, NEW v \in Worker, v # w,
           Begin(w) \/ NewPage(w) \/ NewRemotePage(w) \/ WorkerStep(w)
    PROVE  worker'[v] = worker[v] /\ mail'[v] = mail[v]
<1>0. /\ worker \in [Worker -> WorkerState] /\ mail \in [Worker -> [Node -> Message]]
  BY DEF SafetyInv, TypeOK
<1> USE DEF AskOne
<1>1. CASE Begin(w) \/ NewRemotePage(w) \/ FixHit(w) \/ CollectMove(w) \/ Downgrade(w) \/ Release(w)
  BY <1>0, <1>1 DEF Begin, NewRemotePage, FixHit, CollectMove, Downgrade, Release,
     InvalidateSharedConflicts
<1>2. CASE NewPage(w) \/ CollectAllocation(w)
  BY <1>0, <1>2 DEF NewPage, CollectAllocation
<1>3. CASE FixInsert(w) \/ FixUpgrade(w)
  BY <1>0, <1>3 DEF FixInsert, FixUpgrade
<1>4. CASE FixLocalChange(w)
  BY <1>0, <1>4 DEF FixLocalChange, MovePageRnd, CopyPageRnd, InvalidateSharedConflicts
<1>5. ASSUME NEW x, Possess(w, x) PROVE worker'[v] = worker[v]
  BY <1>0, <1>5 DEF Possess
<1>6. CASE CollectPossession(w)
  BY <1>0, <1>5, <1>6 DEF CollectPossession, CopyPageRnd, InvalidateSharedConflicts
<1>7. CASE CollectUpdate(w)
  BY <1>0, <1>7 DEF CollectUpdate, InvalidateSharedConflicts
<1>8. CASE CollectInvalidations(w)
  BY <1>0, <1>5, <1>8 DEF CollectInvalidations
<1>9. CASE CollectCopy(w)
  BY <1>0, <1>5, <1>9 DEF CollectCopy, CopyPageRnd
<1> QED
  BY <1>1, <1>2, <1>3, <1>4, <1>6, <1>7, <1>8, <1>9 DEF WorkerStep

(* A worker's step keeps the versions of all other workers ... *)
LEMMA OthersVersions ==
    ASSUME SafetyInv, Versions, NEW w \in Worker, NEW v \in Worker, v # w,
           Begin(w) \/ NewPage(w) \/ NewRemotePage(w) \/ WorkerStep(w)
    PROVE  CopyVersion(v)' /\ UpdateVersion(v)'
<1>1. worker'[v] = worker[v] /\ mail'[v] = mail[v]
  BY WorkersOwnMail
<1>2. OldMail(v)
  BY <1>1 DEF OldMail, Asked
<1>3. OldFrame(v)
  <2> SUFFICES ASSUME Claims(v)
               PROVE  frame'[NodeOf[v]].pVersion = frame[NodeOf[v]].pVersion
    BY DEF OldFrame
  <2>1. /\ NodeOf[v] \in Node /\ NodeOf[w] \in Node /\ Latches /\ Allocation
    BY DEF SafetyInv, Control
  <2>2. latch[NodeOf[v]].x = v
    BY <2>1 DEF Latches
  <2>3. PageExists
    BY <2>1, PageIsThere DEF Claims
  <2>4. NodeOf[v] = NodeOf[w] => ~Claims(w) /\ ~CanLatchExclusive(NodeOf[w])
    BY <2>1, <2>2 DEF Latches, CanLatchExclusive, Unlatched
  <2> QED
    BY <2>1, <2>3, <2>4, WorkersOwnFrame DEF OwnFrame
<1> QED
  BY <1>2, <1>3, OldVersions DEF Versions

(* A copy request asks for the version of the frame. *)
LEMMA AskedVersion ==
    ASSUME SafetyInv, NEW w \in Worker, NEW peers, NEW x, CopyPageRnd(w, peers, x),
           frame'[NodeOf[w]].pVersion = x
    PROVE  CopyVersion(w)' /\ UpdateVersion(w)'
<1>0. /\ worker \in [Worker -> WorkerState] /\ mail \in [Worker -> [Node -> Message]]
  BY DEF SafetyInv, TypeOK
<1>1. PICK src \in peers :
        /\ mail' = [mail EXCEPT ![w] =
                       [n \in Node |-> IF n = src
                          THEN [type |-> "PCR", pVersion |-> x, retries |-> 0]
                          ELSE Nothing]]
        /\ worker' = [worker EXCEPT ![w].pc = "copy", ![w].peers = peers]
  BY DEF CopyPageRnd
<1>2. \A m \in Node : mail'[w][m] = Nothing \/ mail'[w][m].pVersion = x
  BY <1>0, <1>1
<1>3. worker'[w].pc = "copy"
  BY <1>0, <1>1 DEF WorkerState
<1> QED
  BY <1>2, <1>3 DEF CopyVersion, UpdateVersion, Asked

(* ... and its own. *)
LEMMA OwnVersions ==
    ASSUME SafetyInv, SafetyInv', Versions, NEW w \in Worker,
           Begin(w) \/ NewPage(w) \/ NewRemotePage(w) \/ WorkerStep(w)
    PROVE  CopyVersion(w)' /\ UpdateVersion(w)'
<1>0. /\ worker \in [Worker -> WorkerState] /\ mail \in [Worker -> [Node -> Message]]
      /\ frame \in [Node -> Frame] /\ NodeOf[w] \in Node /\ worker[w] \in WorkerState
  BY DEF SafetyInv, TypeOK
<1>1. ASSUME worker'[w].pc \notin {"copy", "update"}
      PROVE  CopyVersion(w)' /\ UpdateVersion(w)'
  BY <1>1, NextCopiersAsk DEF CopyVersion, UpdateVersion
<1> USE DEF WorkerState
<1>2. CASE Begin(w) \/ NewRemotePage(w) \/ FixHit(w) \/ CollectMove(w) \/ Downgrade(w) \/ Release(w)
  <2>1. worker'[w].pc \notin {"copy", "update"}
    BY <1>0, <1>2 DEF Begin, NewRemotePage, FixHit, CollectMove, Downgrade, Release,
       InvalidateSharedConflicts, Resting
  <2> QED
    BY <1>1, <2>1
<1>3. CASE NewPage(w) \/ CollectAllocation(w) \/ FixInsert(w)
  <2>1. worker'[w].pc \notin {"copy", "update"}
    BY <1>0, <1>3 DEF NewPage, CollectAllocation, FixInsert
  <2> QED
    BY <1>1, <2>1
<1>4. CASE FixUpgrade(w)
  <2>1. /\ worker'[w].pc = "update" /\ worker'[w].pVersionOld = frame[NodeOf[w]].pVersion
    BY <1>0, <1>4 DEF FixUpgrade
  <2>2. frame'[NodeOf[w]].pVersion = frame[NodeOf[w]].pVersion + 1
    BY <1>0, <1>4 DEF FixUpgrade, Frame
  <2>3. mail'[w][Owner].type = "PUR"
    BY <1>0, <1>4 DEF FixUpgrade, AskOne
  <2>4. CopyVersion(w)'
    BY <2>1, NextCopiersAsk DEF CopyVersion
  <2> QED
    BY <2>1, <2>2, <2>3, <2>4 DEF UpdateVersion, Answered
<1>5. CASE FixLocalChange(w)
  <2>1. CASE worker'[w].pc \notin {"copy", "update"}
    BY <1>1, <2>1
  <2>2. CASE worker'[w].pc \in {"copy", "update"}
    <3>1. /\ CopyPageRnd(w, frame[Owner].possessors, frame[Owner].pVersion) /\ frame' = frame
          /\ NodeOf[w] = Owner
      BY <1>0, <1>5, <2>2 DEF FixLocalChange, Insufficient, MovePageRnd, InvalidateSharedConflicts
    <3> QED
      BY <3>1, AskedVersion
  <2> QED
    BY <2>1, <2>2
<1>6. ASSUME NEW x, Possess(w, x) PROVE worker'[w].pc \notin {"copy", "update"}
  BY <1>0, <1>6 DEF Possess
<1>7. CASE CollectPossession(w)
  <2>1. CASE worker'[w].pc \notin {"copy", "update"}
    BY <1>1, <2>1
  <2>2. CASE worker'[w].pc \in {"copy", "update"}
    <3> DEFINE r == mail[w][Owner]
    <3>1. ~Possess(w, r.pVersion)
      BY <1>6, <2>2
    <3>2. r.resultType # "WithPage" /\ frame' = [frame EXCEPT ![NodeOf[w]].pVersion = r.pVersion]
      BY <1>7, <3>1 DEF CollectPossession
    <3>3. frame'[NodeOf[w]].pVersion = r.pVersion
      BY <1>0, <3>2 DEF Frame
    <3>4. CopyPageRnd(w, r.conflict, r.pVersion)
      <4>1. CASE r.resultType = "NoPageEvicted"
        BY <1>7, <3>2, <4>1 DEF CollectPossession
      <4>2. CASE r.resultType = "WithPageSharedConflict"
        BY <1>0, <1>7, <2>2, <3>2, <4>2 DEF CollectPossession, InvalidateSharedConflicts
      <4>3. CASE r.resultType \notin {"NoPageEvicted", "WithPageSharedConflict"}
        BY <1>0, <1>7, <2>2, <3>2, <4>3 DEF CollectPossession
      <4> QED
        BY <4>1, <4>2, <4>3
    <3> QED
      BY <3>3, <3>4, AskedVersion
  <2> QED
    BY <2>1, <2>2
<1>8. CASE CollectInvalidations(w)
  BY <1>1, <1>6, <1>8 DEF CollectInvalidations
<1>9. CASE CollectCopy(w)
  <2>1. \/ Possess(w, frame[NodeOf[w]].pVersion)
        \/ worker' = [worker EXCEPT ![w].pc = "fix", ![w].peers = {}]
        \/ CopyPageRnd(w, worker[w].peers, frame[NodeOf[w]].pVersion) /\ frame' = frame
    BY <1>9 DEF CollectCopy
  <2>2. CASE worker' = [worker EXCEPT ![w].pc = "fix", ![w].peers = {}]
    <3>1. worker'[w].pc \notin {"copy", "update"}
      BY <1>0, <2>2
    <3> QED
      BY <1>1, <3>1
  <2> QED
    BY <1>1, <1>6, <2>1, <2>2, AskedVersion
<1>10. CASE CollectUpdate(w)
  <2>1. worker'[w].pc \notin {"copy", "update"}
    BY <1>0, <1>10 DEF CollectUpdate, InvalidateSharedConflicts
  <2> QED
    BY <1>1, <2>1
<1> QED
  BY <1>2, <1>3, <1>4, <1>5, <1>7, <1>8, <1>9, <1>10 DEF WorkerStep

(* The owner grants an upgrade for the version it was asked for. *)
LEMMA GrantedVersion ==
    ASSUME SafetyInv, NEW w \in Worker, AcceptPUR(w)
    PROVE  /\ worker[w].pc = "update"
           /\ frame[Owner].pVersion = worker[w].pVersionOld
<1>1. /\ TypeOK /\ Mailboxes /\ Asked(w, Owner, "PUR") /\ CanLatchExclusive(Owner)
      /\ frame[Owner].pVersion <= mail[w][Owner].pVersion
  BY DEF SafetyInv, Control, AcceptPUR
<1>2. worker[w].pc = "update"
  BY <1>1, WhoAsks
<1>3. mail[w][Owner].pVersion = worker[w].pVersionOld /\ worker[w].pVersionOld \in Nat
  BY <1>1, <1>2, WorkerType DEF Mailboxes, Mailbox, UpdateMail, Asked, Answered, WorkerState
<1>4. frame[Owner].pVersion >= mail[w][Owner].pVersion
  BY <1>1, OwnerHandlersHold DEF OwnerHandlerEnsures
<1>5. frame[Owner].pVersion \in Nat
  BY <1>1, FrameType DEF Frame
<1> QED
  BY <1>1, <1>2, <1>3, <1>4, <1>5

(* The message handlers keep the versions. *)
LEMMA HandlerVersions ==
    ASSUME SafetyInv, Versions, NEW w \in Worker, NEW n \in Node,
           OwnerHandlerStep(w) \/ HandlerStep(w, n), NEW v \in Worker
    PROVE  CopyVersion(v)' /\ UpdateVersion(v)'
<1>0. /\ mail \in [Worker -> [Node -> Message]]
      /\ frame \in [Node -> Frame] /\ NodeOf[v] \in Node
  BY DEF SafetyInv, TypeOK
<1>1. worker' = worker
  BY DEF OwnerHandlerStep, HandleRAR, RetryPossessionRequest, HandlePRS, HandlePRX,
       RetryPUR, RejectPUR, AcceptPUR, HandlerStep, RetryPMR, HandlePMR, RetryPCR, RejectPCR,
       AcceptPCR
<1>2. ASSUME NEW m \in Node, NEW result, NEW conflict, NEW x, AskOne(w, m, Reply(result, conflict, x)),
             result \in {"UpdateFailed"} \/ v # w \/ worker[v].pc # "update" \/ x = worker[v].pVersionOld + 1
      PROVE  OldMail(v)
  <2>1. /\ mail'[w][m].type = "RESPONSE" /\ mail'[w][m].resultType = result
        /\ mail'[w][m].pVersion = x
        /\ \A k \in Node : k # m => mail'[w][k] = mail[w][k]
        /\ v # w => mail'[v] = mail[v]
    BY <1>0, <1>2 DEF AskOne, Reply
  <2>2. \A k \in Node : Asked(v, k, "PCR")' => Asked(v, k, "PCR") /\ mail'[v][k] = mail[v][k]
    BY <2>1 DEF Asked
  <2>3. \/ mail'[v][Owner] = mail[v][Owner]
        \/ v = w /\ mail'[v][Owner].resultType = result /\ mail'[v][Owner].pVersion = x
    BY <2>1
  <2> QED
    BY <1>1, <1>2, <2>2, <2>3 DEF OldMail
<1>3. ASSUME mail' = mail PROVE OldMail(v)
  BY <1>1, <1>3 DEF OldMail, Asked
<1>4. ASSUME NEW t \in {"RAR", "PRS", "PRX"}, Asked(w, Owner, t)
      PROVE  worker[w].pc # "update"
  BY <1>4, WhoAsks DEF SafetyInv, Control
<1>5. ASSUME NEW t \in {"PMR", "PCR"}, NEW m \in Node, Asked(w, m, t)
      PROVE  worker[w].pc # "update"
  BY <1>5, WhoAsks DEF SafetyInv, Control
<1>6. OldMail(v)
  <2>1. CASE HandleRAR(w) \/ HandlePRX(w)
    BY <1>2, <1>4, <2>1 DEF HandleRAR, HandlePRX
  <2>2. CASE HandlePRS(w)
    BY <1>2, <1>4, <2>2 DEF HandlePRS
  <2>3. CASE RetryPossessionRequest(w) \/ RetryPUR(w) \/ RetryPMR(w, n)
    BY <1>3, <2>3 DEF RetryPossessionRequest, RetryPUR, RetryPMR
  <2>4. CASE RejectPUR(w)
    BY <1>2, <2>4 DEF RejectPUR
  <2>5. CASE AcceptPUR(w)
    <3>1. AskOne(w, Owner, Reply("UpdateSucceedWithSharedConflict",
                              frame[Owner].possessors \ {Owner}, frame[Owner].pVersion + 1))
      BY <2>5 DEF AcceptPUR
    <3>2. frame[Owner].pVersion + 1 = worker[w].pVersionOld + 1
      BY <2>5, GrantedVersion
    <3> QED
      BY <1>2, <3>1, <3>2
  <2>6. CASE HandlePMR(w, n) \/ RejectPCR(w, n) \/ AcceptPCR(w, n)
    BY <1>2, <1>5, <2>6 DEF HandlePMR, RejectPCR, AcceptPCR, ReadyToCopy
  <2>7. CASE RetryPCR(w, n)
    <3>1. /\ mail' = [mail EXCEPT ![w][n].retries = @ + 1] /\ Asked(w, n, "PCR")
      BY <2>7 DEF RetryPCR
    <3>2. /\ mail[w][n] \in [type : {"PCR"}, pVersion : Nat, retries : Nat]
          /\ worker[w].pc = "copy"
      BY <3>1, CopyRequestFacts DEF SafetyInv, Control
    <3>3. mail'[w][n].pVersion = mail[w][n].pVersion
      BY <1>0, <3>1, <3>2
    <3>4. /\ \A k \in Node : k # n => mail'[w][k] = mail[w][k]
          /\ v # w => mail'[v] = mail[v]
      BY <1>0, <3>1
    <3> QED
      BY <1>1, <3>1, <3>2, <3>3, <3>4 DEF OldMail, Asked
  <2> QED
    BY <2>1, <2>2, <2>3, <2>4, <2>5, <2>6, <2>7 DEF OwnerHandlerStep, HandlerStep
<1>7. OldFrame(v)
  <2> SUFFICES ASSUME Claims(v)
               PROVE  frame'[NodeOf[v]].pVersion = frame[NodeOf[v]].pVersion
    BY DEF OldFrame
  <2>1. Latches /\ Allocation /\ latch[NodeOf[v]].x = v
    BY <1>0 DEF SafetyInv, Control, Latches
  <2>2. PageExists
    BY <2>1, PageIsThere DEF Claims
  <2>3. ~CanLatchExclusive(NodeOf[v])
    BY <2>1 DEF CanLatchExclusive, Unlatched
  <2>4. ~HandleRAR(w)
    <3> SUFFICES ASSUME Asked(w, Owner, "RAR") PROVE FALSE
      BY DEF HandleRAR
    <3> QED
      BY <2>2, WhoAsks DEF SafetyInv, Control, PageExists
  <2>5. CASE OwnerHandlerStep(w)
    <3>1. CASE HandlePRS(w) \/ HandlePRX(w) \/ AcceptPUR(w)
      BY <1>0, <2>3, <3>1 DEF HandlePRS, HandlePRX, AcceptPUR, GiveAway
    <3>2. CASE RetryPossessionRequest(w)
      BY <3>2 DEF RetryPossessionRequest
    <3>3. CASE RetryPUR(w) \/ RejectPUR(w)
      <4>1. \/ frame' = [frame EXCEPT ![Owner].mhWaiting = TRUE]
            \/ frame' = [frame EXCEPT ![Owner].mhWaiting = FALSE]
        BY <3>3 DEF RetryPUR, RejectPUR
      <4>2. frame'[Owner].pVersion = frame[Owner].pVersion
        <5>1. frame[Owner] \in Frame
          BY <1>0
        <5> QED
          BY <1>0, <4>1, <5>1 DEF Frame
      <4>3. \A k \in Node : k # Owner => frame'[k] = frame[k]
        BY <1>0, <4>1
      <4> QED
        BY <1>0, <4>2, <4>3
    <3> QED
      BY <2>4, <2>5, <3>1, <3>2, <3>3 DEF OwnerHandlerStep
  <2>6. CASE HandlerStep(w, n)
    BY <1>0, <2>6 DEF HandlerStep, RetryPMR, HandlePMR, RetryPCR, RejectPCR, AcceptPCR, Frame
  <2> QED
    BY <2>5, <2>6
<1> QED
  BY <1>6, <1>7, OldVersions DEF Versions

(* The page providers keep the versions: they never touch a latched frame. *)
LEMMA ProviderVersions ==
    ASSUME SafetyInv, Versions, NEW n \in Node, NEW v \in Worker,
           RemoveFrame(n) \/ RequestEviction(n) \/ ProviderStep(n) \/ EvictOwnerPage
    PROVE  CopyVersion(v)' /\ UpdateVersion(v)'
<1>0. frame \in [Node -> Frame] /\ NodeOf[v] \in Node
  BY DEF SafetyInv, TypeOK
<1>1. worker' = worker /\ mail' = mail
  BY DEF RemoveFrame, RequestEviction, ProviderStep, AcceptEviction, RejectEviction,
     CompleteRead, CollectEviction, EvictOwnerPage
<1>2. OldMail(v)
  BY <1>1 DEF OldMail, Asked
<1>3. OldFrame(v)
  <2> SUFFICES ASSUME Claims(v)
               PROVE  frame'[NodeOf[v]].pVersion = frame[NodeOf[v]].pVersion
    BY DEF OldFrame
  <2>1. Latches /\ Providers /\ latch[NodeOf[v]].x = v
    BY <1>0 DEF SafetyInv, Control, Latches
  <2>2. CASE RemoveFrame(n)
    BY <1>0, <2>1, <2>2 DEF RemoveFrame
  <2>3. CASE CollectEviction(n)
    <3>1. n # Owner /\ latch[n].x = PageProvider
      BY <2>1, <2>3 DEF CollectEviction, Providers
    <3> QED
      BY <1>0, <2>1, <2>3, <3>1 DEF CollectEviction
  <2>4. CASE RequestEviction(n) \/ RejectEviction(n) \/ CompleteRead(n)
    BY <2>4 DEF RequestEviction, RejectEviction, CompleteRead
  <2>5. CASE AcceptEviction(n) \/ EvictOwnerPage
    BY <1>0, <2>5 DEF AcceptEviction, EvictOwnerPage, Frame
  <2> QED
    BY <2>2, <2>3, <2>4, <2>5 DEF ProviderStep
<1> QED
  BY <1>2, <1>3, OldVersions DEF Versions

(* Versions is inductive relative to SafetyInv. *)
LEMMA VersionsStep == SafetyInv /\ SafetyInv' /\ Versions /\ [Next]_vars => Versions'
<1> SUFFICES ASSUME SafetyInv, SafetyInv', Versions, [Next]_vars, NEW v \in Worker
             PROVE  CopyVersion(v)' /\ UpdateVersion(v)'
  BY DEF Versions
<1>1. CASE UNCHANGED vars \/ Stop
  <2>1. worker' = worker /\ frame' = frame /\ mail' = mail
    BY <1>1 DEF Stop, vars
  <2>2. OldMail(v) /\ OldFrame(v)
    BY <2>1 DEF OldMail, OldFrame, Asked
  <2> QED
    BY <2>2, OldVersions DEF Versions
<1>2. CASE \E w \in Worker : Begin(w) \/ NewPage(w) \/ NewRemotePage(w) \/ WorkerStep(w)
  BY <1>2, OwnVersions, OthersVersions
<1>3. CASE \E w \in Worker : OwnerHandlerStep(w)
  BY <1>3, HandlerVersions
<1>4. CASE \E w \in Worker, n \in Node : HandlerStep(w, n)
  BY <1>4, HandlerVersions
<1>5. CASE \E n \in Node : RemoveFrame(n) \/ RequestEviction(n) \/ ProviderStep(n)
  BY <1>5, ProviderVersions
<1>6. CASE EvictOwnerPage
  BY <1>6, ProviderVersions
<1> QED
  BY <1>1, <1>2, <1>3, <1>4, <1>5, <1>6 DEF Next

(* The ensure()s of a possessor's message handler *)
LEMMA HoldersHold == SafetyInv /\ Versions => HolderEnsures
<1> SUFFICES ASSUME SafetyInv, Versions, NEW w \in Worker, NEW n \in Node
             PROVE  /\ Asked(w, n, "PMR") => n # Owner /\ frame[n].state # "FREE"
                    /\ ReadyToCopy(w, n) =>
                         /\ frame[n].possession = "SHARED"
                         /\ frame[n].pVersion = mail[w][n].pVersion
                         /\ frame[n].state = "HOT"
  BY DEF HolderEnsures
<1> DEFINE r == NodeOf[w]
<1>0. r = NodeOf[w] /\ r \in Node
  OBVIOUS
<1> HIDE DEF r
<1>1. /\ TypeOK /\ Latches /\ Providers /\ RemoteFrames /\ Mailboxes /\ Allocation /\ E!EpochInv
  BY DEF SafetyInv, Control
<1>2. ASSUME Asked(w, n, "PMR") PROVE n # Owner /\ frame[n].state # "FREE"
  <2>1. PageExists /\ n # Owner /\ Has(n)
    BY <1>0, <1>1, <1>2, MoveRequestFacts
  <2>2. frame[n].state = "FREE" => View(n) = NoCopy
    BY <1>1, <2>1 DEF RemoteFrames, View, FrameView
  <2> QED
    BY <2>1, <2>2 DEF Has, NoCopy, CopyOf
<1>3. ASSUME ReadyToCopy(w, n)
      PROVE  /\ frame[n].possession = "SHARED" /\ frame[n].pVersion = mail[w][n].pVersion
             /\ frame[n].state = "HOT"
  <2>1. /\ Asked(w, n, "PCR") /\ frame[n].state # "FREE" /\ latch[n].x = NoOne
        /\ ~(frame[n].mhWaiting /\ frame[n].state # "HOT")
    BY <1>3 DEF ReadyToCopy
  <2>2. /\ PageExists /\ n \in worker[w].peers
        /\ View(r) = CopyOf("copying", frame[r].pVersion, "SHARED", worker[w].peers)
    BY <1>0, <1>1, <2>1, CopyRequestFacts
  <2>3. /\ View(r).status = "copying" /\ View(r).epoch = frame[r].pVersion
        /\ View(r).mode = "SHARED" /\ View(r).wait = worker[w].peers
    BY <2>2 DEF CopyOf
  <2>4. n # Owner
    BY <1>0, <1>1, <2>2, <2>3, EpochFacts
  <2>5. frame[n].state = "HOT"
    <3>1. frame[n].state \in BF_STATE
      BY <1>1, FrameType DEF Frame
    <3> QED
      BY <1>1, <2>1, <2>4, <3>1 DEF RemoteFrames, BF_STATE
  <2>6. provider[n] # "accepted"
    BY <1>1, <2>1, <2>4 DEF Providers
  <2>7. View(n) = CopyOf("page", frame[n].pVersion, frame[n].possession, {})
    BY <2>1, <2>2, <2>4, <2>5, <2>6 DEF View, FrameView
  <2>8. /\ View(n).status = "page" /\ View(n).epoch = frame[n].pVersion
        /\ View(n).mode = frame[n].possession /\ View(n).wait = {}
    BY <2>7 DEF CopyOf
  <2>9. View(n).epoch \in Nat /\ View(r).epoch \in Nat
    BY <1>0, <1>1, EpochFacts
  <2>10. View(n).epoch >= View(r).epoch
    BY <1>0, <1>1, <2>2, <2>3, <2>8 DEF E!EpochInv, E!Sources, E!Copying, E!In, E!Epoch, Copies
  <2>11. View(r).epoch + 1 >= View(n).epoch
    BY <1>0, <1>1, <2>3, <2>8 DEF E!EpochInv, E!PageIsCurrent, E!HasPage, E!In, E!Epoch, Copies
  <2>12. View(r).epoch + 1 # View(n).epoch
    BY <1>0, <1>1, <2>3, <2>8, EpochFacts DEF Has
  <2>13. View(n).epoch = View(r).epoch
    BY <2>9, <2>10, <2>11, <2>12
  <2>14. View(n).mode = View(r).mode
    BY <1>0, <1>1, <2>3, <2>8, <2>13, EpochFacts DEF Has
  <2>15. mail[w][n].pVersion = frame[r].pVersion
    BY <1>0, <2>1 DEF Versions, CopyVersion
  <2> QED
    BY <2>3, <2>5, <2>8, <2>13, <2>14, <2>15
<1> QED
  BY <1>2, <1>3

(* The ensure()s of fix *)
LEMMA WorkersHold == SafetyInv /\ Versions => WorkerEnsures
<1> SUFFICES ASSUME SafetyInv, Versions, NEW w \in Worker
    PROVE
        /\ Insufficient(w, NodeOf[w]) /\ NodeOf[w] # Owner =>
             /\ frame[NodeOf[w]].possession = "SHARED"
             /\ frame[NodeOf[w]].state = "HOT"
             /\ worker[w].mode = "EXCLUSIVE"
        /\ /\ worker[w].pc = "update" /\ Answered(w, Owner)
           /\ mail[w][Owner].resultType # "UpdateFailed"
           => mail[w][Owner].pVersion = frame[NodeOf[w]].pVersion
        /\ Insufficient(w, Owner) /\ worker[w].mode = "SHARED"
             => frame[Owner].state = "EVICTED" /\ frame[Owner].possessors # {}
  BY DEF WorkerEnsures
<1> DEFINE n == NodeOf[w]
<1>0. n = NodeOf[w] /\ n \in Node
  OBVIOUS
<1> HIDE DEF n
<1>1. TypeOK /\ Latches /\ RemoteFrames /\ Allocation
  BY DEF SafetyInv, Control
<1>2. ASSUME Insufficient(w, n), n # Owner
      PROVE  frame[n].possession = "SHARED" /\ frame[n].state = "HOT" /\ worker[w].mode = "EXCLUSIVE"
  <2>1. /\ frame[n].state # "FREE" /\ ~frame[n].mhWaiting /\ latch[n].x = NoOne
        /\ ~Sufficient(n, worker[w].mode)
    BY <1>2 DEF Insufficient, CanLatchExclusive, Unlatched
  <2>2. frame[n].state \in BF_STATE /\ frame[n].possession \in POSSESSION /\ worker[w].mode \in MODE
    BY <1>0, <1>1, FrameType, WorkerType DEF Frame
  <2>3. frame[n].state = "HOT"
    BY <1>0, <1>1, <1>2, <2>1, <2>2 DEF RemoteFrames, BF_STATE
  <2>4. frame[n].possession # "NOBODY" /\ frame[n].possessors = {n}
    BY <1>0, <1>1, <1>2, <2>3 DEF RemoteFrames
  <2> QED
    BY <2>1, <2>2, <2>3, <2>4 DEF Sufficient, IsPossessor, MODE, POSSESSION
<1>3. ASSUME Insufficient(w, Owner), worker[w].mode = "SHARED"
      PROVE  frame[Owner].state = "EVICTED" /\ frame[Owner].possessors # {}
  <2>1. latch[Owner].x = NoOne /\ ~Sufficient(Owner, "SHARED") /\ worker[w].pc = "fix"
    BY <1>3 DEF Insufficient, CanLatchExclusive, Unlatched
  <2>2. PageExists
    BY <1>1, <2>1, PageIsThere
  <2>3. /\ frame[Owner].possession \in MODE /\ frame[Owner].possessors # {}
        /\ frame[Owner].state = IF Owner \in frame[Owner].possessors THEN "HOT" ELSE "EVICTED"
    BY <2>1, <2>2, OpenDirectory
  <2> QED
    BY <2>1, <2>3 DEF Sufficient, IsPossessor, MODE
<1>4. ASSUME worker[w].pc = "update", Answered(w, Owner),
             mail[w][Owner].resultType # "UpdateFailed"
      PROVE  mail[w][Owner].pVersion = frame[n].pVersion
  BY <1>0, <1>4 DEF Versions, UpdateVersion
<1> QED
  BY <1>0, <1>2, <1>3, <1>4

(* EnsuresHold: no ensure() of fix, the message handlers or the page       *)
(* provider fails, for any number of nodes and workers.                    *)
THEOREM TheEnsuresHold == Spec => []EnsuresHold
<1>1. Init => Versions
  BY DEF Init, Versions, CopyVersion, UpdateVersion, Asked, Resting
<1>2. SafetyInv /\ Versions => EnsuresHold
  BY OwnerHandlersHold, ProvidersHold, HoldersHold, WorkersHold DEF EnsuresHold
<1> QED
  BY <1>1, <1>2, SafetyInvariant, VersionsStep, PTL DEF Spec
=============================================================================
