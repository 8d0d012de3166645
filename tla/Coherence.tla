------------------------------ MODULE Coherence ------------------------------
(***************************************************************************)
(* The possession protocol that keeps the copies of ONE page coherent.     *)
(*                                                                         *)
(* Every node caches the page in a buffer frame; the frame of the page's   *)
(* owner is also the directory that says who possesses the page and in     *)
(* which mode.  Three kinds of threads act on the frames: workers (fix in  *)
(* Buffermanager.tpp), message handlers (MessageHandler.cpp/.hpp) and page *)
(* providers (PageProvider.cpp).  They communicate through one mailbox per *)
(* worker and node that holds at most one outstanding message, and through *)
(* the frames, each of which is protected by its latch.                    *)
(*                                                                         *)
(* What a thread does to a frame while it holds the frame's latch between  *)
(* two waits is one action.  The contents of a page are abstracted to      *)
(* whether they are the ones written last.  Pages are not written to SSD   *)
(* (FLAGS_evict_to_ssd = false, the default of this code).                 *)
(***************************************************************************)
EXTENDS Naturals, FiniteSets

CONSTANTS
    Node,           \* the nodes of the cluster
    Owner,          \* the node that owns the page (pid.getOwner())
    Worker,         \* the worker threads of all nodes
    NodeOf,         \* the node a worker runs on
    MessageHandler, \* a latch holder: the message handler of the frame's node
    PageProvider,   \* a latch holder: the page provider of the frame's node
    NoOne,          \* the exclusive latch is free
    Nothing,        \* an empty mailbox
    MaxRetries,     \* FLAGS_messageHandlerMaxRetries
    MaxFix,         \* bound: calls of fix and of newPage by all workers
    MaxEvictions    \* bound: evictions started by all page providers

ASSUME NodeAssumption ==
    /\ Owner \in Node
    /\ NodeOf \in [Worker -> Node]

ASSUME HolderAssumption ==
    /\ MessageHandler \notin Worker /\ PageProvider \notin Worker
    /\ NoOne \notin Worker \cup {MessageHandler, PageProvider}
    /\ MessageHandler # PageProvider

ASSUME BoundAssumption ==
    MaxRetries \in Nat /\ MaxFix \in Nat /\ MaxEvictions \in Nat

VARIABLES
    frame,       \* the buffer frame of the page on each node
    latch,       \* its latch: the exclusive holder and the shared holders
    worker,      \* where each worker is in fix
    mail,        \* mail[w][n]: the message between worker w and node n
    inflightCRs, \* mailboxes of the owner with a registered copy request
    provider,    \* where each page provider is in evicting the page
    fresh,       \* nodes whose page memory holds what was written last
    downgrading, \* workers re-latching whose latch version is unchanged
    fixes,       \* calls the workers have made
    evictions    \* evictions the page providers have started

vars == <<frame, latch, worker, mail, inflightCRs, provider, fresh,
          downgrading, fixes, evictions>>

-----------------------------------------------------------------------------
(* Types *)

BF_STATE == {"FREE", "HOT", "EVICTED", "IO_RDMA"}
POSSESSION == {"NOBODY", "EXCLUSIVE", "SHARED"}
MODE == {"EXCLUSIVE", "SHARED"}
RESULT == {"WithPage", "NoPage", "NoPageSharedConflict",
           "NoPageExclusiveConflict", "WithPageSharedConflict",
           "NoPageEvicted", "UpdateFailed", "UpdateSucceedWithSharedConflict",
           "CopyFailedWithRestart", "CopyFailedWithInvalidation"}

Frame == [state : BF_STATE, possession : POSSESSION, possessors : SUBSET Node,
          pVersion : Nat, mhWaiting : BOOLEAN]

Request ==
         [type : {"PRX", "PRS", "RAR"}]
    \cup [type : {"PMR"}, needPage : BOOLEAN]
    \cup [type : {"PCR"}, pVersion : Nat, retries : Nat]
    \cup [type : {"PUR"}, pVersion : Nat]

Response == [type : {"RESPONSE"}, resultType : RESULT,
             conflict : SUBSET Node, pVersion : Nat]

Message == Request \cup Response \cup {Nothing}

ASSUME MailAssumption == Nothing \notin Request \cup Response

Latch == [x : Worker \cup {MessageHandler, PageProvider, NoOne}, s : SUBSET Worker]

PC == {"idle",      \* outside of fix
       "fix",       \* in findFrameOrInsert, spinning until the frame is found
       "request",   \* waits for the owner's answer to PRX or PRS
       "move",      \* waits for the page from the node that gives it up
       "invalidate",\* waits until every sharer has given up its copy
       "copy",      \* waits for a copy of the page from a sharer
       "update",    \* waits for the owner's answer to PUR
       "downgrade", \* between unlatchExclusive and tryLatchShared
       "use",       \* holds the guard
       "alloc"}     \* waits for the owner's answer to RAR

WorkerState == [pc : PC, mode : MODE, peers : SUBSET Node, pVersionOld : Nat]

(* BufferFrame::reset *)
EmptyFrame == [state |-> "FREE", possession |-> "NOBODY", possessors |-> {},
               pVersion |-> 0, mhWaiting |-> FALSE]

Unlatched == [x |-> NoOne, s |-> {}]

Resting == [pc |-> "idle", mode |-> "SHARED", peers |-> {}, pVersionOld |-> 0]

Init ==
    /\ frame = [n \in Node |-> EmptyFrame]
    /\ latch = [n \in Node |-> Unlatched]
    /\ worker = [w \in Worker |-> Resting]
    /\ mail = [w \in Worker |-> [n \in Node |-> Nothing]]
    /\ inflightCRs = {}
    /\ provider = [n \in Node |-> "idle"]
    /\ fresh = {}
    /\ downgrading = {}
    /\ fixes = 0
    /\ evictions = 0

-----------------------------------------------------------------------------
(* Helpers *)

(* try_lock on the frame's shared_mutex succeeds *)
CanLatchExclusive(n) == latch[n] = Unlatched

(* BufferFrame::isPossessor *)
IsPossessor(n) ==
    frame[n].possession # "NOBODY" /\ n \in frame[n].possessors

(* The access functors: a possession that satisfies a call of fix *)
Sufficient(n, mode) ==
    /\ IsPossessor(n)
    /\ mode = "EXCLUSIVE" => frame[n].possession = "EXCLUSIVE"

(* The exclusive latch goes to h; the latch's version changes, so nobody   *)
(* who released it before can re-latch the frame unnoticed.                *)
LatchExclusive(n, h) ==
    /\ latch' = [latch EXCEPT ![n].x = h]
    /\ downgrading' = {w \in downgrading : NodeOf[w] # n}

(* Mutant: unlatching leaves the version as it was before the latching. *)
LatchUnnoticed(n) == UNCHANGED <<latch, downgrading>>

(* Latched and unlatched again within one action: only the version shows. *)
LatchBriefly(n) ==
    /\ downgrading' = {w \in downgrading : NodeOf[w] # n}
    /\ UNCHANGED latch

UnlatchExclusive(n) == latch' = [latch EXCEPT ![n].x = NoOne]

(* Mutant: the answer carries the version before the change. *)
ReplyOldVersion(result, conflict, v) ==
    [type |-> "RESPONSE", resultType |-> result, conflict |-> conflict,
     pVersion |-> v - 1]

Reply(result, conflict, v) ==
    [type |-> "RESPONSE", resultType |-> result, conflict |-> conflict,
     pVersion |-> v]

Answered(w, n) ==
    mail[w][n] # Nothing /\ mail[w][n].type = "RESPONSE"

Asked(w, n, t) == mail[w][n] # Nothing /\ mail[w][n].type = t

(* Page contents travel with the message: dst holds what src holds. *)
CopyPage(src, dst) ==
    fresh' = IF src \in fresh THEN fresh \cup {dst} ELSE fresh \ {dst}

AskOne(w, n, request) == mail' = [mail EXCEPT ![w][n] = request]

(* The mailboxes of w after invalidateSharedConflicts has written to peers *)
Invalidating(w, peers) ==
    [n \in Node |->
        IF n \in peers THEN [type |-> "PMR", needPage |-> FALSE] ELSE Nothing]

PageExists ==
    /\ frame[Owner].state # "FREE"
    /\ \A w \in Worker : worker[w].pc # "alloc"

-----------------------------------------------------------------------------
(* Workers *)

(* A worker calls fix for the page. *)
Begin(w) ==
    /\ worker[w].pc = "idle" /\ fixes < MaxFix /\ PageExists
    /\ \E mode \in MODE :
          worker' = [worker EXCEPT ![w].pc = "fix", ![w].mode = mode]
    /\ fixes' = fixes + 1
    /\ UNCHANGED <<frame, latch, mail, inflightCRs, provider, fresh,
                   downgrading, evictions>>

(* newPage: the owner allocates the page and holds it latched. *)
NewPage(w) ==
    /\ worker[w].pc = "idle" /\ fixes < MaxFix
    /\ NodeOf[w] = Owner
    /\ frame[Owner].state = "FREE"
    /\ \A v \in Worker : worker[v].pc # "alloc"
    /\ frame' = [frame EXCEPT ![Owner] =
                    [EmptyFrame EXCEPT !.state = "HOT",
                                       !.possession = "EXCLUSIVE",
                                       !.possessors = {Owner}]]
    /\ LatchExclusive(Owner, w)
    /\ worker' = [worker EXCEPT ![w].pc = "use", ![w].mode = "EXCLUSIVE"]
    /\ fresh' = {Owner}
    /\ fixes' = fixes + 1
    /\ UNCHANGED <<mail, inflightCRs, provider, evictions>>

(* newRemotePage: another node asks the owner for a page ... *)
NewRemotePage(w) ==
    /\ worker[w].pc = "idle" /\ fixes < MaxFix
    /\ NodeOf[w] # Owner
    /\ frame[Owner].state = "FREE"
    /\ \A v \in Worker : worker[v].pc # "alloc"
    /\ worker' = [worker EXCEPT ![w].pc = "alloc", ![w].mode = "EXCLUSIVE"]
    /\ AskOne(w, Owner, [type |-> "RAR"])
    /\ fixes' = fixes + 1
    /\ UNCHANGED <<frame, latch, inflightCRs, provider, fresh, downgrading,
                   evictions>>

(* ... and inserts a latched frame for the pid it is given. *)
CollectAllocation(w) ==
    LET n == NodeOf[w] IN
    /\ worker[w].pc = "alloc" /\ Answered(w, Owner)
    /\ frame' = [frame EXCEPT ![n] =
                    [EmptyFrame EXCEPT !.state = "HOT",
                                       !.possession = "EXCLUSIVE",
                                       !.possessors = {n}]]
    /\ LatchExclusive(n, w)
    /\ AskOne(w, Owner, Nothing)
    /\ worker' = [worker EXCEPT ![w].pc = "use"]
    /\ fresh' = {n}
    /\ UNCHANGED <<inflightCRs, provider, fixes, evictions>>

(* Hot path: the functor finds a sufficient possession and latches. *)
FixHit(w) ==
    LET n == NodeOf[w] IN
    /\ worker[w].pc = "fix"
    /\ frame[n].state # "FREE" /\ ~frame[n].mhWaiting
    /\ Sufficient(n, worker[w].mode)
    /\ \/ /\ worker[w].mode = "EXCLUSIVE" /\ CanLatchExclusive(n)
          /\ LatchExclusive(n, w)
       \/ /\ worker[w].mode = "SHARED" /\ latch[n].x = NoOne
          /\ latch' = [latch EXCEPT ![n].s = @ \cup {w}]
          /\ UNCHANGED downgrading
    /\ worker' = [worker EXCEPT ![w].pc = "use"]
    /\ UNCHANGED <<frame, mail, inflightCRs, provider, fresh, fixes, evictions>>

(* No frame for the page: insert one, latched, and ask the owner. *)
FixInsert(w) ==
    LET n == NodeOf[w] IN
    /\ worker[w].pc = "fix"
    /\ n # Owner /\ frame[n].state = "FREE" /\ CanLatchExclusive(n)
    /\ frame' = [frame EXCEPT ![n].state = "IO_RDMA", ![n].possession = "NOBODY"]
    /\ LatchExclusive(n, w)
    /\ worker' = [worker EXCEPT ![w].pc = "request"]
    /\ AskOne(w, Owner,
              [type |-> IF worker[w].mode = "EXCLUSIVE" THEN "PRX" ELSE "PRS"])
    /\ UNCHANGED <<inflightCRs, provider, fresh, fixes, evictions>>

(* Mutant: the sharers that do not hand over the page are forgotten. *)
MovePageOnly(w, peers) ==
    \E src \in peers :
        /\ AskOne(w, src, [type |-> "PMR", needPage |-> TRUE])
        /\ worker' = [worker EXCEPT ![w].pc = "move", ![w].peers = {}]

(* movePageRnd: ask one of peers for the page, keep the rest to invalidate. *)
MovePageRnd(w, peers) ==
    \E src \in peers :
        /\ AskOne(w, src, [type |-> "PMR", needPage |-> TRUE])
        /\ worker' = [worker EXCEPT ![w].pc = "move", ![w].peers = peers \ {src}]

(* invalidateSharedConflicts: ask all of peers to give up their copies. *)
InvalidateSharedConflicts(w, peers) ==
    /\ mail' = [mail EXCEPT ![w] = Invalidating(w, peers)]
    /\ worker' = [worker EXCEPT ![w].pc = "invalidate", ![w].peers = peers]

(* copyPageRnd: ask one of peers for a copy. *)
CopyPageRnd(w, peers, v) ==
    \E src \in peers :
        /\ mail' = [mail EXCEPT ![w] =
                       [n \in Node |-> IF n = src
                          THEN [type |-> "PCR", pVersion |-> v, retries |-> 0]
                          ELSE Nothing]]
        /\ worker' = [worker EXCEPT ![w].pc = "copy", ![w].peers = peers]

(* The functor finds a frame without a sufficient possession and latches it *)
(* exclusively.                                                            *)
Insufficient(w, n) ==
    /\ worker[w].pc = "fix" /\ NodeOf[w] = n
    /\ frame[n].state # "FREE" /\ ~frame[n].mhWaiting /\ CanLatchExclusive(n)
    /\ ~Sufficient(n, worker[w].mode)

(* LOCAL_POSSESSION_CHANGE: the owner takes the page back. *)
FixLocalChange(w) ==
    LET f == frame[Owner]
        others == f.possessors \ {Owner}
    IN
    /\ Insufficient(w, Owner)
    /\ LatchExclusive(Owner, w)
    /\ \/ /\ f.possession = "EXCLUSIVE"
          /\ frame' = [frame EXCEPT ![Owner].pVersion = @ + 1]
          /\ MovePageRnd(w, f.possessors)
       \/ /\ f.possession = "SHARED" /\ worker[w].mode = "EXCLUSIVE"
          /\ frame' = [frame EXCEPT ![Owner].pVersion = @ + 1,
                                    ![Owner].possessors = others]
          /\ IF f.state = "EVICTED"
             THEN MovePageRnd(w, others)
             ELSE InvalidateSharedConflicts(w, others)
       \/ /\ f.possession = "SHARED" /\ worker[w].mode = "SHARED"
          /\ CopyPageRnd(w, f.possessors, f.pVersion)
          /\ UNCHANGED frame
    /\ UNCHANGED <<inflightCRs, provider, fresh, fixes, evictions>>

(* REMOTE_POSSESSION_CHANGE: a sharer asks the owner for an upgrade.  Its   *)
(* version runs ahead of the owner's so that copy requests against the     *)
(* latched frame fail.                                                     *)
FixUpgrade(w) ==
    LET n == NodeOf[w]
        old == frame[n].pVersion
    IN
    /\ n # Owner /\ Insufficient(w, n)
    /\ LatchExclusive(n, w)
    /\ frame' = [frame EXCEPT ![n].pVersion = old + 1]
    /\ AskOne(w, Owner, [type |-> "PUR", pVersion |-> old])
    /\ worker' = [worker EXCEPT ![w].pc = "update", ![w].pVersionOld = old]
    /\ UNCHANGED <<inflightCRs, provider, fresh, fixes, evictions>>

(* The end of a cold path: the node possesses the page; a shared guard     *)
(* gives up the exclusive latch and tries to get the latch shared.         *)
Possess(w, v) ==
    LET n == NodeOf[w] IN
    /\ frame' = [frame EXCEPT ![n].possession = worker[w].mode,
                              ![n].possessors = IF frame[n].possession = "SHARED"
                                                   /\ worker[w].mode = "SHARED"
                                                THEN @ \cup {n} ELSE {n},
                              ![n].pVersion = v,
                              ![n].state = "HOT"]
    /\ IF worker[w].mode = "EXCLUSIVE"
       THEN /\ worker' = [worker EXCEPT ![w].pc = "use", ![w].peers = {},
                                        ![w].pVersionOld = 0]
            /\ UNCHANGED <<latch, downgrading>>
       ELSE /\ worker' = [worker EXCEPT ![w].pc = "downgrade", ![w].peers = {},
                                        ![w].pVersionOld = 0]
            /\ UnlatchExclusive(n)
            /\ downgrading' = downgrading \cup {w}

(* The owner's answer to PRX or PRS *)
CollectPossession(w) ==
    LET n == NodeOf[w]
        response == mail[w][Owner]
    IN
    /\ worker[w].pc = "request" /\ Answered(w, Owner)
    /\ \/ /\ response.resultType = "WithPage"
          /\ AskOne(w, Owner, Nothing)
          /\ Possess(w, response.pVersion)
       \/ /\ response.resultType # "WithPage"
          /\ frame' = [frame EXCEPT ![n].pVersion = response.pVersion]
          /\ CASE response.resultType = "NoPageEvicted" ->
                    CopyPageRnd(w, response.conflict, response.pVersion)
               [] response.resultType = "WithPageSharedConflict" ->
                    InvalidateSharedConflicts(w, response.conflict)
               [] OTHER ->
                    \E src \in response.conflict :
                       /\ mail' = [mail EXCEPT
                             ![w][Owner] = Nothing,
                             ![w][src] = [type |-> "PMR", needPage |-> TRUE]]
                       /\ worker' = [worker EXCEPT ![w].pc = "move",
                                       ![w].peers = response.conflict \ {src}]
          /\ UNCHANGED <<latch, downgrading>>
    /\ UNCHANGED <<inflightCRs, provider, fresh, fixes, evictions>>

(* The page has arrived; the remaining sharers are invalidated. *)
CollectMove(w) ==
    /\ worker[w].pc = "move"
    /\ \E src \in Node : Answered(w, src)
    /\ InvalidateSharedConflicts(w, worker[w].peers)
    /\ UNCHANGED <<frame, latch, inflightCRs, provider, fresh, downgrading,
                   fixes, evictions>>

(* Mutant: the first answer is taken for all of them. *)
CollectFirstInvalidation(w) ==
    /\ worker[w].pc = "invalidate"
    /\ worker[w].peers = {} \/ \E n \in worker[w].peers : Answered(w, n)
    /\ mail' = [mail EXCEPT ![w] = [n \in Node |-> IF Answered(w, n) THEN Nothing ELSE @[n]]]
    /\ Possess(w, frame[NodeOf[w]].pVersion)
    /\ UNCHANGED <<inflightCRs, provider, fresh, fixes, evictions>>

(* Every sharer has given up its copy. *)
CollectInvalidations(w) ==
    /\ worker[w].pc = "invalidate"
    /\ \A n \in worker[w].peers : Answered(w, n)
    /\ mail' = [mail EXCEPT ![w] = [n \in Node |-> Nothing]]
    /\ Possess(w, frame[NodeOf[w]].pVersion)
    /\ UNCHANGED <<inflightCRs, provider, fresh, fixes, evictions>>

(* A sharer has answered a copy request.  After a failure the owner gives  *)
(* up its latch and restarts; another node does so only when its message   *)
(* handler waits for the frame, otherwise it asks again.                   *)
CollectCopy(w) ==
    LET n == NodeOf[w] IN
    /\ worker[w].pc = "copy"
    /\ \E src \in Node :
          /\ Answered(w, src)
          /\ \/ /\ mail[w][src].resultType = "WithPage"
                /\ AskOne(w, src, Nothing)
                /\ Possess(w, frame[n].pVersion)
             \/ /\ mail[w][src].resultType # "WithPage"
                /\ n = Owner \/ frame[n].mhWaiting
                /\ UnlatchExclusive(n)
                /\ AskOne(w, src, Nothing)
                /\ worker' = [worker EXCEPT ![w].pc = "fix", ![w].peers = {}]
                /\ UNCHANGED <<frame, downgrading>>
             \/ /\ mail[w][src].resultType # "WithPage"
                /\ n # Owner /\ ~frame[n].mhWaiting
                /\ CopyPageRnd(w, worker[w].peers, frame[n].pVersion)
                /\ UNCHANGED <<frame, latch, downgrading>>
    /\ UNCHANGED <<inflightCRs, provider, fresh, fixes, evictions>>

(* The owner's answer to PUR *)
CollectUpdate(w) ==
    LET n == NodeOf[w]
        response == mail[w][Owner]
    IN
    /\ worker[w].pc = "update" /\ Answered(w, Owner)
    /\ \/ /\ response.resultType = "UpdateFailed"
          /\ frame' = [frame EXCEPT ![n].pVersion = worker[w].pVersionOld]
          /\ UnlatchExclusive(n)
          /\ AskOne(w, Owner, Nothing)
          /\ worker' = [worker EXCEPT ![w].pc = "fix", ![w].pVersionOld = 0]
       \/ /\ response.resultType = "UpdateSucceedWithSharedConflict"
          /\ frame' = [frame EXCEPT ![n].pVersion = response.pVersion]
          /\ InvalidateSharedConflicts(w, response.conflict \ {n})
          /\ UNCHANGED latch
    /\ UNCHANGED <<inflightCRs, provider, fresh, downgrading, fixes, evictions>>

(* Mutant: fix does not start again when the downgrade has failed, and      *)
(* returns without a guard.                                                *)
DowngradeOnce(w) ==
    LET n == NodeOf[w]
        success == latch[n].x = NoOne /\ w \in downgrading
    IN
    /\ worker[w].pc = "downgrade"
    /\ latch' = IF success THEN [latch EXCEPT ![n].s = @ \cup {w}] ELSE latch
    /\ worker' = [worker EXCEPT ![w] = IF success THEN [@ EXCEPT !.pc = "use"] ELSE Resting]
    /\ downgrading' = downgrading \ {w}
    /\ UNCHANGED <<frame, mail, inflightCRs, provider, fresh, fixes, evictions>>

(* Guard::downgrade: tryLatchShared and the check of the latch's version *)
Downgrade(w) ==
    LET n == NodeOf[w]
        success == latch[n].x = NoOne /\ w \in downgrading
    IN
    /\ worker[w].pc = "downgrade"
    /\ latch' = IF success THEN [latch EXCEPT ![n].s = @ \cup {w}] ELSE latch
    /\ worker' = [worker EXCEPT ![w].pc = IF success THEN "use" ELSE "fix"]
    /\ downgrading' = downgrading \ {w}
    /\ UNCHANGED <<frame, mail, inflightCRs, provider, fresh, fixes, evictions>>

(* The caller has used the page (a writer has changed it) and unlatches. *)
Release(w) ==
    LET n == NodeOf[w] IN
    /\ worker[w].pc = "use"
    /\ \/ /\ worker[w].mode = "EXCLUSIVE"
          /\ fresh' = {n}
          /\ UnlatchExclusive(n)
       \/ /\ worker[w].mode = "SHARED"
          /\ latch' = [latch EXCEPT ![n].s = @ \ {w}]
          /\ UNCHANGED fresh
    /\ worker' = [worker EXCEPT ![w] = Resting]
    /\ UNCHANGED <<frame, mail, inflightCRs, provider, downgrading, fixes,
                   evictions>>

-----------------------------------------------------------------------------
(* Message handlers.  A handler that cannot latch the frame leaves the     *)
(* message in its mailbox and comes back to it.                            *)

(* The owner's mailbox loop forgets the copy request of a worker that has   *)
(* written its next message.  The loop finds the entry by its own counter  *)
(* m_i, which is the index of the mailbox once the loop has gone round as  *)
(* often as there are mailboxes (mailboxIdx then always starts at 0);      *)
(* until then it may be the entry of another mailbox.                      *)
ForgetCopyRequest(w) == inflightCRs' = inflightCRs \ {w}

HandleRAR(w) ==
    /\ Asked(w, Owner, "RAR")
    /\ frame' = [frame EXCEPT ![Owner] =
                    [EmptyFrame EXCEPT !.state = "EVICTED",
                                       !.possession = "EXCLUSIVE",
                                       !.possessors = {NodeOf[w]}]]
    /\ AskOne(w, Owner, Reply("WithPage", {}, 0))
    /\ ForgetCopyRequest(w)
    /\ LatchBriefly(Owner)
    /\ UNCHANGED <<worker, provider, fresh, fixes, evictions>>

(* A possession request that cannot latch the frame stays in its mailbox. *)
RetryPossessionRequest(w) ==
    /\ Asked(w, Owner, "PRS") \/ Asked(w, Owner, "PRX")
    /\ ~CanLatchExclusive(Owner)
    /\ ForgetCopyRequest(w)
    /\ UNCHANGED <<frame, latch, worker, mail, provider, fresh, downgrading,
                   fixes, evictions>>

(* handlePossessionRequest<SHARED> *)
HandlePRS(w) ==
    LET n == NodeOf[w]
        f == frame[Owner]
    IN
    /\ Asked(w, Owner, "PRS") /\ CanLatchExclusive(Owner)
    /\ \/ /\ f.possession = "EXCLUSIVE" /\ f.possessors = {Owner}
          /\ frame' = [frame EXCEPT ![Owner].pVersion = @ + 1,
                                    ![Owner].possession = "SHARED",
                                    ![Owner].possessors = {Owner, n}]
          /\ AskOne(w, Owner, Reply("WithPage", {}, f.pVersion + 1))
          /\ CopyPage(Owner, n)
          /\ ForgetCopyRequest(w)
       \/ /\ f.possession = "EXCLUSIVE" /\ f.possessors # {Owner}
          /\ frame' = [frame EXCEPT ![Owner].pVersion = @ + 1,
                                    ![Owner].possession = "SHARED",
                                    ![Owner].possessors = {n}]
          /\ AskOne(w, Owner, Reply("NoPageExclusiveConflict", f.possessors,
                                    f.pVersion + 1))
          /\ ForgetCopyRequest(w)
          /\ UNCHANGED fresh
       \/ /\ f.possession = "SHARED" /\ f.state = "EVICTED"
          /\ frame' = [frame EXCEPT ![Owner].possessors = @ \cup {n}]
          /\ AskOne(w, Owner, Reply("NoPageEvicted", f.possessors, f.pVersion))
          /\ inflightCRs' = inflightCRs \cup {w}
          /\ UNCHANGED fresh
       \/ /\ f.possession = "SHARED" /\ f.state # "EVICTED"
          /\ frame' = [frame EXCEPT ![Owner].possessors = @ \cup {n}]
          /\ AskOne(w, Owner, Reply("WithPage", {}, f.pVersion))
          /\ CopyPage(Owner, n)
          /\ ForgetCopyRequest(w)
    /\ LatchBriefly(Owner)
    /\ UNCHANGED <<worker, provider, fixes, evictions>>

(* Mutant: the owner still claims to hold the page. *)
GiveAwayHot(n) ==
    frame' = [frame EXCEPT ![Owner].pVersion = @ + 1,
                           ![Owner].possession = "EXCLUSIVE",
                           ![Owner].possessors = {n}]

(* The directory after exclusive possession was given to node n *)
GiveAway(n) ==
    frame' = [frame EXCEPT ![Owner].pVersion = @ + 1,
                           ![Owner].possession = "EXCLUSIVE",
                           ![Owner].possessors = {n},
                           ![Owner].state = "EVICTED"]

(* handlePossessionRequest<EXCLUSIVE> *)
HandlePRX(w) ==
    LET n == NodeOf[w]
        f == frame[Owner]
        others == f.possessors \ {Owner}
        v == f.pVersion + 1
    IN
    /\ Asked(w, Owner, "PRX") /\ CanLatchExclusive(Owner)
    /\ GiveAway(n)
    /\ IF f.state = "EVICTED"
       THEN /\ AskOne(w, Owner,
                      Reply(IF f.possession = "SHARED"
                            THEN "NoPageSharedConflict"
                            ELSE "NoPageExclusiveConflict", others, v))
            /\ UNCHANGED fresh
       ELSE /\ AskOne(w, Owner,
                      Reply(IF others # {} THEN "WithPageSharedConflict"
                            ELSE "WithPage", others, v))
            /\ fresh' = (IF Owner \in fresh THEN fresh \cup {n} ELSE fresh \ {n})
                           \ {Owner}
    /\ ForgetCopyRequest(w)
    /\ LatchBriefly(Owner)
    /\ UNCHANGED <<worker, provider, fixes, evictions>>

(* PUR while the frame is latched: local threads are to let it through. *)
RetryPUR(w) ==
    /\ Asked(w, Owner, "PUR") /\ ~CanLatchExclusive(Owner)
    /\ frame[Owner].pVersion = mail[w][Owner].pVersion
    /\ frame' = [frame EXCEPT ![Owner].mhWaiting = TRUE]
    /\ ForgetCopyRequest(w)
    /\ UNCHANGED <<latch, worker, mail, provider, fresh, downgrading, fixes,
                   evictions>>

(* PUR that lost against another request, whether latched or not *)
RejectPUR(w) ==
    /\ Asked(w, Owner, "PUR")
    /\ frame[Owner].pVersion > mail[w][Owner].pVersion
    /\ frame' = [frame EXCEPT ![Owner].mhWaiting = FALSE]
    /\ AskOne(w, Owner, Reply("UpdateFailed", {}, 0))
    /\ ForgetCopyRequest(w)
    /\ IF CanLatchExclusive(Owner) THEN LatchBriefly(Owner)
       ELSE UNCHANGED <<latch, downgrading>>
    /\ UNCHANGED <<worker, provider, fresh, fixes, evictions>>

AcceptPUR(w) ==
    LET n == NodeOf[w]
        f == frame[Owner]
    IN
    /\ Asked(w, Owner, "PUR") /\ CanLatchExclusive(Owner)
    /\ f.pVersion <= mail[w][Owner].pVersion
    /\ frame' = [frame EXCEPT ![Owner] =
                    [state |-> "EVICTED", possession |-> "EXCLUSIVE",
                     possessors |-> {n}, pVersion |-> f.pVersion + 1,
                     mhWaiting |-> FALSE]]
    /\ AskOne(w, Owner, Reply("UpdateSucceedWithSharedConflict",
                              f.possessors \ {Owner}, f.pVersion + 1))
    /\ fresh' = fresh \ {Owner}
    /\ ForgetCopyRequest(w)
    /\ LatchBriefly(Owner)
    /\ UNCHANGED <<worker, provider, fixes, evictions>>

(* Mutant: nothing tells the local threads to let the request through. *)
RetryPMRSilently(w, n) ==
    /\ Asked(w, n, "PMR") /\ ~mail[w][n].needPage /\ ~CanLatchExclusive(n)
    /\ UNCHANGED vars

(* PMR without page while the frame is latched *)
RetryPMR(w, n) ==
    /\ Asked(w, n, "PMR") /\ ~mail[w][n].needPage /\ ~CanLatchExclusive(n)
    /\ frame' = [frame EXCEPT ![n].mhWaiting = TRUE]
    /\ UNCHANGED <<latch, worker, mail, inflightCRs, provider, fresh,
                   downgrading, fixes, evictions>>

(* PMR: answer, with the page when it is needed; the frame stays latched *)
(* until it is removed, after the answer is under way.                   *)
HandlePMR(w, n) ==
    LET needPage == mail[w][n].needPage IN
    /\ Asked(w, n, "PMR") /\ CanLatchExclusive(n)
    /\ AskOne(w, n, Reply(IF needPage THEN "WithPage" ELSE "NoPage", {}, 0))
    /\ IF needPage THEN CopyPage(n, NodeOf[w]) ELSE UNCHANGED fresh
    /\ LatchExclusive(n, MessageHandler)
    /\ UNCHANGED <<frame, worker, inflightCRs, provider, fixes, evictions>>

RemoveFrame(n) ==
    /\ latch[n].x = MessageHandler
    /\ frame' = [frame EXCEPT ![n] = EmptyFrame]
    /\ fresh' = fresh \ {n}
    /\ UnlatchExclusive(n)
    /\ UNCHANGED <<worker, mail, inflightCRs, provider, downgrading, fixes,
                   evictions>>

(* PCR against a latched frame of the same version, not too often *)
RetryPCR(w, n) ==
    /\ Asked(w, n, "PCR") /\ frame[n].state # "FREE" /\ latch[n].x # NoOne
    /\ frame[n].pVersion = mail[w][n].pVersion
    /\ mail[w][n].retries < MaxRetries
    /\ mail' = [mail EXCEPT ![w][n].retries = @ + 1]
    /\ UNCHANGED <<frame, latch, worker, inflightCRs, provider, fresh,
                   downgrading, fixes, evictions>>

RejectPCR(w, n) ==
    LET f == frame[n] IN
    /\ Asked(w, n, "PCR")
    /\ \/ /\ f.state = "FREE"
          /\ AskOne(w, n, Reply("CopyFailedWithInvalidation", {}, 0))
       \/ /\ f.state # "FREE"
          /\ \/ /\ latch[n].x # NoOne
                /\ \/ f.pVersion # mail[w][n].pVersion
                   \/ mail[w][n].retries >= MaxRetries
             \/ latch[n].x = NoOne /\ f.mhWaiting /\ f.state # "HOT"
          /\ AskOne(w, n, Reply("CopyFailedWithRestart", {}, 0))
    /\ UNCHANGED <<frame, latch, worker, inflightCRs, provider, fresh,
                   downgrading, fixes, evictions>>

(* PCR finds the frame, latches it shared and has not found it given up. *)
ReadyToCopy(w, n) ==
    /\ Asked(w, n, "PCR")
    /\ frame[n].state # "FREE" /\ latch[n].x = NoOne
    /\ ~(frame[n].mhWaiting /\ frame[n].state # "HOT")

AcceptPCR(w, n) ==
    /\ ReadyToCopy(w, n)
    /\ AskOne(w, n, Reply("WithPage", {}, 0))
    /\ CopyPage(n, NodeOf[w])
    /\ UNCHANGED <<frame, latch, worker, inflightCRs, provider, downgrading,
                   fixes, evictions>>

-----------------------------------------------------------------------------
(* Page providers *)

(* evict_owner_page: the owner drops its copy while others hold the page.  *)
(* The frame was chosen without its latch: by the time it is latched there *)
(* may be nothing left to drop, and it is only unlatched again.            *)
EvictOwnerPage ==
    LET others == frame[Owner].possessors \ {Owner} IN
    /\ evictions < MaxEvictions
    /\ frame[Owner].state = "HOT" /\ CanLatchExclusive(Owner)
    /\ IF frame[Owner].possession = "SHARED" /\ others # {}
       THEN /\ frame' = [frame EXCEPT ![Owner].possessors = others,
                                      ![Owner].state = "EVICTED"]
            /\ fresh' = fresh \ {Owner}
       ELSE UNCHANGED <<frame, fresh>>
    /\ LatchBriefly(Owner)
    /\ evictions' = evictions + 1
    /\ UNCHANGED <<worker, mail, inflightCRs, provider, fixes>>

(* Phases 3 and 4: latch a remote page and ask its owner to take it. *)
RequestEviction(n) ==
    /\ n # Owner /\ provider[n] = "idle" /\ evictions < MaxEvictions
    /\ frame[n].state = "HOT" /\ CanLatchExclusive(n)
    /\ LatchExclusive(n, PageProvider)
    /\ provider' = [provider EXCEPT ![n] = "requested"]
    /\ evictions' = evictions + 1
    /\ UNCHANGED <<frame, worker, mail, inflightCRs, fresh, fixes>>

(* Mutant: a copy of the page may be under way from the evicting node. *)
EvictionIgnoresCopies(n) ==
    /\ CanLatchExclusive(Owner) /\ ~frame[Owner].mhWaiting
    /\ frame[Owner].pVersion = frame[n].pVersion

(* What the owner's page provider checks before it accepts an eviction *)
EvictionQualifies(n) ==
    /\ CanLatchExclusive(Owner) /\ ~frame[Owner].mhWaiting
    /\ frame[Owner].pVersion = frame[n].pVersion
    /\ inflightCRs = {}

(* Phase 1 at the owner: the request of node n.  The last copy, and an      *)
(* exclusive one, is fetched: the owner's frame stays latched meanwhile.   *)
AcceptEviction(n) ==
    LET f == frame[Owner]
        rest == f.possessors \ {n}
        needRead == f.possession = "EXCLUSIVE" \/ rest = {}
    IN
    /\ provider[n] = "requested" /\ EvictionQualifies(n)
    /\ IF needRead
       THEN /\ frame' = [frame EXCEPT ![Owner].possessors = {Owner},
                                      ![Owner].state = "HOT"]
            /\ LatchExclusive(Owner, PageProvider)
            /\ provider' = [provider EXCEPT ![n] = "reading"]
       ELSE /\ frame' = [frame EXCEPT ![Owner].possessors = rest]
            /\ LatchBriefly(Owner)
            /\ provider' = [provider EXCEPT ![n] = "accepted"]
    /\ UNCHANGED <<worker, mail, inflightCRs, fresh, fixes, evictions>>

RejectEviction(n) ==
    /\ provider[n] = "requested" /\ ~EvictionQualifies(n)
    /\ provider' = [provider EXCEPT ![n] = "rejected"]
    /\ IF CanLatchExclusive(Owner) /\ ~frame[Owner].mhWaiting
       THEN LatchBriefly(Owner)
       ELSE UNCHANGED <<latch, downgrading>>
    /\ UNCHANGED <<frame, worker, mail, inflightCRs, fresh, fixes, evictions>>

(* Phase 6 at the owner: the page has been read, answer and unlatch. *)
CompleteRead(n) ==
    /\ provider[n] = "reading"
    /\ CopyPage(n, Owner)
    /\ UnlatchExclusive(Owner)
    /\ provider' = [provider EXCEPT ![n] = "accepted"]
    /\ UNCHANGED <<frame, worker, mail, inflightCRs, downgrading, fixes,
                   evictions>>

(* Phase 5: remove the frame when the owner has accepted, else unlatch it. *)
CollectEviction(n) ==
    /\ provider[n] \in {"accepted", "rejected"}
    /\ IF provider[n] = "accepted"
       THEN /\ frame' = [frame EXCEPT ![n] = EmptyFrame]
            /\ fresh' = fresh \ {n}
       ELSE UNCHANGED <<frame, fresh>>
    /\ UnlatchExclusive(n)
    /\ provider' = [provider EXCEPT ![n] = "idle"]
    /\ UNCHANGED <<worker, mail, inflightCRs, downgrading, fixes, evictions>>

-----------------------------------------------------------------------------
WorkerStep(w) ==
    \/ CollectAllocation(w) \/ FixHit(w) \/ FixInsert(w) \/ FixLocalChange(w)
    \/ FixUpgrade(w) \/ CollectPossession(w) \/ CollectMove(w)
    \/ CollectInvalidations(w) \/ CollectCopy(w) \/ CollectUpdate(w)
    \/ Downgrade(w) \/ Release(w)

OwnerHandlerStep(w) ==
    \/ HandleRAR(w) \/ RetryPossessionRequest(w) \/ HandlePRS(w) \/ HandlePRX(w)
    \/ RetryPUR(w) \/ RejectPUR(w) \/ AcceptPUR(w)

HandlerStep(w, n) ==
    \/ RetryPMR(w, n) \/ HandlePMR(w, n)
    \/ RetryPCR(w, n) \/ RejectPCR(w, n) \/ AcceptPCR(w, n)

ProviderStep(n) ==
    \/ AcceptEviction(n) \/ RejectEviction(n) \/ CompleteRead(n)
    \/ CollectEviction(n)

(* Every worker is outside of fix and has made its calls. *)
Finished ==
    /\ \A w \in Worker : worker[w].pc = "idle" /\ fixes = MaxFix
    /\ \A n \in Node : provider[n] = "idle" /\ latch[n] = Unlatched

Stop == Finished /\ UNCHANGED vars

Next ==
    \/ \E w \in Worker : Begin(w) \/ NewPage(w) \/ NewRemotePage(w)
    \/ \E w \in Worker : WorkerStep(w)
    \/ \E w \in Worker : OwnerHandlerStep(w)
    \/ \E w \in Worker, n \in Node : HandlerStep(w, n)
    \/ \E n \in Node : RemoveFrame(n) \/ RequestEviction(n) \/ ProviderStep(n)
    \/ EvictOwnerPage
    \/ Stop

Spec == Init /\ [][Next]_vars

(* A worker collects the answer to a copy request, and so sends the next   *)
(* one, while a sharer it may ask has its latch free.                      *)
CollectCopyInTime(w) ==
    /\ \E src \in worker[w].peers : latch[src].x = NoOne
    /\ CollectCopy(w)

(* Threads are pinned and never blocked by the scheduler for ever; every    *)
(* handler polls its mailboxes in a loop.  Nothing forces a worker to call *)
(* fix or a page provider to start an eviction.  Strong fairness stands    *)
(* for the independent timing of the machines: neither PMR with page nor   *)
(* PCR sets mhWaiting, and a sharer whose upgrade fails takes its latch    *)
(* again without a pause, so only timing lets another thread in between.   *)
Fairness ==
    /\ \A w \in Worker : WF_vars(WorkerStep(w)) /\ WF_vars(OwnerHandlerStep(w))
    /\ \A w \in Worker : NodeOf[w] # Owner => SF_vars(CollectCopyInTime(w))
    /\ \A w \in Worker, n \in Node \ {Owner} :
          NodeOf[w] # n => /\ WF_vars(HandlerStep(w, n))
                           /\ SF_vars(HandlePMR(w, n) \/ AcceptPCR(w, n))
    /\ \A n \in Node : WF_vars(RemoveFrame(n)) /\ WF_vars(ProviderStep(n))

-----------------------------------------------------------------------------
(* Properties *)

TypeOK ==
    /\ frame \in [Node -> Frame]
    /\ latch \in [Node -> Latch]
    /\ worker \in [Worker -> WorkerState]
    /\ mail \in [Worker -> [Node -> Message]]
    /\ inflightCRs \subseteq Worker
    /\ provider \in [Node -> {"idle", "requested", "reading", "accepted",
                              "rejected"}]
    /\ fresh \subseteq Node
    /\ downgrading \subseteq Worker
    /\ fixes \in 0 .. MaxFix
    /\ evictions \in 0 .. MaxEvictions

Holds(w, mode) == worker[w].pc = "use" /\ worker[w].mode = mode

(* Across all nodes, while a worker holds the page with an exclusive guard  *)
(* no other worker holds it in any mode: what PRX, PUR, PMR and the local   *)
(* latches together are for.                                               *)
SingleWriter ==
    \A w, v \in Worker :
        Holds(w, "EXCLUSIVE") /\ worker[v].pc = "use" => v = w

(* A worker that holds a guard, shared or exclusive, works on the contents  *)
(* that were written last, wherever they were written and however often    *)
(* the page was moved, copied or evicted since.                            *)
GuardSeesLastWrite ==
    \A w \in Worker : worker[w].pc = "use" => NodeOf[w] \in fresh

(* Some frame holds the last contents of the page at all times: no eviction *)
(* or invalidation drops the only copy.                                    *)
LastCopySurvives ==
    PageExists => \E n \in fresh : frame[n].state # "FREE"

(* Node n has been asked, or is about to be asked, to give up its copy. *)
BeingInvalidated(n) ==
    \E w \in Worker :
        \/ n \in worker[w].peers /\ worker[w].pc \in {"move", "invalidate"}
        \/ Asked(w, n, "PMR")
        \/ /\ Answered(w, Owner)
           /\ n \in mail[w][Owner].conflict
           /\ mail[w][Owner].resultType # "NoPageEvicted"

(* Node n runs ahead of the directory while it asks for an upgrade. *)
Upgrading(n) == \E w \in Worker : NodeOf[w] = n /\ worker[w].pc = "update"

(* The owner's directory knows every copy: a node that holds the page and   *)
(* has not handed it over already is a possessor in the owner's frame, at  *)
(* least in the same mode and with the same version, unless a worker that  *)
(* was granted the page is about to take it from that node.                *)
DirectoryKnowsCopies ==
    \A n \in Node \ {Owner} :
        frame[n].state = "HOT" /\ latch[n].x # MessageHandler
            /\ provider[n] \notin {"reading", "accepted"}
            /\ PageExists
        => \/ BeingInvalidated(n)
           \/ /\ n \in frame[Owner].possessors
              /\ frame[n].possession = "EXCLUSIVE"
                    => frame[Owner].possession = "EXCLUSIVE"
              /\ frame[n].pVersion = frame[Owner].pVersion \/ Upgrading(n)

(* What the owner's handlers ensure() once they have latched the frame:     *)
(* the requester is not a possessor already (LOCAL_POSSESSION_CHANGE), the *)
(* page is here exactly when the directory says so, an upgrade comes from  *)
(* a sharer that has the current version.                                  *)
OwnerHandlerEnsures ==
    LET f == frame[Owner]
        others == f.possessors \ {Owner}
    IN
    CanLatchExclusive(Owner) => \A w \in Worker :
        /\ Asked(w, Owner, "PRS") =>
             /\ ~(f.possession = "SHARED" /\ NodeOf[w] \in f.possessors)
             /\ f.possession = "EXCLUSIVE"
                    => (f.state = "HOT" <=> f.possessors = {Owner})
             /\ f.possession = "SHARED" /\ f.state = "EVICTED"
                    => Owner \notin f.possessors /\ f.possessors # {}
             /\ f.state \in {"HOT", "EVICTED"}
        /\ Asked(w, Owner, "PRX") =>
             /\ ~(f.possession = "EXCLUSIVE" /\ NodeOf[w] \in f.possessors)
             /\ f.state = "HOT" \/ (f.state = "EVICTED" /\ others # {})
             /\ f.possession = "EXCLUSIVE" /\ others # {} => f.state = "EVICTED"
        /\ Asked(w, Owner, "PUR") =>
             /\ f.pVersion >= mail[w][Owner].pVersion
             /\ f.pVersion = mail[w][Owner].pVersion
                    => f.possession = "SHARED" /\ NodeOf[w] \in f.possessors

(* What the handlers of PMR and PCR ensure(): a node that is asked to give  *)
(* up its copy has a frame with a page; a node that hands out a copy has   *)
(* it in shared mode and in the version asked for.                         *)
HolderEnsures ==
    \A w \in Worker, n \in Node :
        /\ Asked(w, n, "PMR") => n # Owner /\ frame[n].state # "FREE"
        /\ ReadyToCopy(w, n) =>
             /\ frame[n].possession = "SHARED"
             /\ frame[n].pVersion = mail[w][n].pVersion
             /\ frame[n].state = "HOT"

(* What fix ensures(): an upgrade starts from a valid shared copy and ends  *)
(* with the version the sharer announced; the owner copies a page only     *)
(* when it has none and somebody else has one.                             *)
WorkerEnsures ==
    \A w \in Worker :
        /\ Insufficient(w, NodeOf[w]) /\ NodeOf[w] # Owner =>
             /\ frame[NodeOf[w]].possession = "SHARED"
             /\ frame[NodeOf[w]].state = "HOT"
             /\ worker[w].mode = "EXCLUSIVE"
        /\ /\ worker[w].pc = "update" /\ Answered(w, Owner)
           /\ mail[w][Owner].resultType # "UpdateFailed"
           => mail[w][Owner].pVersion = frame[NodeOf[w]].pVersion
        /\ Insufficient(w, Owner) /\ worker[w].mode = "SHARED"
             => frame[Owner].state = "EVICTED" /\ frame[Owner].possessors # {}

(* What the owner's page provider ensures() about an eviction it accepts:   *)
(* the evicting node is a possessor, the only one if exclusive.            *)
ProviderEnsures ==
    \A n \in Node : provider[n] = "requested" /\ EvictionQualifies(n) =>
        /\ frame[Owner].state # "FREE"
        /\ n \in frame[Owner].possessors
        /\ frame[Owner].possession = "EXCLUSIVE"
              => frame[Owner].possessors = {n}

(* No ensure() of the protocol fails, at the owner, at the holders of a     *)
(* copy, in fix and in the page provider: each relies on what other nodes  *)
(* have done, or have not done yet.                                        *)
EnsuresHold ==
    OwnerHandlerEnsures /\ HolderEnsures /\ WorkerEnsures /\ ProviderEnsures

(* Every call of fix returns: the nodes never wait for each other in a      *)
(* circle, and no request is retried for ever (the version raised before   *)
(* PUR, mhWaiting and CopyFailedWithRestart are there for this).           *)
FixReturns ==
    \A w \in Worker : worker[w].pc = "fix" ~> worker[w].pc = "use"

-----------------------------------------------------------------------------
(* The protocol implements one lock for the whole cluster. *)

(* The guard a worker has, or waits for, in fix *)
Guard(w) ==
    CASE worker[w].pc \in {"idle", "alloc"} -> [status |-> "none"]
      [] worker[w].pc = "use" -> [status |-> "held", mode |-> worker[w].mode]
      [] OTHER -> [status |-> "waiting", mode |-> worker[w].mode]

Lock == INSTANCE PageLock
        WITH created <- PageExists, guard <- [w \in Worker |-> Guard(w)]

(* Every behaviour of the protocol, seen only through the guards it hands   *)
(* out, is a behaviour of one reader-writer lock: whatever messages were   *)
(* exchanged, fix returns a guard only when it excludes all conflicting    *)
(* guards of all nodes, in the mode that was asked for.                    *)
ImplementsPageLock == Lock!Spec
=============================================================================
