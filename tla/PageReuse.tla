----------------------------- MODULE PageReuse -----------------------------
(***************************************************************************)
(* When does a page that a message handler has sent become free again?     *)
(* Most writes are posted unsignalled.  Every connection has two batches   *)
(* of pages that were given away: when a completion is polled the passive  *)
(* batch goes to the free list and the batches change places.              *)
(***************************************************************************)
EXTENDS Integers, Sequences, FiniteSets

CONSTANTS
  Conns,      \* connections of clients to the handlers of this node
  Pages,      \* pages of this node
  P,          \* FLAGS_pollingInterval
  EvictCopies \* TRUE: the page provider also evicts copies that were sent

NoPage == "no page"

VARIABLES
  wqe,        \* posts so far, modulo P
  posts,      \* work requests that the network card has not finished
  comps,      \* completions to be polled
  active, passive,
  pending,    \* what a handler does after the completion for which it waits
  resident,   \* pages that a frame refers to
  free,       \* pageFreeList
  waits       \* the page whose transfers and invalidations a client waits for

vars == <<wqe, posts, comps, active, passive, pending, resident, free, waits>>

-----------------------------------------------------------------------------
Nothing == [wait |-> FALSE, add |-> NoPage]

Init ==
  /\ wqe = [c \in Conns |-> 0] /\ posts = [c \in Conns |-> <<>>] /\ comps = [c \in Conns |-> 0]
  /\ active = [c \in Conns |-> <<>>] /\ passive = [c \in Conns |-> <<>>]
  /\ pending = [c \in Conns |-> Nothing]
  /\ resident = {} /\ free = Pages
  /\ waits = [c \in Conns |-> NoPage]

Sends(c, p) == \E i \in 1..Len(posts[c]) : posts[c][i].page = p
InFlight(p) == \E c \in Conns : Sends(c, p)

\* The client of c has its answer, and every sharer of the page has the page it was sent and has
\* dropped it: only then does its worker go on to another request.
Ready(c) == /\ ~ pending[c].wait
            /\ posts[c] = <<>>
            /\ waits[c] # NoPage => ~ InFlight(waits[c])

Add(batch, p) == IF p = NoPage THEN batch ELSE Append(batch, p)

\* postWriteBatch or postWrite, and the two tests of wqe
Post(c, p) ==
  /\ posts' = [posts EXCEPT ![c] = Append(@, [page |-> p, signal |-> wqe[c] = 0])]
  /\ wqe' = [wqe EXCEPT ![c] = (@ + 1) % P]
  /\ pending' = [pending EXCEPT ![c].wait = wqe[c] = P - 1]

\* PRX at the owner, PMR at the node that has the page: the page is added after writePageAndMsg
SendAndDrop(c, p) ==
  /\ Ready(c) /\ p \in resident
  /\ posts' = [posts EXCEPT ![c] = Append(@, [page |-> p, signal |-> wqe[c] = 0])]
  /\ wqe' = [wqe EXCEPT ![c] = (@ + 1) % P]
  /\ pending' = [pending EXCEPT ![c] = IF wqe[c] = P - 1 THEN [wait |-> TRUE, add |-> p] ELSE Nothing]
  /\ active' = IF wqe[c] = P - 1 THEN active ELSE [active EXCEPT ![c] = Add(@, p)]
  /\ resident' = resident \ {p}
  /\ waits' = [waits EXCEPT ![c] = p]
  /\ UNCHANGED <<comps, passive, free>>

\* PUR: the page is dropped before writeMsg
DropAndAnswer(c, p) ==
  /\ Ready(c) /\ p \in resident
  /\ active' = [active EXCEPT ![c] = Add(@, p)]
  /\ resident' = resident \ {p}
  /\ Post(c, NoPage)
  /\ waits' = [waits EXCEPT ![c] = p]
  /\ UNCHANGED <<comps, passive, free>>

\* PRS, PCR: the page is sent and stays
SendCopy(c, p) ==
  /\ Ready(c) /\ p \in resident
  /\ Post(c, p)
  /\ waits' = [waits EXCEPT ![c] = NoPage]
  /\ UNCHANGED <<comps, active, passive, resident, free>>

\* every answer without page
Answer(c) ==
  /\ Ready(c)
  /\ Post(c, NoPage)
  /\ waits' = [waits EXCEPT ![c] = NoPage]
  /\ UNCHANGED <<comps, active, passive, resident, free>>

\* Mutant: the batch of the running interval is reclaimed
PollActive(c) ==
  /\ pending[c].wait /\ comps[c] > 0
  /\ comps' = [comps EXCEPT ![c] = @ - 1]
  /\ free' = free \cup {active[c][i] : i \in 1..Len(active[c])}
  /\ active' = [active EXCEPT ![c] = Add(<<>>, pending[c].add)]
  /\ pending' = [pending EXCEPT ![c] = Nothing]
  /\ UNCHANGED <<wqe, posts, passive, resident, waits>>

\* the poll loop has its completion: reclaimInvalidations, swap, and what the caller still adds
Poll(c) ==
  /\ pending[c].wait /\ comps[c] > 0
  /\ comps' = [comps EXCEPT ![c] = @ - 1]
  /\ free' = free \cup {passive[c][i] : i \in 1..Len(passive[c])}
  /\ active' = [active EXCEPT ![c] = Add(<<>>, pending[c].add)]
  /\ passive' = [passive EXCEPT ![c] = active[c]]
  /\ pending' = [pending EXCEPT ![c] = Nothing]
  /\ UNCHANGED <<wqe, posts, resident, waits>>

\* the network card finishes the oldest work request of a connection
Finish(c) ==
  /\ posts[c] # <<>>
  /\ comps' = [comps EXCEPT ![c] = IF Head(posts[c]).signal THEN @ + 1 ELSE @]
  /\ posts' = [posts EXCEPT ![c] = Tail(@)]
  /\ UNCHANGED <<wqe, active, passive, pending, resident, free, waits>>

\* a worker takes a free page for a frame and fills it
Fill(p) ==
  /\ p \in free
  /\ free' = free \ {p} /\ resident' = resident \cup {p}
  /\ UNCHANGED <<wqe, posts, comps, active, passive, pending, waits>>

\* the page provider evicts the owner's copy of a page that other nodes share
EvictCopy(p) ==
  /\ p \in resident
  /\ EvictCopies \/ ~ InFlight(p)
  /\ free' = free \cup {p} /\ resident' = resident \ {p}
  /\ UNCHANGED <<wqe, posts, comps, active, passive, pending, waits>>

Handler(c) == Poll(c) \/ Answer(c) \/ \E p \in Pages : SendAndDrop(c, p) \/ DropAndAnswer(c, p) \/ SendCopy(c, p)

Next == \/ \E c \in Conns : Handler(c) \/ Finish(c)
        \/ \E p \in Pages : Fill(p) \/ EvictCopy(p)

Spec == Init /\ [][Next]_vars

-----------------------------------------------------------------------------
(* Properties *)

\* A page on the free list is not the source of a write that the network card may still read: it is
\* handed out and overwritten only after the completion that follows the write.
NoReuseInFlight == \A p \in free : ~ InFlight(p)

\* InvalidationBatch::add never finds more than FLAGS_pollingInterval elements, although the page of the
\* last post of an interval counts for the next one and an update adds before it posts.
BatchFits == \A c \in Conns : Len(active[c]) <= P + 1 /\ Len(passive[c]) <= P + 1

Count(s, p) == Cardinality({i \in 1..Len(s) : s[i] = p})
Parked(c, p) == Count(active[c], p) + Count(passive[c], p) + (IF pending[c].add = p THEN 1 ELSE 0)

\* Every page is in one place: on the free list, in a frame, or once in the batches of one connection.
PagesAreConserved ==
  \A p \in Pages :
    \/ p \in free /\ p \notin resident /\ \A c \in Conns : Parked(c, p) = 0
    \/ p \in resident /\ p \notin free /\ \A c \in Conns : Parked(c, p) = 0
    \/ /\ p \notin free \cup resident
       /\ \E c \in Conns : Parked(c, p) = 1 /\ \A d \in Conns \ {c} : Parked(d, p) = 0

\* A handler that polls for a completion gets one: the completion belongs to the first post of the
\* interval, so it does not depend on the post that was just made.
PollEnds == \A c \in Conns : []<>(~ pending[c].wait)
=============================================================================
