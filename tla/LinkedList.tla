----------------------------- MODULE LinkedList -----------------------------
(***************************************************************************)
(* storage::LinkedList: a list of pages that threads of all nodes append   *)
(* to and read.  Every operation starts at the head and goes from page to  *)
(* page, getting the latch of the next page before it gives up its own.    *)
(* push, the two fill and the two fillNumbers differ in how many elements  *)
(* they bring and where these come from: a batch of elements here.         *)
(***************************************************************************)
EXTENDS Integers, Sequences, FiniteSets, SequencesExt

CONSTANTS
  Writers, Readers,
  MaxEntries,   \* elements that fit in a page
  MaxBatch,     \* bound: elements of a batch
  MaxBatches    \* bound: batches

VARIABLES
  pages,     \* sequence of [entries, next]; page 1 is the head, 0 is EMPTY_PID
  xlatch,    \* [pages -> set with the writer that holds the page]
  slatch,    \* [pages -> readers that hold the page]
  writer,    \* [Writers -> [cur, elems]] page held (0: none) and elements left
  reader,    \* [Readers -> [cur, idx, from, end, skip, got]]
  batches    \* number of batches so far

vars == <<pages, xlatch, slatch, writer, reader, batches>>

NewNode == [entries |-> <<>>, next |-> 0]
Idle == [cur |-> 0, elems |-> <<>>]
NotReading == [cur |-> 0, idx |-> 0, from |-> 0, end |-> 0, skip |-> 0, got |-> <<>>]

Init ==
  /\ pages = <<NewNode>> /\ xlatch = <<{}>> /\ slatch = <<{}>>
  /\ writer = [w \in Writers |-> Idle] /\ reader = [r \in Readers |-> NotReading] /\ batches = 0

IsFull(node) == Len(node.entries) = MaxEntries

\* the number of elements, all pages but the last being full (OneList), and the element with number k - 1: get skips
\* a page for every MaxEntries elements
Size == (Len(pages) - 1) * MaxEntries + Len(pages[Len(pages)].entries)
Content == [k \in 1..Size |-> pages[((k - 1) \div MaxEntries) + 1].entries[((k - 1) % MaxEntries) + 1]]

\* ExclusiveBFGuard and SharedBFGuard
CanX(p) == xlatch[p] = {} /\ slatch[p] = {}
CanS(p) == xlatch[p] = {}

-----------------------------------------------------------------------------
(* push, fill, fillNumbers *)

StartFill(w, n) ==
  /\ writer[w].cur = 0 /\ batches < MaxBatches /\ CanX(1)
  /\ batches' = batches + 1
  /\ writer' = [writer EXCEPT ![w] = [cur |-> 1, elems |-> [i \in 1..n |-> <<batches + 1, i>>]]]
  /\ xlatch' = [xlatch EXCEPT ![1] = {w}]
  /\ UNCHANGED <<pages, slatch, reader>>

\* to the tail
WalkToTail(w) ==
  LET p == writer[w].cur IN
  /\ p # 0 /\ pages[p].next # 0 /\ CanX(pages[p].next)
  /\ xlatch' = [xlatch EXCEPT ![p] = {}, ![pages[p].next] = {w}]
  /\ writer' = [writer EXCEPT ![w].cur = pages[p].next]
  /\ UNCHANGED <<pages, slatch, reader, batches>>

\* LinkedListNode::push; after the last element the guard is released
PushElement(w) ==
  LET p == writer[w].cur
      rest == Tail(writer[w].elems)
  IN
  /\ p # 0 /\ pages[p].next = 0 /\ ~IsFull(pages[p])
  /\ pages' = [pages EXCEPT ![p].entries = Append(@, Head(writer[w].elems))]
  /\ IF rest = <<>> THEN writer' = [writer EXCEPT ![w] = Idle] /\ xlatch' = [xlatch EXCEPT ![p] = {}]
     ELSE writer' = [writer EXCEPT ![w].elems = rest] /\ UNCHANGED xlatch
  /\ UNCHANGED <<slatch, reader, batches>>

\* Mutant: the page need not be the last one
AppendNodeAnywhere(w) ==
  LET p == writer[w].cur
      q == Len(pages) + 1
  IN
  /\ p # 0 /\ IsFull(pages[p])
  /\ pages' = Append([pages EXCEPT ![p].next = q], NewNode)
  /\ xlatch' = Append([xlatch EXCEPT ![p] = {}], {w}) /\ slatch' = Append(slatch, {})
  /\ writer' = [writer EXCEPT ![w].cur = q]
  /\ UNCHANGED <<reader, batches>>

\* the page is full: a new one, held from the start, is linked and takes its place
AppendNode(w) ==
  LET p == writer[w].cur
      q == Len(pages) + 1
  IN
  /\ p # 0 /\ pages[p].next = 0 /\ IsFull(pages[p])
  /\ pages' = Append([pages EXCEPT ![p].next = q], NewNode)
  /\ xlatch' = Append([xlatch EXCEPT ![p] = {}], {w}) /\ slatch' = Append(slatch, {})
  /\ writer' = [writer EXCEPT ![w].cur = q]
  /\ UNCHANGED <<reader, batches>>

-----------------------------------------------------------------------------
(* applyToRange, and get, which is a range of one *)

\* elements from up to end, counted from 0, that are in the list
StartRange(r, from, end) ==
  /\ reader[r].cur = 0 /\ from < end /\ end <= Size /\ CanS(1)
  /\ reader' = [reader EXCEPT ![r] = [cur |-> 1, idx |-> from % MaxEntries, from |-> from, end |-> end,
                                      skip |-> from \div MaxEntries, got |-> <<>>]]
  /\ slatch' = [slatch EXCEPT ![1] = @ \cup {r}]
  /\ UNCHANGED <<pages, xlatch, writer, batches>>

\* to the next page, over pages before the range or after the elements of this one
NextPage(r) ==
  LET R == reader[r]
      q == pages[R.cur].next
      node == pages[R.cur]
  IN
  /\ R.cur # 0 /\ q # 0 /\ CanS(q)
  /\ \/ R.skip > 0 /\ reader' = [reader EXCEPT ![r].cur = q, ![r].skip = @ - 1]
     \/ R.skip = 0 /\ R.idx = Len(node.entries) /\ reader' = [reader EXCEPT ![r].cur = q, ![r].idx = 0]
  /\ slatch' = [slatch EXCEPT ![R.cur] = @ \ {r}, ![q] = @ \cup {r}]
  /\ UNCHANGED <<pages, xlatch, writer, batches>>

\* func(node.entries[page_idx])
ApplyElement(r) ==
  LET R == reader[r]
      node == pages[R.cur]
  IN
  /\ R.cur # 0 /\ R.skip = 0 /\ R.idx < Len(node.entries) /\ Len(R.got) < R.end - R.from
  /\ reader' = [reader EXCEPT ![r].idx = @ + 1, ![r].got = Append(@, node.entries[R.idx + 1])]
  /\ UNCHANGED <<pages, xlatch, slatch, writer, batches>>

EndRange(r) ==
  LET R == reader[r] IN
  /\ R.cur # 0 /\ Len(R.got) >= R.end - R.from
  /\ slatch' = [slatch EXCEPT ![R.cur] = @ \ {r}] /\ reader' = [reader EXCEPT ![r] = NotReading]
  /\ UNCHANGED <<pages, xlatch, writer, batches>>

Write(w) == WalkToTail(w) \/ PushElement(w) \/ AppendNode(w)
Read(r) == NextPage(r) \/ ApplyElement(r) \/ EndRange(r)

Next ==
  \/ \E w \in Writers : Write(w) \/ \E n \in 1..MaxBatch : StartFill(w, n)
  \/ \E r \in Readers : Read(r) \/ \E from, end \in 0..Size : StartRange(r, from, end)

Spec == Init /\ [][Next]_vars

-----------------------------------------------------------------------------
(* Properties *)

\* The links lead through all pages in the order in which they were appended, and all of them are full but the last.
OneList ==
  \A p \in 1..Len(pages) : IF p = Len(pages) THEN pages[p].next = 0 ELSE pages[p].next = p + 1 /\ IsFull(pages[p])

\* The list only grows at its end: every step leaves the elements that are there where they are.
OnlyGrows == [][IsPrefix(Content, Content')]_vars

\* The elements of one fill stand next to each other, although other threads append at the same time.
BatchesAreContiguous ==
  \A i, j \in 1..Size : (i < j /\ Content[i][1] = Content[j][1]) => \A k \in i..j : Content[k][1] = Content[i][1]

\* A range is read as it stands in the list, across pages and while others append, and the page that a reader still
\* has to go to is there: the ensures of get and applyToRange.
RangeIsExact ==
  \A r \in Readers : LET R == reader[r] IN R.cur # 0 =>
    /\ R.got = SubSeq(Content, R.from + 1, R.from + Len(R.got)) /\ Len(R.got) <= R.end - R.from
    /\ R.skip > 0 \/ (R.idx = Len(pages[R.cur].entries) /\ Len(R.got) < R.end - R.from) => pages[R.cur].next # 0
=============================================================================
