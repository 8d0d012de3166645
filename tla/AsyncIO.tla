------------------------------ MODULE AsyncIO ------------------------------
(***************************************************************************)
(* AsyncWriteBuffer of a page provider thread (~ Reads) and                *)
(* AsyncReadBuffer of a message handler thread (Reads) over a ring         *)
(* of free slots, with the frames they work for.  The kernel finishes what *)
(* was submitted in any order.  Workers write pages in between; a written  *)
(* page is evicted only if the latch still has the version it had then.    *)
(***************************************************************************)
EXTENDS Integers, Sequences, FiniteSets

CONSTANTS
  Frames,
  N,           \* batch_max_size
  Values       \* bound: contents of a page, 0..Values-1; writes go round them

VARIABLES
  Reads,       \* which of the two buffers
  ring,        \* free_slots: [data, front, count]
  commands,    \* write_buffer_commands: the frame of each slot
  ready,       \* iocbs_ptr[0..ready_to_submit-1]: slots to submit
  outstanding, \* outstanding_ios
  kernel,      \* slots submitted and not finished
  done,        \* finished slots, in the order in which the kernel reports them
  events,      \* polled events without callback yet
  upgrade,     \* frame that a callback has unlatched and is about to evict; same: its version is the one loaded
  frame,       \* [resident, latched, dirty, page]
  ssd,         \* content of the page on the SSD
  last         \* the last write of each page, for the properties

io == <<ring, commands, ready, outstanding, kernel, done, events>>
vars == <<Reads, ring, commands, ready, outstanding, kernel, done, events, upgrade, frame, ssd, last>>

NoFrame == "noFrame"
NoUpgrade == [f |-> NoFrame, same |-> FALSE]
Slots == 0..(N - 1)

-----------------------------------------------------------------------------
(* RingBuffer *)

NextPowerTwo(n) ==
  LET powers == {2 ^ k : k \in 0..n}
  IN  CHOOSE p \in powers : p >= n /\ \A q \in powers : q >= n => p <= q
Size == NextPowerTwo(N)

Empty == [data |-> [i \in 0..(Size - 1) |-> 0], front |-> 0, count |-> 0]

Put(r, s) == [data |-> [r.data EXCEPT ![(r.front + r.count) % Size] = s], front |-> r.front, count |-> r.count + 1]
Peek(r) == r.data[r.front]
\* the removed entry is not read again: it is cleared so that states that differ only there are one
Remove(r) == [data |-> [r.data EXCEPT ![r.front] = 0], front |-> (r.front + 1) % Size, count |-> r.count - 1]

\* the constructors put every slot, from 0 on
Filled == [Empty EXCEPT !.data = [i \in 0..(Size - 1) |-> IF i < N THEN i ELSE 0], !.count = N]

FreeSlots == {ring.data[(ring.front + i) % Size] : i \in 0..(ring.count - 1)}

-----------------------------------------------------------------------------
Init ==
  /\ Reads \in BOOLEAN
  /\ ring = Filled
  /\ commands = [s \in Slots |-> NoFrame]
  /\ ready = <<>> /\ outstanding = 0 /\ kernel = {} /\ done = <<>> /\ events = <<>>
  /\ upgrade = NoUpgrade
  /\ frame = [f \in Frames |-> [resident |-> ~ Reads, latched |-> FALSE, dirty |-> FALSE, page |-> 0]]
  /\ ssd = [f \in Frames |-> 0] /\ last = [f \in Frames |-> 0]

\* u64 arithmetic: with fewer than two slots the bound wraps around
FullRead == outstanding + Len(ready) >= (N - 2) % 2 ^ 16
FullWrite == outstanding + Len(ready) >= N - 2
Full == IF Reads THEN FullRead ELSE FullWrite

\* the thread is not in a callback
AtWork == events = <<>> /\ upgrade.f = NoFrame

Add(f) ==
  LET slot == Peek(ring) IN
  /\ ring' = Remove(ring)
  /\ ready' = Append(ready, slot)
  /\ commands' = [commands EXCEPT ![slot] = f]
  /\ UNCHANGED <<outstanding, kernel, done, events>>

\* evict_owner_page, dirty frame: tryDowngradeExclusiveToShared and add
AddWrite(f) ==
  /\ ~ Reads /\ AtWork /\ ~ Full
  /\ frame[f].resident /\ frame[f].dirty /\ ~ frame[f].latched
  /\ frame' = [frame EXCEPT ![f].latched = TRUE]
  /\ Add(f)
  /\ UNCHANGED <<upgrade, ssd, last>>

\* STATE::SSD in the message handler: the new frame is latched exclusively until its page is there
AddRead(f) ==
  /\ Reads /\ AtWork /\ ~ Full
  /\ ~ frame[f].resident /\ ~ frame[f].latched
  /\ frame' = [frame EXCEPT ![f] = [@ EXCEPT !.resident = TRUE, !.latched = TRUE, !.dirty = FALSE]]
  /\ Add(f)
  /\ UNCHANGED <<upgrade, ssd, last>>

Submit ==
  /\ AtWork /\ ready # <<>>
  /\ kernel' = kernel \cup {ready[i] : i \in 1..Len(ready)}
  /\ outstanding' = outstanding + Len(ready)
  /\ ready' = <<>>
  /\ UNCHANGED <<ring, commands, done, events, upgrade, frame, ssd, last>>

\* the kernel and the SSD
Complete(slot) ==
  LET f == commands[slot] IN
  /\ slot \in kernel
  /\ kernel' = kernel \ {slot} /\ done' = Append(done, slot)
  /\ IF Reads THEN frame' = [frame EXCEPT ![f].page = ssd[f]] /\ UNCHANGED ssd
     ELSE ssd' = [ssd EXCEPT ![f] = frame[f].page] /\ UNCHANGED frame
  /\ UNCHANGED <<ring, commands, ready, outstanding, events, upgrade, last>>

Reap(n) ==
  /\ events' = SubSeq(done, 1, n) /\ done' = SubSeq(done, n + 1, Len(done))
  /\ outstanding' = outstanding - n
  /\ UNCHANGED <<ring, commands, ready, kernel, upgrade, frame, ssd, last>>

\* io_getevents with min 1: waits for one, may report any number
PollWrite == ~ Reads /\ AtWork /\ outstanding > 0 /\ \E n \in 1..Len(done) : Reap(n)

\* own_io_getevents: takes what the ring of the kernel has and does not wait
PollRead == Reads /\ AtWork /\ outstanding > 0 /\ done # <<>> /\ Reap(Len(done))

\* getReadBfs: the slot is free again, then the callback of the handler
ReadCallback ==
  LET slot == Head(events) IN
  /\ Reads /\ events # <<>>
  /\ ring' = Put(ring, slot) /\ events' = Tail(events)
  /\ frame' = [frame EXCEPT ![commands[slot]].latched = FALSE]
  /\ commands' = [commands EXCEPT ![slot] = NoFrame]
  /\ UNCHANGED <<ready, outstanding, kernel, done, upgrade, ssd, last>>

\* getWrittenBfs and the first part of its callback: clean, remember the version, unlatch
WriteCallback ==
  LET slot == Head(events)
      f == commands[slot]
  IN
  /\ ~ Reads /\ events # <<>> /\ upgrade.f = NoFrame
  /\ ring' = Put(ring, slot) /\ events' = Tail(events)
  /\ frame' = [frame EXCEPT ![f].dirty = FALSE, ![f].latched = FALSE]
  /\ upgrade' = [f |-> f, same |-> TRUE]
  /\ commands' = [commands EXCEPT ![slot] = NoFrame]
  /\ UNCHANGED <<ready, outstanding, kernel, done, ssd, last>>

\* Mutant: an exclusive latch is taken whatever the version is
UpgradeUnchecked ==
  LET f == upgrade.f IN
  /\ f # NoFrame
  /\ frame' = [frame EXCEPT ![f].resident = FALSE]
  /\ upgrade' = NoUpgrade
  /\ UNCHANGED <<io, ssd, last>>

\* the rest of the callback: another epoch or version means that the page was used again
Upgrade ==
  LET f == upgrade.f IN
  /\ f # NoFrame
  /\ \/ /\ upgrade.same /\ ~ frame[f].latched
        /\ frame' = [frame EXCEPT ![f].resident = FALSE]
     \/ UNCHANGED frame
  /\ upgrade' = NoUpgrade
  /\ UNCHANGED <<io, ssd, last>>

\* an exclusive latch changes the version
Latched(f) == upgrade' = IF upgrade.f = f THEN [upgrade EXCEPT !.same = FALSE] ELSE upgrade

\* a worker latches the page exclusively and writes it
Write(f) ==
  /\ frame[f].resident /\ ~ frame[f].latched
  /\ last' = [last EXCEPT ![f] = (@ + 1) % Values]
  /\ frame' = [frame EXCEPT ![f].page = last'[f], ![f].dirty = TRUE]
  /\ Latched(f)
  /\ UNCHANGED <<io, ssd>>

\* a worker misses the page and reads it from the SSD (write buffer), or a clean page is evicted (read buffer)
Load(f) ==
  /\ ~ Reads /\ ~ frame[f].resident
  /\ frame' = [frame EXCEPT ![f] = [@ EXCEPT !.resident = TRUE, !.page = ssd[f], !.dirty = FALSE]]
  /\ Latched(f)
  /\ UNCHANGED <<io, ssd, last>>

Evict(f) ==
  /\ Reads /\ frame[f].resident /\ ~ frame[f].latched
  /\ ssd' = [ssd EXCEPT ![f] = frame[f].page]
  /\ frame' = [frame EXCEPT ![f].resident = FALSE]
  /\ UNCHANGED <<io, upgrade, last>>

Thread == Submit \/ PollWrite \/ PollRead \/ ReadCallback \/ WriteCallback \/ Upgrade

Next == /\ \/ Thread
           \/ \E f \in Frames : AddWrite(f) \/ AddRead(f) \/ Write(f) \/ Load(f) \/ Evict(f)
           \/ \E s \in Slots : Complete(s)
        /\ UNCHANGED Reads

Spec == Init /\ [][Next]_vars

-----------------------------------------------------------------------------
(* Properties *)

Used == {ready[i] : i \in 1..Len(ready)} \cup kernel \cup {done[i] : i \in 1..Len(done)} \cup {events[i] : i \in 1..Len(events)}

\* A slot is free or belongs to exactly one request, and the ring never holds more than the slots there are:
\* a slot that is handed out twice would change the command of a request that is under way.
SlotIsExclusive ==
  /\ ring.count = Cardinality(FreeSlots)
  /\ FreeSlots \cap Used = {} /\ FreeSlots \cup Used = Slots
  /\ Len(ready) + Cardinality(kernel) + Len(done) + Len(events) = Cardinality(Used)
  /\ outstanding = Cardinality(kernel) + Len(done)

\* Every request that is under way belongs to a frame that is latched for it, each to another one.
CommandIsLatched ==
  /\ \A s \in Used : frame[commands[s]].latched
  /\ \A s, r \in Used : s # r => commands[s] # commands[r]

\* What a worker can read is the last write, and a page that is not in memory is complete on the SSD:
\* a page that was written again while it went to the SSD is not evicted.
NoLostWrite ==
  \A f \in Frames : IF frame[f].resident THEN frame[f].latched \/ frame[f].page = last[f] ELSE ssd[f] = last[f]
=============================================================================
