----------------------------- MODULE MPMCQueue -----------------------------
(***************************************************************************)
(* MPMCQueue.hpp, with capacities that are a power of two.  A thread draws *)
(* a ticket from head_ or tail_; the turn of the ticket's slot says whose  *)
(* ticket may use it.  push and pop draw the ticket first and then wait;   *)
(* try_push and try_pop draw it only when the slot is ready.               *)
(*                                                                         *)
(* Loads, compare-exchanges and the stores of turn are steps of their own. *)
(***************************************************************************)
EXTENDS Integers, Sequences

CONSTANTS
  Producer, Consumer,
  Bits,          \* capacity_ is 2^Bits
  MaxTickets,    \* bound: tickets drawn by producers
  None

Capacity == 2 ^ Bits
Idx(i) == i % Capacity                 \* i & (capacity_ - 1)
Turn(i) == i \div Capacity             \* i >> bits_

VARIABLES
  head, tail,
  turn,       \* [0..Capacity-1 -> turn of the slot]
  storage,    \* [0..Capacity-1 -> value or None]
  pc,         \* [Producer \cup Consumer -> where the thread is]
  ticket,     \* [Producer \cup Consumer -> its ticket, or the head or tail it has read]
  pushed,     \* values in the order of their tickets
  popped      \* <<ticket, value>> of the pops that have taken their value

vars == <<head, tail, turn, storage, pc, ticket, pushed, popped>>

Thread == Producer \cup Consumer

Init ==
  /\ head = 0 /\ tail = 0
  /\ turn = [i \in 0..(Capacity - 1) |-> 0]
  /\ storage = [i \in 0..(Capacity - 1) |-> None]
  /\ pc = [t \in Thread |-> "rest"]
  /\ ticket = [t \in Thread |-> 0]
  /\ pushed = <<>> /\ popped = {}

Goto(t, l) == pc' = [pc EXCEPT ![t] = l]

\* the value pushed with ticket i is named after it and its thread
ValueOf(t, i) == <<t, i>>

-----------------------------------------------------------------------------
(* emplace and try_emplace *)

\* emplace: head_.fetch_add(1)
Emplace(t) ==
  /\ pc[t] = "rest" /\ head < MaxTickets
  /\ head' = head + 1
  /\ ticket' = [ticket EXCEPT ![t] = head]
  /\ pushed' = Append(pushed, ValueOf(t, head))
  /\ Goto(t, "wait")
  /\ UNCHANGED <<tail, turn, storage, popped>>

\* while (turn(head) * 2 != slot.turn)
AwaitEmpty(t) ==
  /\ pc[t] = "wait"
  /\ turn[Idx(ticket[t])] = Turn(ticket[t]) * 2
  /\ Goto(t, "construct")
  /\ UNCHANGED <<head, tail, turn, storage, ticket, pushed, popped>>

\* slot.construct
Construct(t) ==
  /\ pc[t] = "construct"
  /\ storage' = [storage EXCEPT ![Idx(ticket[t])] = ValueOf(t, ticket[t])]
  /\ Goto(t, "publish")
  /\ UNCHANGED <<head, tail, turn, ticket, pushed, popped>>

\* slot.turn.store(turn(head) * 2 + 1)
Publish(t) ==
  /\ pc[t] = "publish"
  /\ turn' = [turn EXCEPT ![Idx(ticket[t])] = Turn(ticket[t]) * 2 + 1]
  /\ Goto(t, "rest")
  /\ UNCHANGED <<head, tail, storage, ticket, pushed, popped>>

\* try_emplace: head_.load()
TryEmplace(t) ==
  /\ pc[t] = "rest"
  /\ ticket' = [ticket EXCEPT ![t] = head]
  /\ Goto(t, "tryTurn")
  /\ UNCHANGED <<head, tail, turn, storage, pushed, popped>>

\* the slot is ready for this ticket, or head_ is read again
TryTurn(t) ==
  /\ pc[t] = "tryTurn"
  /\ IF turn[Idx(ticket[t])] = Turn(ticket[t]) * 2 THEN Goto(t, "tryDraw") ELSE Goto(t, "tryAgain")
  /\ UNCHANGED <<head, tail, turn, storage, ticket, pushed, popped>>

\* Mutant: the ticket is stored instead of compared and exchanged
TryDrawStores(t) ==
  /\ pc[t] = "tryDraw" /\ ticket[t] < MaxTickets
  /\ head' = ticket[t] + 1
  /\ pushed' = IF ticket[t] < Len(pushed) THEN pushed ELSE Append(pushed, ValueOf(t, ticket[t]))
  /\ Goto(t, "construct")
  /\ UNCHANGED <<tail, turn, storage, ticket, popped>>

\* head_.compare_exchange_strong(head, head + 1)
TryDraw(t) ==
  /\ pc[t] = "tryDraw" /\ ticket[t] < MaxTickets
  /\ IF head = ticket[t]
     THEN /\ head' = head + 1
          /\ pushed' = Append(pushed, ValueOf(t, head))
          /\ Goto(t, "construct")
          /\ UNCHANGED ticket
     ELSE /\ ticket' = [ticket EXCEPT ![t] = head]
          /\ Goto(t, "tryTurn")
          /\ UNCHANGED <<head, pushed>>
  /\ UNCHANGED <<tail, turn, storage, popped>>

\* head == prevHead: false
TryAgain(t) ==
  /\ pc[t] = "tryAgain"
  /\ IF head = ticket[t] THEN Goto(t, "rest") /\ UNCHANGED ticket
     ELSE Goto(t, "tryTurn") /\ ticket' = [ticket EXCEPT ![t] = head]
  /\ UNCHANGED <<head, tail, turn, storage, pushed, popped>>

-----------------------------------------------------------------------------
(* pop and try_pop *)

\* pop: tail_.fetch_add(1)
Pop(t) ==
  /\ pc[t] = "rest" /\ tail < MaxTickets
  /\ tail' = tail + 1
  /\ ticket' = [ticket EXCEPT ![t] = tail]
  /\ Goto(t, "waitFull")
  /\ UNCHANGED <<head, turn, storage, pushed, popped>>

AwaitFull(t) ==
  /\ pc[t] = "waitFull"
  /\ turn[Idx(ticket[t])] = Turn(ticket[t]) * 2 + 1
  /\ Goto(t, "move")
  /\ UNCHANGED <<head, tail, turn, storage, ticket, pushed, popped>>

\* v = slot.move(); slot.destroy()
Move(t) ==
  /\ pc[t] = "move"
  /\ popped' = popped \cup {<<ticket[t], storage[Idx(ticket[t])]>>}
  /\ storage' = [storage EXCEPT ![Idx(ticket[t])] = None]
  /\ Goto(t, "free")
  /\ UNCHANGED <<head, tail, turn, ticket, pushed>>

\* slot.turn.store(turn(tail) * 2 + 2)
FreeSlot(t) ==
  /\ pc[t] = "free"
  /\ turn' = [turn EXCEPT ![Idx(ticket[t])] = Turn(ticket[t]) * 2 + 2]
  /\ Goto(t, "rest")
  /\ UNCHANGED <<head, tail, storage, ticket, pushed, popped>>

TryPop(t) ==
  /\ pc[t] = "rest"
  /\ ticket' = [ticket EXCEPT ![t] = tail]
  /\ Goto(t, "tryFull")
  /\ UNCHANGED <<head, tail, turn, storage, pushed, popped>>

TryFull(t) ==
  /\ pc[t] = "tryFull"
  /\ IF turn[Idx(ticket[t])] = Turn(ticket[t]) * 2 + 1 THEN Goto(t, "tryTake") ELSE Goto(t, "tryTail")
  /\ UNCHANGED <<head, tail, turn, storage, ticket, pushed, popped>>

TryTake(t) ==
  /\ pc[t] = "tryTake"
  /\ IF tail = ticket[t]
     THEN tail' = tail + 1 /\ Goto(t, "move") /\ UNCHANGED ticket
     ELSE ticket' = [ticket EXCEPT ![t] = tail] /\ Goto(t, "tryFull") /\ UNCHANGED tail
  /\ UNCHANGED <<head, turn, storage, pushed, popped>>

TryTail(t) ==
  /\ pc[t] = "tryTail"
  /\ IF tail = ticket[t] THEN Goto(t, "rest") /\ UNCHANGED ticket
     ELSE Goto(t, "tryFull") /\ ticket' = [ticket EXCEPT ![t] = tail]
  /\ UNCHANGED <<head, tail, turn, storage, pushed, popped>>

Produce(t) == AwaitEmpty(t) \/ Construct(t) \/ Publish(t) \/ TryTurn(t) \/ TryDraw(t) \/ TryAgain(t)
Consume(t) == AwaitFull(t) \/ Move(t) \/ FreeSlot(t) \/ TryFull(t) \/ TryTake(t) \/ TryTail(t)

Next == \/ \E t \in Producer : Emplace(t) \/ TryEmplace(t) \/ Produce(t)
        \/ \E t \in Consumer : Pop(t) \/ TryPop(t) \/ Consume(t)

Spec == Init /\ [][Next]_vars

-----------------------------------------------------------------------------
(* Properties *)

(***************************************************************************)
(* Pops return the values in the order in which the pushes drew their      *)
(* tickets, each value once, although slots are reused round after round   *)
(* and threads overtake each other between their ticket and their slot.    *)
(***************************************************************************)
FirstInFirstOut == \A x \in popped : x[1] < Len(pushed) /\ x[2] = pushed[x[1] + 1]

InSlot(t) == pc[t] \in {"construct", "publish", "move", "free"}

\* A slot is used by one thread at a time, and no value is overwritten before it is taken.
SlotIsExclusive ==
  /\ \A t, u \in Thread : t # u /\ InSlot(t) /\ InSlot(u) => Idx(ticket[t]) # Idx(ticket[u])
  /\ \A t \in Producer : pc[t] = "construct" => storage[Idx(ticket[t])] = None
=============================================================================
